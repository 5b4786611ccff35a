------------------------------ MODULE Scenario ------------------------------
(***************************************************************************)
(* Lua scenarios: ScenarioEngine in a thread of its own, and the part of   *)
(* PPBController that loads, runs and stops it, together with the firmware *)
(* update and the auto-poll it has to get along with.                      *)
(*                                                                         *)
(* The controller lives in the GUI's thread.  It posts work to the script  *)
(* thread; a script's calls are posted back and the script blocks until    *)
(* the controller's event loop has run them.  loadScenario waits for a     *)
(* running script in a nested event loop, in which the user goes on        *)
(* clicking, and then blocks until the new file is loaded.                 *)
(*                                                                         *)
(* A load makes one engine for one file: both are named by its number.     *)
(* The text of a file outside its functions calls nothing and ends.  A     *)
(* loop that has been told to quit takes no more input before it returns.  *)
(***************************************************************************)
EXTENDS Naturals, Sequences, FiniteSets

CONSTANTS
  Addr,        (* PPBs                                                       *)
  Commands,    (* what is ordered from them, of TS, TC, FU                   *)
  MaxLoads,    (* bound: clicks on Load                                      *)
  MaxRuns,     (* bound: clicks on Run                                       *)
  MaxUpdates,  (* bound: firmware updates                                    *)
  MaxOthers,   (* bound: commands of the user and of the auto-poll           *)
  MaxOrders    (* bound: commands of one kind in flight to a PPB when a      *)
               (* script orders another                                      *)

ASSUME ScenarioAssumption ==
  /\ Addr # {} /\ Commands \subseteq {"TS", "TC", "FU"}
  /\ MaxLoads \in Nat /\ MaxRuns \in Nat /\ MaxUpdates \in Nat /\ MaxOthers \in Nat
  /\ MaxOrders \in Nat \ {0}

VARIABLES
  gui,       (* the controller, see Gui                                      *)
  script,    (* what the script thread does, see Script                      *)
  stop,      (* m_stopRequested of each engine                               *)
  toScript,  (* work posted to the script thread                             *)
  toGui,     (* calls and signals posted to the controller by a script       *)
  orders,    (* commands the command engine has not completed                *)
  own        (* history: the script's own command has succeeded              *)

scVars == <<gui, script, stop, toScript, toGui, orders, own>>

NoEngine == 0
Engines == 1 .. MaxLoads

(***************************************************************************)
(*   frames    the calls of loadScenario that wait, innermost last         *)
(*   blocked   in a blocking call to the script thread                     *)
(*   running   m_scenarioRunning                                           *)
(*   engine    m_scenarioEngine                                            *)
(*   file      m_scenarioFileName                                          *)
(*   updating  m_firmwareUpdateRunning                                     *)
(*   poll      m_autoPollEnabled; timer: its timer is active; resume: the  *)
(*             update restarts it                                          *)
(*   closing   how far the destructor is                                   *)
(***************************************************************************)
Frame == [load : Engines, quit : BOOLEAN, finished : BOOLEAN]
Gui == [frames : Seq(Frame), blocked : BOOLEAN, running : BOOLEAN, engine : {NoEngine} \cup Engines,
        file : {NoEngine} \cup Engines, updating : BOOLEAN, poll : BOOLEAN, timer : BOOLEAN, resume : BOOLEAN,
        closing : {"no", "waiting", "deleting", "closed"},
        loads : Nat, runs : Nat, updates : Nat, others : Nat]

(***************************************************************************)
(*   pc       idle in the thread's event loop; load, main: running Lua;    *)
(*            the rest: in a call of the API                               *)
(*   engine   the engine that executes or loads                            *)
(*   cmd, addr, conn, success, timeout: the variables of the wait          *)
(*   result   what the last wait has returned                              *)
(***************************************************************************)
Calling == {"call", "launch", "armed", "wait", "unlaunch"}
Script == [pc : {"idle", "load", "main"} \cup Calling, engine : {NoEngine} \cup Engines,
           cmd : Commands \cup {"none"}, addr : Addr, conn : BOOLEAN, success : BOOLEAN, timeout : BOOLEAN,
           result : BOOLEAN]

Work   == [op : {"execute", "load", "deleteLater", "delete"}, engine : Engines]
Posted == [what : {"finished", "call", "launch", "unlaunch"}, engine : Engines]

Executing == script.pc \in {"main"} \cup Calling
Busy == \E o \in DOMAIN orders : orders[o] > 0
PostToScript(work) == toScript' = toScript \o work
PostToGui(what) == toGui' = Append(toGui, [what |-> what, engine |-> script.engine])

(* The event loop of the controller, the main or a nested one, runs. *)
Serving == ~gui.blocked /\ gui.closing # "closed"
UserActs == Serving /\ gui.closing = "no" /\ \A i \in DOMAIN gui.frames : ~gui.frames[i].quit

-----------------------------------------------------------------------------
(* Orders to the command engine *)

Refused(c) == gui.updating \/ (c \in {"TS", "FU"} /\ Busy)
Order(c, a) == IF Refused(c) THEN orders ELSE [orders EXCEPT ![<<c, a>>] = @ + 1]

(* A command of the user, or of the auto-poll. *)
OtherCommand(c, a) ==
  /\ gui.others < MaxOthers
  /\ gui' = [gui EXCEPT !.others = @ + 1]
  /\ orders' = Order(c, a)
  /\ UNCHANGED <<script, stop, toScript, toGui, own>>

UserCommand(c, a) == UserActs /\ OtherCommand(c, a)
OnAutoPollTimeout(a) == Serving /\ gui.timer /\ gui.poll /\ "TS" \in Commands /\ OtherCommand("TS", a)

StartAutoPoll ==
  /\ UserActs /\ ~gui.updating
  /\ gui' = [gui EXCEPT !.poll = TRUE, !.timer = TRUE]
  /\ UNCHANGED <<script, stop, toScript, toGui, orders, own>>

StopAutoPoll ==
  /\ UserActs
  /\ gui' = [gui EXCEPT !.poll = FALSE, !.timer = FALSE]
  /\ UNCHANGED <<script, stop, toScript, toGui, orders, own>>

(* Mutant: a completion is reported for a command that is not in flight.   *)
OnCommandCompletedTwice(c, a, ok) ==
  /\ Serving
  /\ orders' = [orders EXCEPT ![<<c, a>>] = @ - 1]
  /\ own' = (own \/ (c = script.cmd /\ a = script.addr /\ ok))
  /\ UNCHANGED <<gui, script, stop, toScript, toGui>>

(* The command engine's completion reaches the controller, which runs the  *)
(* handler of the wait at once.  A loop that has not started yet is not    *)
(* there to be quit.  The completion of an FU command is not forwarded.    *)
OnCommandCompleted(c, a, ok) ==
  /\ Serving /\ orders[<<c, a>>] > 0
  /\ orders' = [orders EXCEPT ![<<c, a>>] = @ - 1]
  /\ IF script.conn /\ script.cmd = c /\ c # "FU"
     THEN /\ script' = [script EXCEPT !.success = ok, !.pc = IF @ = "wait" THEN "unlaunch" ELSE @]
          /\ IF script.pc = "wait" THEN PostToGui("unlaunch") ELSE UNCHANGED toGui
     ELSE UNCHANGED <<script, toGui>>
  /\ own' = (own \/ (c = script.cmd /\ a = script.addr /\ ok))
  /\ UNCHANGED <<gui, stop, toScript>>

-----------------------------------------------------------------------------
(* Loading, running, stopping: the clicks of the user *)

StopEngine == stop' = [stop EXCEPT ![gui.engine] = TRUE]

(* The end of loadScenario: the old engine is deleted in its own thread    *)
(* when that comes to it, and the GUI waits for the new one to load.       *)
Replace(g, f) ==
  /\ gui' = [g EXCEPT !.engine = f, !.file = f, !.blocked = TRUE]
  /\ PostToScript((IF g.engine = NoEngine THEN <<>> ELSE <<[op |-> "deleteLater", engine |-> g.engine]>>)
                  \o <<[op |-> "load", engine |-> f]>>)

(* Mutant: a load does not ask whether a script runs.                      *)
LoadScenarioAtOnce ==
  /\ UserActs /\ ~gui.updating /\ gui.loads < MaxLoads
  /\ Replace([gui EXCEPT !.loads = @ + 1], gui.loads + 1)
  /\ UNCHANGED <<script, stop, toGui, orders, own>>

LoadScenario ==
  /\ UserActs /\ ~gui.updating /\ gui.loads < MaxLoads
  /\ LET f == gui.loads + 1
         g == [gui EXCEPT !.loads = f]
     IN  \/ /\ gui.running
            /\ StopEngine
            /\ gui' = [g EXCEPT !.frames = Append(@, [load |-> f, quit |-> FALSE, finished |-> FALSE])]
            /\ UNCHANGED toScript
         \/ ~gui.running /\ Replace(g, f) /\ UNCHANGED stop
  /\ UNCHANGED <<script, toGui, orders, own>>

(* Mutant: a load waits for as long as the script runs.                    *)
FrameTimeoutOnceStopped == ~gui.running /\ \E i \in DOMAIN gui.frames :
  /\ gui' = [gui EXCEPT !.frames[i].quit = TRUE]
  /\ UNCHANGED <<script, stop, toScript, toGui, orders, own>>

(* The three seconds a load waits, whatever is nested inside it. *)
FrameTimeout ==
  /\ Serving
  /\ \E i \in DOMAIN gui.frames :
       /\ ~gui.frames[i].quit
       /\ gui' = [gui EXCEPT !.frames[i].quit = TRUE]
  /\ UNCHANGED <<script, stop, toScript, toGui, orders, own>>

TopFrame == gui.frames[Len(gui.frames)]
PopFrame == [gui EXCEPT !.frames = SubSeq(@, 1, Len(@) - 1)]

(* Mutant: a load that has waited in vain replaces the engine all the same. *)
FrameReturnsAnyway ==
  /\ Serving /\ gui.frames # <<>> /\ TopFrame.quit
  /\ Replace(PopFrame, TopFrame.load)
  /\ UNCHANGED <<script, stop, toGui, orders, own>>

(* The innermost load returns from its event loop. *)
FrameReturns ==
  /\ Serving /\ gui.frames # <<>> /\ TopFrame.quit
  /\ \/ /\ ~TopFrame.finished /\ gui.running
        /\ gui' = PopFrame /\ UNCHANGED toScript
     \/ /\ TopFrame.finished \/ ~gui.running
        /\ Replace(PopFrame, TopFrame.load)
  /\ UNCHANGED <<script, stop, toGui, orders, own>>

RunScenario ==
  /\ UserActs /\ gui.runs < MaxRuns
  /\ ~gui.updating /\ gui.file # NoEngine /\ ~gui.running
  /\ gui' = [gui EXCEPT !.running = TRUE, !.runs = @ + 1]
  /\ PostToScript(<<[op |-> "execute", engine |-> gui.engine]>>)
  /\ UNCHANGED <<script, stop, toGui, orders, own>>

(* Mutant: the flag falls with the click and not with the script's end.    *)
StopScenarioClearsFlag ==
  /\ UserActs /\ gui.engine # NoEngine /\ gui.running
  /\ StopEngine
  /\ gui' = [gui EXCEPT !.running = FALSE]
  /\ UNCHANGED <<script, toScript, toGui, orders, own>>

StopScenario ==
  /\ UserActs /\ gui.engine # NoEngine /\ gui.running
  /\ StopEngine
  /\ UNCHANGED <<gui, script, toScript, toGui, orders, own>>

(* Mutant: a running scenario does not keep an update from starting.       *)
UpdateFirmwareBesideScript ==
  /\ UserActs /\ gui.updates < MaxUpdates
  /\ ~gui.updating /\ ~Busy
  /\ gui' = [gui EXCEPT !.updating = TRUE, !.updates = @ + 1, !.resume = gui.timer, !.timer = FALSE]
  /\ UNCHANGED <<script, stop, toScript, toGui, orders, own>>

UpdateFirmware ==
  /\ UserActs /\ gui.updates < MaxUpdates
  /\ ~gui.updating /\ ~gui.running /\ ~Busy
  /\ gui' = [gui EXCEPT !.updating = TRUE, !.updates = @ + 1, !.resume = gui.timer, !.timer = FALSE]
  /\ UNCHANGED <<script, stop, toScript, toGui, orders, own>>

(* Mutant: the guard of the update leaves the timer stopped.               *)
UpdateEndsTimerStopped ==
  /\ Serving /\ gui.updating
  /\ gui' = [gui EXCEPT !.updating = FALSE]
  /\ UNCHANGED <<script, stop, toScript, toGui, orders, own>>

UpdateEnds ==
  /\ Serving /\ gui.updating
  /\ gui' = [gui EXCEPT !.updating = FALSE, !.timer = @ \/ gui.resume]
  /\ UNCHANGED <<script, stop, toScript, toGui, orders, own>>

(* The destructor: it stops the script, serves the event loop until the    *)
(* script has finished, and deletes the engine in the script thread.       *)
Close ==
  /\ UserActs /\ gui.frames = <<>> /\ ~gui.updating
  /\ IF gui.engine = NoEngine THEN UNCHANGED stop ELSE StopEngine
  /\ gui' = [gui EXCEPT !.closing = IF gui.engine = NoEngine THEN "closed" ELSE "waiting", !.timer = FALSE]
  /\ UNCHANGED <<script, toScript, toGui, orders, own>>

CloseDeletes ==
  /\ Serving /\ gui.closing = "waiting" /\ ~gui.running
  /\ gui' = [gui EXCEPT !.closing = "deleting", !.blocked = TRUE]
  /\ PostToScript(<<[op |-> "delete", engine |-> gui.engine]>>)
  /\ UNCHANGED <<script, stop, toGui, orders, own>>

-----------------------------------------------------------------------------
(* What scripts post to the controller *)

Take(what) ==
  /\ Serving /\ toGui # <<>> /\ Head(toGui).what = what
  /\ toGui' = Tail(toGui)

(* finished: the flag falls, and every waiting load is told.  In the code   *)
(* these are events of their own, one for each handler, that one emit posts *)
(* one after the other to the controller's thread, which serves posted      *)
(* events before input: no click is assumed to come between them.           *)
OnFinished ==
  /\ Take("finished")
  /\ gui' = IF Head(toGui).engine # gui.engine THEN gui
            ELSE [gui EXCEPT !.running = FALSE,
                             !.frames = [i \in DOMAIN @ |-> [@[i] EXCEPT !.quit = TRUE, !.finished = TRUE]]]
  /\ UNCHANGED <<script, stop, toScript, orders, own>>

(* A call that needs no answer of a PPB: the generator, the analyzer. *)
ServeCall ==
  /\ Take("call")
  /\ script' = [script EXCEPT !.pc = "main"]
  /\ UNCHANGED <<gui, stop, toScript, orders, own>>

(* The handler is connected, then the command is ordered. *)
ServeLaunch ==
  /\ Take("launch")
  /\ script' = [script EXCEPT !.pc = "armed", !.conn = TRUE]
  /\ orders' = Order(script.cmd, script.addr)
  /\ own' = FALSE
  /\ UNCHANGED <<gui, stop, toScript>>

(* Mutant: the script does not wait until its handler is disconnected.     *)
ServeUnlaunchUnawaited ==
  /\ Take("unlaunch")
  /\ script' = [script EXCEPT !.pc = "main",
                  !.result = script.success /\ ~script.timeout /\ ~stop[script.engine]]
  /\ UNCHANGED <<gui, stop, toScript, orders, own>>

(* The handler is disconnected; the wait returns. *)
ServeUnlaunch ==
  /\ Take("unlaunch")
  /\ script' = [script EXCEPT !.pc = "main", !.conn = FALSE,
                  !.result = script.success /\ ~script.timeout /\ ~stop[script.engine]]
  /\ UNCHANGED <<gui, stop, toScript, orders, own>>

-----------------------------------------------------------------------------
(* The script thread *)

Execute(e) ==
  /\ stop' = [stop EXCEPT ![e] = FALSE]
  /\ script' = [script EXCEPT !.pc = "main", !.engine = e]
  /\ UNCHANGED gui

(* The event loop of the thread takes what has been posted. *)
ScriptThreadServes ==
  /\ script.pc = "idle" /\ toScript # <<>>
  /\ toScript' = Tail(toScript)
  /\ LET w == Head(toScript)
     IN  \/ w.op = "execute" /\ Execute(w.engine)
         \/ /\ w.op = "load"
            /\ script' = [script EXCEPT !.pc = "load", !.engine = w.engine]
            /\ UNCHANGED <<gui, stop>>
         \/ /\ w.op = "deleteLater"
            /\ UNCHANGED <<gui, script, stop>>
         \/ /\ w.op = "delete"
            /\ gui' = [gui EXCEPT !.blocked = FALSE, !.closing = "closed"]
            /\ UNCHANGED <<script, stop>>
  /\ UNCHANGED <<toGui, orders, own>>

(* loadScript returns; a file without main, or with an error, is no file. *)
LoadScript(loaded) ==
  /\ script.pc = "load"
  /\ script' = [script EXCEPT !.pc = "idle"]
  /\ gui' = [gui EXCEPT !.blocked = FALSE, !.file = IF loaded THEN @ ELSE NoEngine]
  /\ UNCHANGED <<stop, toScript, toGui, orders, own>>

(* main returns, or raises an error. *)
MainEnds ==
  /\ script.pc = "main"
  /\ script' = [script EXCEPT !.pc = "idle"]
  /\ PostToGui("finished")
  /\ UNCHANGED <<gui, stop, toScript, orders, own>>

(* Mutant: without the hook only the calls of the API look at the flag.    *)
HookStopsNothing == MainEnds /\ stop[script.engine] /\ script.cmd # "none"

(* The hook on Lua's instructions raises an error once stop is requested. *)
HookStops == MainEnds /\ stop[script.engine]

CallController ==
  /\ script.pc = "main"
  /\ script' = [script EXCEPT !.pc = "call"] /\ PostToGui("call")
  /\ UNCHANGED <<gui, stop, toScript, orders, own>>

(* waitForCommand, waitForFUCommand.  Once stop is requested they return   *)
(* false and do nothing.                                                   *)
WaitForCommand(c, a) ==
  /\ script.pc = "main" /\ ~stop[script.engine] /\ orders[<<c, a>>] < MaxOrders
  /\ script' = [script EXCEPT !.pc = "launch", !.cmd = c, !.addr = a, !.success = FALSE, !.timeout = FALSE]
  /\ PostToGui("launch")
  /\ UNCHANGED <<gui, stop, toScript, orders, own>>

StartLoop ==
  /\ script.pc = "armed"
  /\ script' = [script EXCEPT !.pc = "wait"]
  /\ UNCHANGED <<gui, stop, toScript, toGui, orders, own>>

(* The timer of the wait ends its loop, or the poll of the stop flag does. *)
LeaveLoop(timeout) ==
  /\ script.pc = "wait"
  /\ script' = [script EXCEPT !.pc = "unlaunch", !.timeout = timeout]
  /\ PostToGui("unlaunch")
  /\ UNCHANGED <<gui, stop, toScript, orders, own>>

(* Mutant: the timer is started for TU commands only.                      *)
WaitTimeoutOfTU == script.cmd # "FU" /\ LeaveLoop(TRUE)

WaitTimeout == LeaveLoop(TRUE)
StopPoll == LeaveLoop(FALSE) /\ stop[script.engine]

-----------------------------------------------------------------------------
ScenarioInit ==
  /\ gui = [frames |-> <<>>, blocked |-> FALSE, running |-> FALSE, engine |-> NoEngine, file |-> NoEngine,
            updating |-> FALSE, poll |-> FALSE, timer |-> FALSE, resume |-> FALSE, closing |-> "no",
            loads |-> 0, runs |-> 0, updates |-> 0, others |-> 0]
  /\ script = [pc |-> "idle", engine |-> NoEngine, cmd |-> "none", addr |-> CHOOSE a \in Addr : TRUE,
               conn |-> FALSE, success |-> FALSE, timeout |-> FALSE, result |-> FALSE]
  /\ stop = [e \in Engines |-> FALSE]
  /\ toScript = <<>> /\ toGui = <<>>
  /\ orders = [o \in Commands \X Addr |-> 0]
  /\ own = FALSE

ScenarioNext ==
  \/ \E c \in Commands, a \in Addr :
       UserCommand(c, a) \/ WaitForCommand(c, a) \/ \E ok \in BOOLEAN : OnCommandCompleted(c, a, ok)
  \/ \E a \in Addr : OnAutoPollTimeout(a)
  \/ StartAutoPoll \/ StopAutoPoll
  \/ LoadScenario \/ RunScenario \/ StopScenario \/ UpdateFirmware \/ UpdateEnds \/ Close \/ CloseDeletes
  \/ FrameTimeout \/ FrameReturns
  \/ OnFinished \/ ServeCall \/ ServeLaunch \/ ServeUnlaunch
  \/ ScriptThreadServes
  \/ \E loaded \in BOOLEAN : LoadScript(loaded)
  \/ MainEnds \/ HookStops \/ CallController \/ StartLoop \/ WaitTimeout \/ StopPoll

ScenarioSpec == ScenarioInit /\ [][ScenarioNext]_scVars

(* The event loops and the timers; a file's top level ends.  A script      *)
(* itself need not end, and the command engine need not answer.            *)
ScenarioFairness ==
  /\ WF_scVars(ScriptThreadServes) /\ WF_scVars(\E loaded \in BOOLEAN : LoadScript(loaded))
  /\ WF_scVars(OnFinished) /\ WF_scVars(ServeCall) /\ WF_scVars(ServeLaunch) /\ WF_scVars(ServeUnlaunch)
  /\ WF_scVars(FrameTimeout) /\ WF_scVars(FrameReturns) /\ WF_scVars(CloseDeletes)
  /\ SF_scVars(HookStops) /\ WF_scVars(StartLoop) /\ WF_scVars(WaitTimeout)

FairScenarioSpec == ScenarioSpec /\ ScenarioFairness

-----------------------------------------------------------------------------
ScenarioTypeOK ==
  /\ gui \in Gui /\ script \in Script
  /\ stop \in [Engines -> BOOLEAN]
  /\ toScript \in Seq(Work) /\ toGui \in Seq(Posted)
  /\ orders \in [Commands \X Addr -> Nat] /\ own \in BOOLEAN

(* While Lua runs, its engine is neither deleted nor replaced, and nothing *)
(* is posted to its thread that a nested event loop would run in the       *)
(* middle of the script (loadScenario, runScenario, the destructor).       *)
EngineOutlivesScript ==
  script.pc # "idle" => toScript = <<>> /\ script.engine = gui.engine

(* m_scenarioRunning is exactly "execute is posted, under way, or its end  *)
(* not yet heard": it neither falls early nor sticks, through stops, loads *)
(* inside loads and waits that time out.                                   *)
RunningFlagIsExact ==
  gui.running <=>
    \/ Executing
    \/ \E i \in DOMAIN toScript : toScript[i].op = "execute"
    \/ \E i \in DOMAIN toGui : toGui[i].what = "finished"

(* A firmware update and a script exclude each other. *)
UpdateExcludesScript ==
  gui.updating => ~Executing /\ \A i \in DOMAIN toScript : toScript[i].op # "execute"

(* The handler of a wait runs only while the variables it writes exist:    *)
(* it is connected from the launch to a disconnect the script waits for.   *)
HandlerInsideWait == script.conn => script.pc \in {"armed", "wait", "unlaunch"}

(* What executes is the file whose name the controller holds, also when    *)
(* loads are nested and the last one to return is not the last one made.   *)
RunsWhatIsLoaded == Executing => gui.file = script.engine

(* An auto-poll the user has asked for goes on after an update, and one    *)
(* the user has stopped during the update does not send anything.          *)
PollSurvivesUpdate == gui.poll /\ ~gui.updating /\ gui.closing = "no" => gui.timer

(* A script that has been told to stop ends, in whatever call it is, and   *)
(* also if it never makes one.                                             *)
StopEndsScript == \A e \in Engines : Executing /\ script.engine = e /\ stop[e] ~> ~Executing

(* Every load gives the user interface back, also when the script ignores  *)
(* its stop because it had not begun when it was told.                     *)
LoadReturns == gui.frames # <<>> \/ gui.blocked ~> gui.frames = <<>> /\ ~gui.blocked

(* A wait returns although its command is refused, its answer comes before *)
(* the loop starts, or no answer comes.                                    *)
WaitEnds == script.pc \in Calling ~> script.pc \notin Calling

-----------------------------------------------------------------------------
(* What the documentation says, and the code does not do *)

(* "requestStatus(addr): true - success": a wait returns true only if the  *)
(* command it has ordered, to the PPB it names, has succeeded.             *)
WaitTrueIsOwn ==
  [][script.pc = "unlaunch" /\ script'.pc = "main" /\ script'.result => own]_scVars

(* "The Lua instruction hook plus wrapper stop polling make the normal     *)
(* path bounded": the destructor returns.  It asks the script to stop, but *)
(* a script that has not begun by then clears the request and runs on.     *)
CloseEnds == gui.closing # "no" ~> gui.closing = "closed"
=============================================================================
