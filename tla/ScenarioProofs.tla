--------------------------- MODULE ScenarioProofs ---------------------------
(***************************************************************************)
(* The invariants of Scenario, for every set of PPBs and every bound.      *)
(*                                                                         *)
(* The two threads hand each other the turn: at any moment they are in one *)
(* of seven modes, and each action either stays in its mode or goes to one *)
(* other.  The mode says what is posted to either thread, and this is what *)
(* makes the invariants inductive.                                         *)
(***************************************************************************)
EXTENDS Scenario, SequenceTheorems, TLAPS

Execution(e) == [op |-> "execute", engine |-> e]
Loading(e)   == [op |-> "load", engine |-> e]
Deletion(op, e) == [op |-> op, engine |-> e]

(* Nothing runs and nothing is posted. *)
Rest ==
  /\ script.pc = "idle" /\ toScript = <<>> /\ toGui = <<>>
  /\ ~gui.running /\ ~gui.blocked

(* runScenario has posted execute. *)
Called ==
  /\ script.pc = "idle" /\ toScript = <<Execution(gui.engine)>> /\ toGui = <<>>
  /\ gui.running /\ ~gui.blocked /\ gui.file = gui.engine /\ gui.engine # NoEngine

(* What the script waits for is posted, and nothing else is. *)
Asked ==
  toGui = IF script.pc \in {"call", "launch", "unlaunch"}
          THEN <<[what |-> script.pc, engine |-> script.engine]>> ELSE <<>>

(* The script runs. *)
Runs ==
  /\ Executing /\ script.engine = gui.engine /\ gui.file = gui.engine /\ gui.engine # NoEngine
  /\ toScript = <<>> /\ Asked
  /\ gui.running /\ ~gui.blocked

(* Its end is posted. *)
Ended ==
  /\ script.pc = "idle" /\ toScript = <<>>
  /\ toGui = <<[what |-> "finished", engine |-> gui.engine]>>
  /\ gui.running /\ ~gui.blocked /\ gui.engine # NoEngine

(* A load is posted, and the old engine's deletion before it. *)
Replacing ==
  /\ script.pc = "idle" /\ toGui = <<>> /\ ~gui.running /\ gui.blocked /\ gui.engine # NoEngine
  /\ \/ toScript = <<Loading(gui.engine)>>
     \/ \E e \in Engines : toScript = <<Deletion("deleteLater", e), Loading(gui.engine)>>

(* The script thread loads. *)
Loads ==
  /\ script.pc = "load" /\ script.engine = gui.engine
  /\ toScript = <<>> /\ toGui = <<>> /\ ~gui.running /\ gui.blocked /\ gui.engine # NoEngine

(* The destructor waits until the engine is deleted. *)
Deletes ==
  /\ script.pc = "idle" /\ toScript = <<Deletion("delete", gui.engine)>> /\ toGui = <<>>
  /\ ~gui.running /\ gui.blocked /\ gui.engine # NoEngine

Modes == Rest \/ Called \/ Runs \/ Ended \/ Replacing \/ Loads \/ Deletes

FileIsLoaded == gui.file \in {NoEngine, gui.engine}

(* A load is told of an end only when there is one. *)
FramesAreTold ==
  \A i \in DOMAIN gui.frames : gui.frames[i].finished => gui.frames[i].quit /\ ~gui.running

UpdateIsAlone == gui.updating => ~gui.running

(* While an update runs, its guard knows whether to start the timer. *)
PollIsKept ==
  gui.poll /\ gui.closing = "no" => gui.timer \/ (gui.updating /\ gui.resume)

(* The destructor waits only if there is an engine to delete. *)
EngineToDelete == gui.closing = "waiting" => gui.engine # NoEngine

Others ==
  /\ FileIsLoaded /\ FramesAreTold /\ UpdateIsAlone /\ HandlerInsideWait /\ PollIsKept
  /\ EngineToDelete

Inv == ScenarioTypeOK /\ Modes /\ Others

-----------------------------------------------------------------------------
(* Two pieces of work posted one after the other.                         *)
LEMMA Pair ==
  ASSUME NEW x, NEW y
  PROVE  <<x>> \o <<y>> = <<x, y>>
<1> DEFINE S == {x, y}
<1>1. /\ <<x>> \in Seq(S) /\ <<y>> \in Seq(S) /\ <<x, y>> \in Seq(S)
      /\ Len(<<x>>) = 1 /\ Len(<<y>>) = 1 /\ Len(<<x, y>>) = 2
      /\ <<x>>[1] = x /\ <<y>>[1] = y /\ <<x, y>>[1] = x /\ <<x, y>>[2] = y
  OBVIOUS
<1> HIDE DEF S
<1>2. /\ <<x>> \o <<y>> \in Seq(S) /\ Len(<<x>> \o <<y>>) = 2
      /\ \A i \in 1 .. 2 : (<<x>> \o <<y>>)[i] = IF i <= 1 THEN <<x>>[i] ELSE <<y>>[i - 1]
  BY <1>1, ConcatProperties
<1>3. \A i \in 1 .. 2 : (<<x>> \o <<y>>)[i] = <<x, y>>[i]
  <2>1. \A i \in 1 .. 2 : i = 1 \/ (i = 2 /\ i - 1 = 1 /\ ~(i <= 1))
    OBVIOUS
  <2> QED BY <1>1, <1>2, <2>1
<1> QED BY <1>1, <1>2, <1>3, SeqEqual

(* Sequences of one or two elements, posted and taken.                     *)
LEMMA ShortSequences ==
  \A x, y : /\ Append(<<>>, x) = <<x>> /\ <<>> \o <<x>> = <<x>> /\ <<x>> \o <<y>> = <<x, y>>
            /\ <<x>> # <<>> /\ Head(<<x>>) = x /\ Tail(<<x>>) = <<>>
            /\ <<x, y>> # <<>> /\ Head(<<x, y>>) = x /\ Tail(<<x, y>>) = <<y>>
<1>1. \A x : Append(<<>>, x) = <<x>> /\ <<>> \o <<x>> = <<x>>
  OBVIOUS
<1>2. \A x : <<x>> # <<>> /\ Head(<<x>>) = x /\ Tail(<<x>>) = <<>>
  OBVIOUS
<1>3. \A x, y : <<x, y>> # <<>> /\ Head(<<x, y>>) = x
  OBVIOUS
<1>4. \A x, y : Tail(<<x, y>>) = <<y>>
  OBVIOUS
<1> QED BY <1>1, <1>2, <1>3, <1>4, Pair

(* A load that waits is added behind the others. *)
LEMMA FrameAdded ==
  ASSUME NEW s \in Seq(Frame), NEW f \in Frame
  PROVE  /\ Append(s, f) \in Seq(Frame)
         /\ \A i \in DOMAIN Append(s, f) : Append(s, f)[i] = f \/ (i \in DOMAIN s /\ Append(s, f)[i] = s[i])
<1>1. /\ Append(s, f) \in Seq(Frame) /\ Len(Append(s, f)) = Len(s) + 1 /\ Len(s) \in Nat
      /\ \A i \in 1 .. Len(s) : Append(s, f)[i] = s[i]
      /\ Append(s, f)[Len(s) + 1] = f
  BY AppendProperties, LenProperties
<1>2. DOMAIN s = 1 .. Len(s) /\ DOMAIN Append(s, f) = 1 .. Len(s) + 1
  BY <1>1, LenProperties
<1> QED BY <1>1, <1>2

(* One that is told to quit is otherwise as it was. *)
LEMMA FrameToldToQuit ==
  ASSUME NEW s \in Seq(Frame), NEW i \in DOMAIN s
  PROVE  LET t == [s EXCEPT ![i].quit = TRUE]
         IN  /\ t \in Seq(Frame) /\ DOMAIN t = DOMAIN s
             /\ \A j \in DOMAIN t : t[j].finished = s[j].finished /\ (s[j].quit => t[j].quit)
<1> DEFINE f == [s[i] EXCEPT !.quit = TRUE]
           t == [s EXCEPT ![i].quit = TRUE]
<1>1. DOMAIN s = 1 .. Len(s) /\ \A j \in DOMAIN s : s[j] \in Frame
  BY LenProperties
<1>2. f \in Frame /\ f.finished = s[i].finished /\ f.quit
  BY <1>1 DEF Frame
<1>3. t = [s EXCEPT ![i] = f]
  OBVIOUS
<1> HIDE DEF f, t
<1>4. /\ [s EXCEPT ![i] = f] \in Seq(Frame) /\ Len([s EXCEPT ![i] = f]) = Len(s)
      /\ \A j \in 1 .. Len(s) : [s EXCEPT ![i] = f][j] = IF j = i THEN f ELSE s[j]
  BY <1>1, <1>2, ExceptSeq
<1>5. DOMAIN t = 1 .. Len(s)
  BY <1>3, <1>4, LenProperties
<1>6. t \in Seq(Frame) /\ DOMAIN t = DOMAIN s
      /\ \A j \in DOMAIN t : t[j].finished = s[j].finished /\ (s[j].quit => t[j].quit)
  BY <1>1, <1>2, <1>3, <1>4, <1>5
<1> QED BY <1>6 DEF t

(* All are told of the end of the script. *)
LEMMA FramesToldOfEnd ==
  ASSUME NEW s \in Seq(Frame)
  PROVE  LET t == [i \in DOMAIN s |-> [s[i] EXCEPT !.quit = TRUE, !.finished = TRUE]]
         IN  t \in Seq(Frame) /\ DOMAIN t = DOMAIN s /\ \A j \in DOMAIN t : t[j].quit
<1> DEFINE t == [i \in DOMAIN s |-> [s[i] EXCEPT !.quit = TRUE, !.finished = TRUE]]
<1>1. Len(s) \in Nat /\ DOMAIN s = 1 .. Len(s) /\ \A j \in DOMAIN s : s[j] \in Frame
  BY LenProperties
<1>2. \A f \in Frame : /\ [f EXCEPT !.quit = TRUE, !.finished = TRUE] \in Frame
                      /\ [f EXCEPT !.quit = TRUE, !.finished = TRUE].quit
  BY DEF Frame
<1>3. t \in [1 .. Len(s) -> Frame] /\ \A j \in DOMAIN t : t[j].quit
  BY <1>1, <1>2
<1> HIDE DEF t
<1>4. t \in Seq(Frame)
  BY <1>1, <1>3
<1>5. DOMAIN t = DOMAIN s
  BY <1>1, <1>3
<1> QED BY <1>3, <1>4, <1>5 DEF t

(* The innermost returns, and those that are left are as they were. *)
LEMMA FrameReturned ==
  ASSUME NEW s \in Seq(Frame), s # <<>>
  PROVE  LET t == SubSeq(s, 1, Len(s) - 1)
         IN  /\ t \in Seq(Frame) /\ \A j \in DOMAIN t : j \in DOMAIN s /\ t[j] = s[j]
             /\ s[Len(s)] \in Frame /\ Len(s) \in DOMAIN s
<1> DEFINE t == SubSeq(s, 1, Len(s) - 1)
<1>1. Len(s) \in Nat \ {0} /\ DOMAIN s = 1 .. Len(s) /\ \A j \in 1 .. Len(s) : s[j] \in Frame
  BY LenProperties, EmptySeq
<1>2. \A j \in 1 .. Len(s) - 1 : s[j] \in Frame
  BY <1>1
<1>3. 1 \in Int /\ Len(s) - 1 \in Int
  BY <1>1
<1>4. /\ t \in Seq(Frame)
      /\ Len(t) = IF 1 <= Len(s) - 1 THEN (Len(s) - 1) - 1 + 1 ELSE 0
      /\ \A j \in 1 .. (Len(s) - 1) - 1 + 1 : t[j] = s[1 + j - 1]
  BY <1>2, <1>3, SubSeqProperties
<1> HIDE DEF t
<1>5. Len(t) = Len(s) - 1
  <2>1. \A n \in Nat \ {0} : (IF 1 <= n - 1 THEN (n - 1) - 1 + 1 ELSE 0) = n - 1
    OBVIOUS
  <2> QED BY <1>1, <1>4, <2>1
<1>6. DOMAIN t = 1 .. Len(s) - 1
  BY <1>4, <1>5, LenProperties
<1>7. \A j \in 1 .. Len(s) - 1 : /\ j \in 1 .. Len(s) /\ j \in 1 .. (Len(s) - 1) - 1 + 1
                               /\ 1 + j - 1 = j
  BY <1>1
<1>8. \A j \in DOMAIN t : j \in DOMAIN s /\ t[j] = s[j]
  BY <1>1, <1>4, <1>6, <1>7
<1>9. s[Len(s)] \in Frame /\ Len(s) \in DOMAIN s
  BY <1>1
<1> QED BY <1>4, <1>8, <1>9 DEF t

(* What is posted in a mode has its type. *)
LEMMA PostedTypes ==
  Modes' /\ gui' \in Gui /\ script' \in Script => toScript' \in Seq(Work) /\ toGui' \in Seq(Posted)
<1> SUFFICES ASSUME Modes', gui' \in Gui, script' \in Script
             PROVE  toScript' \in Seq(Work) /\ toGui' \in Seq(Posted)
  OBVIOUS
<1>1. \A w \in Work : <<w>> \in Seq(Work) /\ \A v \in Work : <<v, w>> \in Seq(Work)
  OBVIOUS
<1>2. \A p \in Posted : <<p>> \in Seq(Posted)
  OBVIOUS
<1>3. <<>> \in Seq(Work) /\ <<>> \in Seq(Posted)
  OBVIOUS
<1>4. gui'.engine \in {NoEngine} \cup Engines
  BY DEF Gui
<1>5. \A e \in Engines : /\ [op |-> "execute", engine |-> e] \in Work
                        /\ [op |-> "load", engine |-> e] \in Work
                        /\ [op |-> "deleteLater", engine |-> e] \in Work
                        /\ [op |-> "delete", engine |-> e] \in Work
  BY DEF Work
<1>6. \A e \in Engines : /\ [what |-> "finished", engine |-> e] \in Posted
                        /\ [what |-> "call", engine |-> e] \in Posted
                        /\ [what |-> "launch", engine |-> e] \in Posted
                        /\ [what |-> "unlaunch", engine |-> e] \in Posted
  BY DEF Posted
<1> QED
  BY <1>1, <1>2, <1>3, <1>4, <1>5, <1>6 DEF Modes, Rest, Called, Runs, Asked, Ended, Replacing,
     Loads, Deletes, Execution, Loading, Deletion, Executing, Calling

(* A load that begins posts its file behind the deletion of the old engine. *)
LEMMA Replaced ==
  ASSUME NEW g \in Gui, NEW f \in Engines, g.engine \in {NoEngine} \cup Engines, f # NoEngine, ~g.running,
         toScript = <<>>, toGui' = <<>>, script'.pc = "idle", Replace(g, f)
  PROVE  Modes'
<1>1. gui'.engine = f /\ gui'.blocked /\ ~gui'.running
  BY DEF Replace, Gui
<1>2. CASE g.engine = NoEngine
  <2>1. toScript' = <<Loading(f)>>
    BY <1>2, ShortSequences DEF Replace, PostToScript, Loading
  <2> QED BY <1>1, <2>1 DEF Modes, Replacing
<1>3. CASE g.engine # NoEngine
  <2>1. toScript' = <<Deletion("deleteLater", g.engine), Loading(f)>>
    BY <1>3, ShortSequences DEF Replace, PostToScript, Loading, Deletion
  <2> QED BY <1>1, <1>3, <2>1 DEF Modes, Replacing
<1> QED BY <1>2, <1>3

(* What the controller takes was posted by the script that runs, which      *)
(* waits for it, or has ended.                                             *)
LEMMA Taken ==
  ASSUME Modes, NEW what \in {"finished", "call", "launch", "unlaunch"}, Take(what)
  PROVE  /\ toGui' = <<>>
         /\ IF what = "finished" THEN Ended /\ Head(toGui).engine = gui.engine
                                 ELSE Runs /\ script.pc = what
<1>1. \A p : Head(<<p>>) = p /\ Tail(<<p>>) = <<>>
  OBVIOUS
<1>2. toGui # <<>> /\ Head(toGui).what = what /\ toGui' = Tail(toGui)
  BY DEF Take
<1>3. CASE Ended
  BY <1>1, <1>2, <1>3 DEF Ended
<1>4. CASE Runs
  <2>1. toGui = <<[what |-> script.pc, engine |-> script.engine]>>
    BY <1>2, <1>4 DEF Runs, Asked
  <2> QED BY <1>1, <1>2, <1>4, <2>1 DEF Runs, Asked
<1>5. Ended \/ Runs
  BY <1>2 DEF Modes, Rest, Called, Replacing, Loads, Deletes
<1> QED BY <1>3, <1>4, <1>5

(* Every action keeps the mode or changes it to one other.                *)
LEMMA StepInv == Inv /\ [ScenarioNext]_scVars => Inv'
<1> SUFFICES ASSUME Inv, [ScenarioNext]_scVars PROVE Inv'
  OBVIOUS
<1> USE DEF Inv
<1>1. ASSUME NEW c \in Commands, NEW a \in Addr, UserCommand(c, a) PROVE Inv'
  <2>1. gui' \in Gui
    <3>1. gui.others + 1 \in Nat /\ gui \in Gui
      BY DEF ScenarioTypeOK, Gui
    <3> QED BY <1>1, <3>1 DEF Gui, UserCommand, OtherCommand
  <2>2. script' \in Script
    BY <1>1 DEF ScenarioTypeOK, UserCommand, OtherCommand
  <2>3. stop' \in [Engines -> BOOLEAN] /\ orders' \in [Commands \X Addr -> Nat] /\ own' \in BOOLEAN
    BY <1>1 DEF ScenarioTypeOK, UserCommand, OtherCommand, Order
  <2>4. Modes'
    BY <1>1 DEF Modes, Rest, Called, Runs, Asked, Ended, Replacing, Loads, Deletes, Executing,
       UserCommand, OtherCommand
  <2>5. Others'
    BY <1>1 DEF Others, FileIsLoaded, FramesAreTold, UpdateIsAlone, HandlerInsideWait, PollIsKept,
       EngineToDelete, UserCommand, OtherCommand
  <2> QED BY <2>1, <2>2, <2>3, <2>4, <2>5, PostedTypes DEF ScenarioTypeOK
<1>2. ASSUME NEW a \in Addr, OnAutoPollTimeout(a) PROVE Inv'
  <2>1. gui' \in Gui
    <3>1. gui.others + 1 \in Nat /\ gui \in Gui
      BY DEF ScenarioTypeOK, Gui
    <3> QED BY <1>2, <3>1 DEF Gui, OnAutoPollTimeout, OtherCommand
  <2>2. script' \in Script
    BY <1>2 DEF ScenarioTypeOK, OnAutoPollTimeout, OtherCommand
  <2>3. stop' \in [Engines -> BOOLEAN] /\ orders' \in [Commands \X Addr -> Nat] /\ own' \in BOOLEAN
    BY <1>2 DEF ScenarioTypeOK, OnAutoPollTimeout, OtherCommand, Order
  <2>4. Modes'
    BY <1>2 DEF Modes, Rest, Called, Runs, Asked, Ended, Replacing, Loads, Deletes, Executing,
       OnAutoPollTimeout, OtherCommand
  <2>5. Others'
    BY <1>2 DEF Others, FileIsLoaded, FramesAreTold, UpdateIsAlone, HandlerInsideWait, PollIsKept,
       EngineToDelete, OnAutoPollTimeout, OtherCommand
  <2> QED BY <2>1, <2>2, <2>3, <2>4, <2>5, PostedTypes DEF ScenarioTypeOK
<1>3. ASSUME NEW c \in Commands, NEW a \in Addr, NEW ok \in BOOLEAN, OnCommandCompleted(c, a, ok) PROVE Inv'
  <2>1. gui' \in Gui
    BY <1>3 DEF ScenarioTypeOK, OnCommandCompleted
  <2>2. script' \in Script
    <3>1. script \in Script /\ {script.pc, "unlaunch"} \subseteq {"idle", "load", "main"} \cup Calling
      BY DEF ScenarioTypeOK, Script, Calling
    <3>2. \/ script' = script
          \/ \E pc \in {script.pc, "unlaunch"} : script' = [script EXCEPT !.success = ok, !.pc = pc]
      BY <1>3 DEF OnCommandCompleted
    <3>3. \A pc \in {"idle", "load", "main"} \cup Calling : [script EXCEPT !.success = ok, !.pc = pc] \in Script
      BY <3>1 DEF Script
    <3> QED BY <3>1, <3>2, <3>3
  <2>3. stop' \in [Engines -> BOOLEAN] /\ orders' \in [Commands \X Addr -> Nat] /\ own' \in BOOLEAN
    BY <1>3 DEF ScenarioTypeOK, OnCommandCompleted
  <2>4. Modes'
    <3>1. CASE script.pc = "wait" /\ toGui' = Append(toGui, [what |-> "unlaunch", engine |-> script.engine])
               /\ script'.pc = "unlaunch"
      <4>1. Runs /\ toGui = <<>>
        BY <3>1 DEF Modes, Rest, Called, Runs, Asked, Ended, Replacing, Loads, Deletes
      <4>2. script'.engine = script.engine /\ UNCHANGED <<gui, toScript>>
        BY <1>3 DEF ScenarioTypeOK, Script, OnCommandCompleted
      <4> QED BY <3>1, <4>1, <4>2, ShortSequences DEF Modes, Runs, Asked, Executing, Calling
    <3>2. CASE script'.pc = script.pc /\ toGui' = toGui
      <4>1. script'.engine = script.engine /\ UNCHANGED <<gui, toScript>>
        BY <1>3 DEF ScenarioTypeOK, Script, OnCommandCompleted
      <4> QED BY <3>2, <4>1 DEF Modes, Rest, Called, Runs, Asked, Ended, Replacing, Loads, Deletes,
                 Executing
    <3> QED BY <1>3, <3>1, <3>2 DEF ScenarioTypeOK, Script, OnCommandCompleted, PostToGui
  <2>5. Others'
    BY <1>3 DEF Others, FileIsLoaded, FramesAreTold, UpdateIsAlone, HandlerInsideWait, PollIsKept,
       EngineToDelete, ScenarioTypeOK, Script, OnCommandCompleted
  <2> QED BY <2>1, <2>2, <2>3, <2>4, <2>5, PostedTypes DEF ScenarioTypeOK
<1>4. ASSUME StartAutoPoll PROVE Inv'
  <2>1. gui' \in Gui
    BY <1>4 DEF ScenarioTypeOK, Gui, StartAutoPoll
  <2>2. script' \in Script
    BY <1>4 DEF ScenarioTypeOK, StartAutoPoll
  <2>3. stop' \in [Engines -> BOOLEAN] /\ orders' \in [Commands \X Addr -> Nat] /\ own' \in BOOLEAN
    BY <1>4 DEF ScenarioTypeOK, StartAutoPoll
  <2>4. Modes'
    BY <1>4 DEF Modes, Rest, Called, Runs, Asked, Ended, Replacing, Loads, Deletes, Executing,
       StartAutoPoll
  <2>5. Others'
    BY <1>4 DEF Others, FileIsLoaded, FramesAreTold, UpdateIsAlone, HandlerInsideWait, PollIsKept,
       EngineToDelete, StartAutoPoll
  <2> QED BY <2>1, <2>2, <2>3, <2>4, <2>5, PostedTypes DEF ScenarioTypeOK
<1>5. ASSUME StopAutoPoll PROVE Inv'
  <2>1. gui' \in Gui
    BY <1>5 DEF ScenarioTypeOK, Gui, StopAutoPoll
  <2>2. script' \in Script
    BY <1>5 DEF ScenarioTypeOK, StopAutoPoll
  <2>3. stop' \in [Engines -> BOOLEAN] /\ orders' \in [Commands \X Addr -> Nat] /\ own' \in BOOLEAN
    BY <1>5 DEF ScenarioTypeOK, StopAutoPoll
  <2>4. Modes'
    BY <1>5 DEF Modes, Rest, Called, Runs, Asked, Ended, Replacing, Loads, Deletes, Executing,
       StopAutoPoll
  <2>5. Others'
    BY <1>5 DEF Others, FileIsLoaded, FramesAreTold, UpdateIsAlone, HandlerInsideWait, PollIsKept,
       EngineToDelete, StopAutoPoll
  <2> QED BY <2>1, <2>2, <2>3, <2>4, <2>5, PostedTypes DEF ScenarioTypeOK
<1>6. ASSUME LoadScenario PROVE Inv'
  <2> DEFINE f == gui.loads + 1
             frame == [load |-> f, quit |-> FALSE, finished |-> FALSE]
             g == [gui EXCEPT !.loads = f]
  <2>1. f \in Nat /\ f \in Engines /\ f # NoEngine /\ gui \in Gui /\ gui.frames \in Seq(Frame)
    BY <1>6, ScenarioAssumption DEF ScenarioTypeOK, Gui, LoadScenario, Engines, NoEngine
  <2>2. frame \in Frame
    BY <2>1 DEF Frame
  <2>3. /\ Append(gui.frames, frame) \in Seq(Frame)
        /\ \A i \in DOMAIN Append(gui.frames, frame) :
             \/ Append(gui.frames, frame)[i] = frame
             \/ i \in DOMAIN gui.frames /\ Append(gui.frames, frame)[i] = gui.frames[i]
    BY <2>1, <2>2, FrameAdded
  <2>4. ~gui.blocked /\ ~gui.updating /\ UNCHANGED <<script, toGui>>
    BY <1>6 DEF LoadScenario, UserActs, Serving
  <2>5. \/ /\ gui.running /\ UNCHANGED toScript
           /\ gui' = [g EXCEPT !.frames = Append(gui.frames, frame)]
        \/ ~gui.running /\ Replace(g, f)
    BY <1>6, <2>1 DEF LoadScenario
  <2> HIDE DEF f, frame
  <2>6. gui' \in Gui
    <3>1. CASE gui' = [g EXCEPT !.frames = Append(gui.frames, frame)]
      BY <2>1, <2>3, <3>1 DEF Gui
    <3>2. CASE Replace(g, f)
      BY <2>1, <3>2 DEF Gui, Replace
    <3> QED BY <2>5, <3>1, <3>2
  <2>7. script' \in Script
    BY <1>6 DEF ScenarioTypeOK, LoadScenario
  <2>8. stop' \in [Engines -> BOOLEAN] /\ orders' \in [Commands \X Addr -> Nat] /\ own' \in BOOLEAN
    BY <1>6 DEF ScenarioTypeOK, LoadScenario, StopEngine
  <2>9. Modes'
    <3>1. CASE gui.running
      BY <2>1, <2>4, <2>5, <3>1 DEF Modes, Rest, Called, Runs, Asked, Ended, Replacing, Loads,
         Deletes, Executing, Gui
    <3>2. CASE ~gui.running
      <4>1. Replace(g, f) /\ Rest
        BY <2>4, <2>5, <3>2 DEF Modes, Called, Runs, Ended, Replacing, Loads, Deletes
      <4>2. toScript = <<>> /\ toGui' = <<>> /\ script'.pc = "idle"
        BY <2>4, <4>1 DEF Rest
      <4>3. g \in Gui /\ g.engine \in {NoEngine} \cup Engines /\ ~g.running
        BY <2>1, <3>2 DEF Gui
      <4> HIDE DEF g
      <4> QED BY <2>1, <4>1, <4>2, <4>3, Replaced
    <3> QED BY <3>1, <3>2
  <2>10. Others'
    <3>1. CASE gui' = [g EXCEPT !.frames = Append(gui.frames, frame)]
      <4>1. gui'.frames = Append(gui.frames, frame) /\ ~frame.finished
        BY <2>1, <3>1 DEF frame
      <4>2. /\ gui'.running = gui.running /\ gui'.file = gui.file /\ gui'.engine = gui.engine
            /\ gui'.updating = gui.updating /\ gui'.poll = gui.poll /\ gui'.timer = gui.timer
            /\ gui'.resume = gui.resume /\ gui'.closing = gui.closing
        BY <2>1, <3>1
      <4> QED BY <2>3, <2>4, <4>1, <4>2 DEF Others, FileIsLoaded, FramesAreTold, UpdateIsAlone,
                 HandlerInsideWait, PollIsKept, EngineToDelete
    <3>2. CASE ~gui.running /\ Replace(g, f)
      <4>1. /\ gui'.running = gui.running /\ gui'.file = f /\ gui'.engine = f
            /\ gui'.updating = gui.updating /\ gui'.poll = gui.poll /\ gui'.timer = gui.timer
            /\ gui'.resume = gui.resume /\ gui'.closing = gui.closing /\ gui'.frames = gui.frames
        BY <2>1, <3>2 DEF Replace
      <4> QED BY <2>1, <2>4, <3>2, <4>1 DEF Others, FileIsLoaded, FramesAreTold, UpdateIsAlone,
                 HandlerInsideWait, PollIsKept, EngineToDelete
    <3> QED BY <2>5, <3>1, <3>2
  <2> QED BY <2>6, <2>7, <2>8, <2>9, <2>10, PostedTypes DEF ScenarioTypeOK
<1>7. ASSUME RunScenario PROVE Inv'
  <2>1. gui' \in Gui
    <3>1. gui.runs + 1 \in Nat /\ gui \in Gui
      BY DEF ScenarioTypeOK, Gui
    <3> QED BY <1>7, <3>1 DEF Gui, RunScenario
  <2>2. script' \in Script
    BY <1>7 DEF ScenarioTypeOK, RunScenario
  <2>3. stop' \in [Engines -> BOOLEAN] /\ orders' \in [Commands \X Addr -> Nat] /\ own' \in BOOLEAN
    BY <1>7 DEF ScenarioTypeOK, RunScenario
  <2>4. Modes'
    <3>1. Rest /\ gui.file = gui.engine /\ gui.engine # NoEngine
      BY <1>7 DEF Modes, Called, Runs, Ended, Replacing, Loads, Deletes, Others, FileIsLoaded,
         RunScenario, UserActs, Serving
    <3>2. toScript' = <<Execution(gui.engine)>> /\ UNCHANGED <<script, toGui>>
      BY <1>7, <3>1, ShortSequences DEF RunScenario, PostToScript, Rest, Execution
    <3>3. /\ gui'.running /\ gui'.engine = gui.engine /\ gui'.file = gui.file
          /\ gui'.blocked = gui.blocked
      BY <1>7 DEF RunScenario
    <3> QED BY <3>1, <3>2, <3>3 DEF Modes, Called, Rest
  <2>5. Others'
    BY <1>7 DEF Others, FileIsLoaded, FramesAreTold, UpdateIsAlone, HandlerInsideWait, PollIsKept,
       EngineToDelete, RunScenario, UserActs
  <2> QED BY <2>1, <2>2, <2>3, <2>4, <2>5, PostedTypes DEF ScenarioTypeOK
<1>8. ASSUME StopScenario PROVE Inv'
  <2>1. gui' \in Gui
    BY <1>8 DEF ScenarioTypeOK, StopScenario
  <2>2. script' \in Script
    BY <1>8 DEF ScenarioTypeOK, StopScenario
  <2>3. stop' \in [Engines -> BOOLEAN] /\ orders' \in [Commands \X Addr -> Nat] /\ own' \in BOOLEAN
    BY <1>8 DEF ScenarioTypeOK, StopScenario, StopEngine
  <2>4. Modes'
    BY <1>8 DEF Modes, Rest, Called, Runs, Asked, Ended, Replacing, Loads, Deletes, Executing,
       StopScenario
  <2>5. Others'
    BY <1>8 DEF Others, FileIsLoaded, FramesAreTold, UpdateIsAlone, HandlerInsideWait, PollIsKept,
       EngineToDelete, StopScenario
  <2> QED BY <2>1, <2>2, <2>3, <2>4, <2>5, PostedTypes DEF ScenarioTypeOK
<1>9. ASSUME UpdateFirmware PROVE Inv'
  <2>1. gui' \in Gui
    <3>1. gui.updates + 1 \in Nat /\ gui \in Gui
      BY DEF ScenarioTypeOK, Gui
    <3> QED BY <1>9, <3>1 DEF Gui, UpdateFirmware
  <2>2. script' \in Script
    BY <1>9 DEF ScenarioTypeOK, UpdateFirmware
  <2>3. stop' \in [Engines -> BOOLEAN] /\ orders' \in [Commands \X Addr -> Nat] /\ own' \in BOOLEAN
    BY <1>9 DEF ScenarioTypeOK, UpdateFirmware
  <2>4. Modes'
    BY <1>9 DEF Modes, Rest, Called, Runs, Ended, Replacing, Loads, Deletes, UpdateFirmware
  <2>5. Others'
    BY <1>9 DEF Others, FileIsLoaded, FramesAreTold, UpdateIsAlone, HandlerInsideWait, PollIsKept,
       EngineToDelete, UpdateFirmware
  <2> QED BY <2>1, <2>2, <2>3, <2>4, <2>5, PostedTypes DEF ScenarioTypeOK
<1>10. ASSUME UpdateEnds PROVE Inv'
  <2>1. gui' \in Gui
    BY <1>10 DEF ScenarioTypeOK, Gui, UpdateEnds
  <2>2. script' \in Script
    BY <1>10 DEF ScenarioTypeOK, UpdateEnds
  <2>3. stop' \in [Engines -> BOOLEAN] /\ orders' \in [Commands \X Addr -> Nat] /\ own' \in BOOLEAN
    BY <1>10 DEF ScenarioTypeOK, UpdateEnds
  <2>4. Modes'
    BY <1>10 DEF Modes, Rest, Called, Runs, Asked, Ended, Replacing, Loads, Deletes, Executing,
       UpdateEnds
  <2>5. Others'
    BY <1>10 DEF Others, FileIsLoaded, FramesAreTold, UpdateIsAlone, HandlerInsideWait, PollIsKept,
       EngineToDelete, ScenarioTypeOK, Gui, UpdateEnds
  <2> QED BY <2>1, <2>2, <2>3, <2>4, <2>5, PostedTypes DEF ScenarioTypeOK
<1>11. ASSUME Close PROVE Inv'
  <2>1. gui' \in Gui
    BY <1>11 DEF ScenarioTypeOK, Gui, Close
  <2>2. script' \in Script
    BY <1>11 DEF ScenarioTypeOK, Close
  <2>3. stop' \in [Engines -> BOOLEAN] /\ orders' \in [Commands \X Addr -> Nat] /\ own' \in BOOLEAN
    BY <1>11 DEF ScenarioTypeOK, Close, StopEngine
  <2>4. Modes'
    BY <1>11 DEF Modes, Rest, Called, Runs, Asked, Ended, Replacing, Loads, Deletes, Executing,
       Close
  <2>5. Others'
    BY <1>11 DEF Others, FileIsLoaded, FramesAreTold, UpdateIsAlone, HandlerInsideWait, PollIsKept,
       EngineToDelete, Close
  <2> QED BY <2>1, <2>2, <2>3, <2>4, <2>5, PostedTypes DEF ScenarioTypeOK
<1>12. ASSUME CloseDeletes PROVE Inv'
  <2>1. gui' \in Gui
    BY <1>12 DEF ScenarioTypeOK, Gui, CloseDeletes
  <2>2. script' \in Script
    BY <1>12 DEF ScenarioTypeOK, CloseDeletes
  <2>3. stop' \in [Engines -> BOOLEAN] /\ orders' \in [Commands \X Addr -> Nat] /\ own' \in BOOLEAN
    BY <1>12 DEF ScenarioTypeOK, CloseDeletes
  <2>4. Modes'
    <3>1. Rest /\ gui.engine # NoEngine
      BY <1>12 DEF Modes, Called, Runs, Ended, Replacing, Loads, Deletes, Others, EngineToDelete,
         CloseDeletes, Serving
    <3>2. toScript' = <<Deletion("delete", gui.engine)>> /\ UNCHANGED <<script, toGui>>
      BY <1>12, <3>1, ShortSequences DEF CloseDeletes, PostToScript, Rest, Deletion
    <3>3. gui'.running = gui.running /\ gui'.engine = gui.engine /\ gui'.blocked
      BY <1>12 DEF CloseDeletes
    <3> QED BY <3>1, <3>2, <3>3 DEF Modes, Deletes, Rest
  <2>5. Others'
    BY <1>12 DEF Others, FileIsLoaded, FramesAreTold, UpdateIsAlone, HandlerInsideWait, PollIsKept,
       EngineToDelete, CloseDeletes
  <2> QED BY <2>1, <2>2, <2>3, <2>4, <2>5, PostedTypes DEF ScenarioTypeOK
<1>13. ASSUME FrameTimeout PROVE Inv'
  <2>1. gui' \in Gui
    <3>1. PICK i \in DOMAIN gui.frames : gui' = [gui EXCEPT !.frames[i].quit = TRUE]
      BY <1>13 DEF FrameTimeout
    <3>2. gui \in Gui /\ gui.frames \in Seq(Frame)
      BY DEF ScenarioTypeOK, Gui
    <3>3. [gui.frames EXCEPT ![i].quit = TRUE] \in Seq(Frame)
      BY <3>2, FrameToldToQuit
    <3>4. gui' = [gui EXCEPT !.frames = [gui.frames EXCEPT ![i].quit = TRUE]]
      BY <3>1, <3>2
    <3> QED BY <3>2, <3>3, <3>4 DEF Gui
  <2>2. script' \in Script
    BY <1>13 DEF ScenarioTypeOK, FrameTimeout
  <2>3. stop' \in [Engines -> BOOLEAN] /\ orders' \in [Commands \X Addr -> Nat] /\ own' \in BOOLEAN
    BY <1>13 DEF ScenarioTypeOK, FrameTimeout
  <2>4. Modes'
    BY <1>13 DEF Modes, Rest, Called, Runs, Asked, Ended, Replacing, Loads, Deletes, Executing,
       FrameTimeout
  <2>5. Others'
    BY <1>13 DEF Others, FileIsLoaded, FramesAreTold, UpdateIsAlone, HandlerInsideWait, PollIsKept,
       EngineToDelete, FrameTimeout
  <2> QED BY <2>1, <2>2, <2>3, <2>4, <2>5, PostedTypes DEF ScenarioTypeOK
<1>14. ASSUME FrameReturns PROVE Inv'
  <2> DEFINE popped == SubSeq(gui.frames, 1, Len(gui.frames) - 1)
             g == [gui EXCEPT !.frames = popped]
  <2>1. gui \in Gui /\ gui.frames \in Seq(Frame) /\ gui.frames # <<>>
    BY <1>14 DEF ScenarioTypeOK, Gui, FrameReturns
  <2>2. /\ popped \in Seq(Frame) /\ \A j \in DOMAIN popped : j \in DOMAIN gui.frames /\ popped[j] = gui.frames[j]
        /\ TopFrame \in Frame /\ Len(gui.frames) \in DOMAIN gui.frames
    BY <2>1, FrameReturned DEF TopFrame
  <2>3. TopFrame.load \in Engines /\ TopFrame.load # NoEngine
    BY <2>2 DEF Frame, Engines, NoEngine
  <2>4. ~gui.blocked /\ UNCHANGED <<script, toGui>>
    BY <1>14 DEF FrameReturns, Serving
  <2>5. TopFrame.finished => ~gui.running
    BY <2>2 DEF Others, FramesAreTold, TopFrame
  <2> HIDE DEF popped
  <2>6. \/ gui' = g /\ UNCHANGED toScript
        \/ ~gui.running /\ Replace(g, TopFrame.load)
    BY <1>14, <2>5 DEF FrameReturns, PopFrame, popped
  <2>7. /\ g \in Gui /\ g.running = gui.running /\ g.engine = gui.engine /\ g.file = gui.file
        /\ g.blocked = gui.blocked /\ g.updating = gui.updating /\ g.poll = gui.poll
        /\ g.timer = gui.timer /\ g.resume = gui.resume /\ g.closing = gui.closing /\ g.frames = popped
    BY <2>1, <2>2 DEF Gui
  <2> HIDE DEF g
  <2>8. gui' \in Gui
    BY <2>3, <2>6, <2>7 DEF Gui, Replace
  <2>9. script' \in Script
    BY <1>14 DEF ScenarioTypeOK, FrameReturns
  <2>10. stop' \in [Engines -> BOOLEAN] /\ orders' \in [Commands \X Addr -> Nat] /\ own' \in BOOLEAN
    BY <1>14 DEF ScenarioTypeOK, FrameReturns
  <2>11. Modes'
    <3>1. CASE gui' = g /\ UNCHANGED toScript
      BY <2>4, <2>7, <3>1 DEF Modes, Rest, Called, Runs, Asked, Ended, Replacing, Loads, Deletes,
         Executing
    <3>2. CASE ~gui.running /\ Replace(g, TopFrame.load)
      <4>1. Rest /\ g.engine \in {NoEngine} \cup Engines
        BY <2>1, <2>4, <2>7, <3>2 DEF Modes, Called, Runs, Ended, Replacing, Loads, Deletes, Gui
      <4> QED BY <2>3, <2>4, <2>7, <3>2, <4>1, Replaced DEF Rest
    <3> QED BY <2>6, <3>1, <3>2
  <2>12. Others'
    <3>1. CASE gui' = g
      BY <2>2, <2>4, <2>7, <3>1 DEF Others, FileIsLoaded, FramesAreTold, UpdateIsAlone,
         HandlerInsideWait, PollIsKept, EngineToDelete
    <3>2. CASE ~gui.running /\ Replace(g, TopFrame.load)
      <4>1. /\ gui'.running = gui.running /\ gui'.file = TopFrame.load /\ gui'.engine = TopFrame.load
            /\ gui'.updating = gui.updating /\ gui'.poll = gui.poll /\ gui'.timer = gui.timer
            /\ gui'.resume = gui.resume /\ gui'.closing = gui.closing /\ gui'.frames = popped
        BY <2>7, <3>2 DEF Replace
      <4> QED BY <2>2, <2>3, <2>4, <3>2, <4>1 DEF Others, FileIsLoaded, FramesAreTold,
                 UpdateIsAlone, HandlerInsideWait, PollIsKept, EngineToDelete
    <3> QED BY <2>6, <3>1, <3>2
  <2> QED BY <2>8, <2>9, <2>10, <2>11, <2>12, PostedTypes DEF ScenarioTypeOK
<1>15. ASSUME OnFinished PROVE Inv'
  <2>1. toGui' = <<>> /\ Ended /\ Head(toGui).engine = gui.engine
    BY <1>15, Taken DEF OnFinished
  <2>2. gui' \in Gui
    <3> DEFINE told == [i \in DOMAIN gui.frames |-> [gui.frames[i] EXCEPT !.quit = TRUE, !.finished = TRUE]]
    <3>1. gui \in Gui /\ gui.frames \in Seq(Frame)
      BY DEF ScenarioTypeOK, Gui
    <3>2. told \in Seq(Frame)
      BY <3>1, FramesToldOfEnd
    <3>3. gui' = [gui EXCEPT !.running = FALSE, !.frames = told]
      BY <1>15, <2>1 DEF OnFinished
    <3> HIDE DEF told
    <3> QED BY <3>1, <3>2, <3>3 DEF Gui
  <2>3. script' \in Script
    BY <1>15, <2>1 DEF ScenarioTypeOK, OnFinished
  <2>4. stop' \in [Engines -> BOOLEAN] /\ orders' \in [Commands \X Addr -> Nat] /\ own' \in BOOLEAN
    BY <1>15, <2>1 DEF ScenarioTypeOK, OnFinished
  <2>5. Modes'
    BY <1>15, <2>1 DEF Modes, Rest, Ended, OnFinished
  <2>6. Others'
    BY <1>15, <2>1 DEF Others, FileIsLoaded, FramesAreTold, UpdateIsAlone, HandlerInsideWait,
       PollIsKept, EngineToDelete, ScenarioTypeOK, Gui, OnFinished
  <2> QED BY <2>2, <2>3, <2>4, <2>5, <2>6, PostedTypes DEF ScenarioTypeOK
<1>16. ASSUME ServeCall PROVE Inv'
  <2>1. toGui' = <<>> /\ Runs /\ script.pc = "call"
    BY <1>16, Taken DEF ServeCall
  <2>2. gui' \in Gui
    BY <1>16, <2>1 DEF ScenarioTypeOK, ServeCall
  <2>3. script' \in Script
    BY <1>16, <2>1 DEF ScenarioTypeOK, Script, ServeCall
  <2>4. stop' \in [Engines -> BOOLEAN] /\ orders' \in [Commands \X Addr -> Nat] /\ own' \in BOOLEAN
    BY <1>16, <2>1 DEF ScenarioTypeOK, ServeCall
  <2>5. Modes'
    BY <1>16, <2>1 DEF Modes, Runs, Asked, Executing, ServeCall
  <2>6. Others'
    BY <1>16, <2>1 DEF Others, FileIsLoaded, FramesAreTold, UpdateIsAlone, HandlerInsideWait,
       PollIsKept, EngineToDelete, ServeCall
  <2> QED BY <2>2, <2>3, <2>4, <2>5, <2>6, PostedTypes DEF ScenarioTypeOK
<1>17. ASSUME ServeLaunch PROVE Inv'
  <2>1. toGui' = <<>> /\ Runs /\ script.pc = "launch"
    BY <1>17, Taken DEF ServeLaunch
  <2>2. gui' \in Gui
    BY <1>17, <2>1 DEF ScenarioTypeOK, ServeLaunch
  <2>3. script' \in Script
    BY <1>17, <2>1 DEF ScenarioTypeOK, Script, Calling, ServeLaunch
  <2>4. stop' \in [Engines -> BOOLEAN] /\ orders' \in [Commands \X Addr -> Nat] /\ own' \in BOOLEAN
    <3>1. \A o \in Commands \X Addr : orders[o] + 1 \in Nat
      BY DEF ScenarioTypeOK
    <3>2. \A o : [orders EXCEPT ![o] = @ + 1] \in [Commands \X Addr -> Nat]
      BY <3>1 DEF ScenarioTypeOK
    <3>3. Order(script.cmd, script.addr) \in [Commands \X Addr -> Nat]
      BY <3>2 DEF Order
    <3> QED BY <1>17, <3>3 DEF ScenarioTypeOK, ServeLaunch
  <2>5. Modes'
    BY <1>17, <2>1 DEF Modes, Runs, Asked, Executing, Calling, ServeLaunch
  <2>6. Others'
    BY <1>17, <2>1 DEF Others, FileIsLoaded, FramesAreTold, UpdateIsAlone, HandlerInsideWait,
       PollIsKept, EngineToDelete, ServeLaunch
  <2> QED BY <2>2, <2>3, <2>4, <2>5, <2>6, PostedTypes DEF ScenarioTypeOK
<1>18. ASSUME ServeUnlaunch PROVE Inv'
  <2>1. toGui' = <<>> /\ Runs /\ script.pc = "unlaunch"
    BY <1>18, Taken DEF ServeUnlaunch
  <2>2. gui' \in Gui
    BY <1>18, <2>1 DEF ScenarioTypeOK, ServeUnlaunch
  <2>3. script' \in Script
    BY <1>18, <2>1 DEF ScenarioTypeOK, Script, ServeUnlaunch
  <2>4. stop' \in [Engines -> BOOLEAN] /\ orders' \in [Commands \X Addr -> Nat] /\ own' \in BOOLEAN
    BY <1>18, <2>1 DEF ScenarioTypeOK, ServeUnlaunch
  <2>5. Modes'
    BY <1>18, <2>1 DEF Modes, Runs, Asked, Executing, ServeUnlaunch
  <2>6. Others'
    BY <1>18, <2>1 DEF Others, FileIsLoaded, FramesAreTold, UpdateIsAlone, HandlerInsideWait,
       PollIsKept, EngineToDelete, ServeUnlaunch
  <2> QED BY <2>2, <2>3, <2>4, <2>5, <2>6, PostedTypes DEF ScenarioTypeOK
<1>19. ASSUME ScriptThreadServes PROVE Inv'
  <2>1. /\ \/ Called /\ Execute(gui.engine) /\ toScript' = <<>>
           \/ /\ Replacing /\ toScript' = <<Loading(gui.engine)>>
              /\ UNCHANGED <<gui, script, stop>>
           \/ /\ Replacing /\ script' = [script EXCEPT !.pc = "load", !.engine = gui.engine]
              /\ toScript' = <<>> /\ UNCHANGED <<gui, stop>>
           \/ /\ Deletes /\ gui' = [gui EXCEPT !.blocked = FALSE, !.closing = "closed"]
              /\ toScript' = <<>> /\ UNCHANGED <<script, stop>>
        /\ UNCHANGED <<toGui, orders, own>>
    <3> USE <1>19 DEF ScriptThreadServes
    <3>1. CASE Called
      BY <3>1, ShortSequences DEF Called, Execution
    <3>2. CASE Deletes
      BY <3>2, ShortSequences DEF Deletes, Deletion
    <3>3. CASE Replacing /\ toScript = <<Loading(gui.engine)>>
      <4>1. Head(toScript) = Loading(gui.engine) /\ toScript' = <<>>
        BY <3>3, ShortSequences
      <4>2. Head(toScript).op = "load" /\ Head(toScript).engine = gui.engine
        BY <4>1 DEF Loading
      <4>3. script' = [script EXCEPT !.pc = "load", !.engine = gui.engine] /\ UNCHANGED <<gui, stop>>
        BY <4>2
      <4>4. UNCHANGED <<toGui, orders, own>>
        OBVIOUS
      <4> HIDE DEF ScriptThreadServes
      <4> QED BY <3>3, <4>1, <4>3, <4>4
    <3>4. CASE Replacing /\ \E e \in Engines : toScript = <<Deletion("deleteLater", e), Loading(gui.engine)>>
      BY <3>4, ShortSequences DEF Deletion
    <3> QED BY <3>1, <3>2, <3>3, <3>4 DEF Modes, Rest, Runs, Ended, Replacing, Loads
  <2>2. gui' \in Gui
    <3>1. gui \in Gui /\ [gui EXCEPT !.blocked = FALSE, !.closing = "closed"] \in Gui
      BY DEF ScenarioTypeOK, Gui
    <3> QED BY <2>1, <3>1 DEF Execute
  <2>3. script' \in Script
    <3>1. script \in Script /\ gui.engine \in {NoEngine} \cup Engines
      BY DEF ScenarioTypeOK, Gui
    <3> QED BY <2>1, <3>1 DEF Script, Execute
  <2>4. stop' \in [Engines -> BOOLEAN] /\ orders' \in [Commands \X Addr -> Nat] /\ own' \in BOOLEAN
    BY <2>1 DEF ScenarioTypeOK, Execute
  <2>5. Modes' /\ Others'
    <3>1. script \in Script /\ gui \in Gui
      BY DEF ScenarioTypeOK
    <3>2. CASE Called /\ Execute(gui.engine) /\ toScript' = <<>>
      <4>1. /\ script'.pc = "main" /\ script'.engine = gui.engine /\ script'.conn = script.conn
            /\ UNCHANGED <<gui, toGui>>
        BY <2>1, <3>1, <3>2 DEF Script, Execute
      <4>2. Runs'
        BY <3>2, <4>1 DEF Called, Runs, Asked, Executing
      <4> QED BY <3>2, <4>1, <4>2 DEF Modes, Called, Others, FileIsLoaded, FramesAreTold, UpdateIsAlone,
                 HandlerInsideWait, PollIsKept, EngineToDelete
    <3>3. CASE Replacing /\ toScript' = <<Loading(gui.engine)>> /\ UNCHANGED <<gui, script, stop>>
      BY <2>1, <3>3 DEF Modes, Replacing, Others, FileIsLoaded, FramesAreTold, UpdateIsAlone,
         HandlerInsideWait, PollIsKept, EngineToDelete
    <3>4. CASE /\ Replacing /\ script' = [script EXCEPT !.pc = "load", !.engine = gui.engine]
               /\ toScript' = <<>> /\ UNCHANGED <<gui, stop>>
      <4>1. /\ script'.pc = "load" /\ script'.engine = gui.engine /\ script'.conn = script.conn
            /\ UNCHANGED <<gui, toGui>>
        BY <2>1, <3>1, <3>4 DEF Script
      <4>2. Loads'
        BY <3>4, <4>1 DEF Replacing, Loads
      <4> QED BY <3>4, <4>1, <4>2 DEF Modes, Replacing, Others, FileIsLoaded, FramesAreTold, UpdateIsAlone,
                 HandlerInsideWait, PollIsKept, EngineToDelete
    <3>5. CASE /\ Deletes /\ gui' = [gui EXCEPT !.blocked = FALSE, !.closing = "closed"]
               /\ toScript' = <<>> /\ UNCHANGED <<script, stop>>
      <4>1. /\ ~gui'.blocked /\ gui'.closing = "closed" /\ UNCHANGED <<script, toGui>>
            /\ gui'.frames = gui.frames /\ gui'.running = gui.running /\ gui'.engine = gui.engine
            /\ gui'.file = gui.file /\ gui'.updating = gui.updating
        BY <2>1, <3>1, <3>5 DEF Gui
      <4>2. Rest'
        BY <3>5, <4>1 DEF Deletes, Rest
      <4> QED BY <4>1, <4>2 DEF Modes, Others, FileIsLoaded, FramesAreTold, UpdateIsAlone,
                 HandlerInsideWait, PollIsKept, EngineToDelete
    <3> QED BY <2>1, <3>2, <3>3, <3>4, <3>5
  <2> QED BY <2>2, <2>3, <2>4, <2>5, PostedTypes DEF ScenarioTypeOK
<1>20. ASSUME NEW loaded \in BOOLEAN, LoadScript(loaded) PROVE Inv'
  <2>1. gui' \in Gui
    BY <1>20 DEF ScenarioTypeOK, Gui, LoadScript
  <2>2. script' \in Script
    BY <1>20 DEF ScenarioTypeOK, Script, LoadScript
  <2>3. stop' \in [Engines -> BOOLEAN] /\ orders' \in [Commands \X Addr -> Nat] /\ own' \in BOOLEAN
    BY <1>20 DEF ScenarioTypeOK, LoadScript
  <2>4. Modes'
    BY <1>20 DEF Modes, Rest, Called, Runs, Ended, Replacing, Loads, Deletes, Executing, Calling,
       LoadScript
  <2>5. Others'
    BY <1>20 DEF Others, FileIsLoaded, FramesAreTold, UpdateIsAlone, HandlerInsideWait, PollIsKept,
       EngineToDelete, LoadScript
  <2> QED BY <2>1, <2>2, <2>3, <2>4, <2>5, PostedTypes DEF ScenarioTypeOK
<1>21. ASSUME MainEnds PROVE Inv'
  <2>1. gui' \in Gui
    BY <1>21 DEF ScenarioTypeOK, MainEnds
  <2>2. script' \in Script
    BY <1>21 DEF ScenarioTypeOK, Script, MainEnds
  <2>3. stop' \in [Engines -> BOOLEAN] /\ orders' \in [Commands \X Addr -> Nat] /\ own' \in BOOLEAN
    BY <1>21 DEF ScenarioTypeOK, MainEnds
  <2>4. Modes'
    BY <1>21 DEF Modes, Rest, Called, Runs, Asked, Ended, Replacing, Loads, Deletes, MainEnds,
       PostToGui
  <2>5. Others'
    BY <1>21 DEF Others, FileIsLoaded, FramesAreTold, UpdateIsAlone, HandlerInsideWait, PollIsKept,
       EngineToDelete, MainEnds
  <2> QED BY <2>1, <2>2, <2>3, <2>4, <2>5, PostedTypes DEF ScenarioTypeOK
<1>22. ASSUME CallController PROVE Inv'
  <2>1. gui' \in Gui
    BY <1>22 DEF ScenarioTypeOK, CallController
  <2>2. script' \in Script
    BY <1>22 DEF ScenarioTypeOK, Script, Calling, CallController
  <2>3. stop' \in [Engines -> BOOLEAN] /\ orders' \in [Commands \X Addr -> Nat] /\ own' \in BOOLEAN
    BY <1>22 DEF ScenarioTypeOK, CallController
  <2>4. Modes'
    BY <1>22 DEF Modes, Rest, Called, Runs, Asked, Ended, Replacing, Loads, Deletes, Executing,
       Calling, CallController, PostToGui
  <2>5. Others'
    BY <1>22 DEF Others, FileIsLoaded, FramesAreTold, UpdateIsAlone, HandlerInsideWait, PollIsKept,
       EngineToDelete, CallController
  <2> QED BY <2>1, <2>2, <2>3, <2>4, <2>5, PostedTypes DEF ScenarioTypeOK
<1>23. ASSUME NEW c \in Commands, NEW a \in Addr, WaitForCommand(c, a) PROVE Inv'
  <2>1. gui' \in Gui
    BY <1>23 DEF ScenarioTypeOK, WaitForCommand
  <2>2. script' \in Script
    BY <1>23 DEF ScenarioTypeOK, Script, Calling, WaitForCommand
  <2>3. stop' \in [Engines -> BOOLEAN] /\ orders' \in [Commands \X Addr -> Nat] /\ own' \in BOOLEAN
    BY <1>23 DEF ScenarioTypeOK, WaitForCommand
  <2>4. Modes'
    BY <1>23 DEF Modes, Rest, Called, Runs, Asked, Ended, Replacing, Loads, Deletes, Executing,
       Calling, WaitForCommand, PostToGui
  <2>5. Others'
    BY <1>23 DEF Others, FileIsLoaded, FramesAreTold, UpdateIsAlone, HandlerInsideWait, PollIsKept,
       EngineToDelete, WaitForCommand
  <2> QED BY <2>1, <2>2, <2>3, <2>4, <2>5, PostedTypes DEF ScenarioTypeOK
<1>24. ASSUME StartLoop PROVE Inv'
  <2>1. gui' \in Gui
    BY <1>24 DEF ScenarioTypeOK, StartLoop
  <2>2. script' \in Script
    BY <1>24 DEF ScenarioTypeOK, Script, Calling, StartLoop
  <2>3. stop' \in [Engines -> BOOLEAN] /\ orders' \in [Commands \X Addr -> Nat] /\ own' \in BOOLEAN
    BY <1>24 DEF ScenarioTypeOK, StartLoop
  <2>4. Modes'
    BY <1>24 DEF Modes, Rest, Called, Runs, Asked, Ended, Replacing, Loads, Deletes, Executing,
       Calling, StartLoop
  <2>5. Others'
    BY <1>24 DEF Others, FileIsLoaded, FramesAreTold, UpdateIsAlone, HandlerInsideWait, PollIsKept,
       EngineToDelete, StartLoop
  <2> QED BY <2>1, <2>2, <2>3, <2>4, <2>5, PostedTypes DEF ScenarioTypeOK
<1>25. ASSUME NEW timeout \in BOOLEAN, LeaveLoop(timeout) PROVE Inv'
  <2>1. gui' \in Gui
    BY <1>25 DEF ScenarioTypeOK, LeaveLoop
  <2>2. script' \in Script
    BY <1>25 DEF ScenarioTypeOK, Script, Calling, LeaveLoop
  <2>3. stop' \in [Engines -> BOOLEAN] /\ orders' \in [Commands \X Addr -> Nat] /\ own' \in BOOLEAN
    BY <1>25 DEF ScenarioTypeOK, LeaveLoop
  <2>4. Modes'
    BY <1>25 DEF Modes, Rest, Called, Runs, Asked, Ended, Replacing, Loads, Deletes, Executing,
       Calling, LeaveLoop, PostToGui
  <2>5. Others'
    BY <1>25 DEF Others, FileIsLoaded, FramesAreTold, UpdateIsAlone, HandlerInsideWait, PollIsKept,
       EngineToDelete, LeaveLoop
  <2> QED BY <2>1, <2>2, <2>3, <2>4, <2>5, PostedTypes DEF ScenarioTypeOK
<1>26. CASE UNCHANGED scVars
  BY <1>26 DEF scVars, Modes, Rest, Called, Runs, Asked, Ended, Replacing, Loads, Deletes,
     Executing, Others, FileIsLoaded, FramesAreTold, UpdateIsAlone, HandlerInsideWait, PollIsKept,
     EngineToDelete, ScenarioTypeOK
<1> QED
  <2>1. CASE ScenarioNext
    BY <2>1, <1>1, <1>2, <1>3, <1>4, <1>5, <1>6, <1>7, <1>8, <1>9, <1>10, <1>11, <1>12, <1>13,
       <1>14, <1>15, <1>16, <1>17, <1>18, <1>19, <1>20, <1>21, <1>22, <1>23, <1>24, <1>25, Zenon DEF
       ScenarioNext, HookStops, WaitTimeout, StopPoll
  <2> QED BY <2>1, <1>26

-----------------------------------------------------------------------------
(* At the start nothing runs and nothing is posted. *)
LEMMA InitInv == ScenarioInit => Inv
<1> SUFFICES ASSUME ScenarioInit PROVE Inv
  OBVIOUS
<1>1. <<>> \in Seq(Frame) /\ <<>> \in Seq(Work) /\ <<>> \in Seq(Posted)
  BY EmptySeq
<1>2. (CHOOSE a \in Addr : TRUE) \in Addr
  BY ScenarioAssumption
<1>3. gui \in Gui
  BY <1>1 DEF ScenarioInit, Gui
<1>4. script \in Script
  BY <1>2 DEF ScenarioInit, Script
<1>5. ScenarioTypeOK
  BY <1>1, <1>3, <1>4 DEF ScenarioInit, ScenarioTypeOK
<1>6. Modes
  BY DEF ScenarioInit, Modes, Rest
<1>7. Others
  BY DEF ScenarioInit, Others, FileIsLoaded, FramesAreTold, UpdateIsAlone, HandlerInsideWait,
         PollIsKept, EngineToDelete
<1> QED BY <1>5, <1>6, <1>7 DEF Inv

(* The two threads are in one of the seven modes at any time, and what the *)
(* controller keeps fits it: the flag, the file, the loads that wait.      *)
THEOREM ScenarioInvariance == ScenarioSpec => []Inv
  BY InitInv, StepInv, PTL DEF ScenarioSpec

(* Every variable keeps the type it is declared with: the flags of the     *)
(* controller, the waits of the script, the two queues of posted calls.    *)
THEOREM ScenarioTypes == ScenarioSpec => []ScenarioTypeOK
<1>1. Inv => ScenarioTypeOK
  BY DEF Inv
<1> QED BY <1>1, ScenarioInvariance, PTL

(* While Lua runs, its engine is the controller's engine, and nothing      *)
(* waits for its thread that would delete, load or execute meanwhile.      *)
THEOREM EngineOutlives == ScenarioSpec => []EngineOutlivesScript
<1>1. Inv => EngineOutlivesScript
  BY DEF Inv, Modes, Rest, Called, Runs, Ended, Replacing, Loads, Deletes, EngineOutlivesScript
<1> QED BY <1>1, ScenarioInvariance, PTL

(* m_scenarioRunning holds from the click on Run until the controller has  *)
(* heard that the script is over, and at no other time.                    *)
THEOREM RunningFlag == ScenarioSpec => []RunningFlagIsExact
<1>1. Inv => RunningFlagIsExact
  <2> SUFFICES ASSUME Modes PROVE RunningFlagIsExact
    BY DEF Inv
  <2>1. \A x, y : /\ DOMAIN <<x>> = {1} /\ <<x>>[1] = x /\ DOMAIN <<>> = {}
                /\ DOMAIN <<x, y>> = {1, 2} /\ <<x, y>>[1] = x /\ <<x, y>>[2] = y
    OBVIOUS
  <2>2. CASE Rest \/ Loads
    BY <2>1, <2>2 DEF Rest, Loads, RunningFlagIsExact, Executing, Calling
  <2>3. CASE Called
    BY <2>1, <2>3 DEF Called, Execution, RunningFlagIsExact, Executing, Calling
  <2>4. CASE Runs
    BY <2>4 DEF Runs, RunningFlagIsExact
  <2>5. CASE Ended
    BY <2>1, <2>5 DEF Ended, RunningFlagIsExact, Executing, Calling
  <2>6. CASE Replacing
    BY <2>1, <2>6 DEF Replacing, Loading, Deletion, RunningFlagIsExact, Executing, Calling
  <2>7. CASE Deletes
    BY <2>1, <2>7 DEF Deletes, Deletion, RunningFlagIsExact, Executing, Calling
  <2> QED BY <2>2, <2>3, <2>4, <2>5, <2>6, <2>7 DEF Modes
<1> QED BY <1>1, ScenarioInvariance, PTL

(* While the controller updates firmware no script executes, and none is   *)
(* posted that would execute before the update is over.                    *)
THEOREM UpdateExcludes == ScenarioSpec => []UpdateExcludesScript
<1>1. Inv /\ RunningFlagIsExact => UpdateExcludesScript
  BY DEF Inv, Others, UpdateIsAlone, RunningFlagIsExact, UpdateExcludesScript
<1> QED BY <1>1, ScenarioInvariance, RunningFlag, PTL

(* The handler of a wait writes to variables of waitForCommand: it is      *)
(* connected only between the launch and the disconnect the call awaits.   *)
THEOREM HandlerInside == ScenarioSpec => []HandlerInsideWait
<1>1. Inv => HandlerInsideWait
  BY DEF Inv, Others
<1> QED BY <1>1, ScenarioInvariance, PTL

(* However loads are nested, what executes is the file whose name the      *)
(* controller holds.                                                       *)
THEOREM RunsLoaded == ScenarioSpec => []RunsWhatIsLoaded
<1>1. Inv => RunsWhatIsLoaded
  BY DEF Inv, Modes, Rest, Called, Runs, Ended, Replacing, Loads, Deletes, RunsWhatIsLoaded,
         Executing, Calling
<1> QED BY <1>1, ScenarioInvariance, PTL

(* An auto-poll asked for before or during an update has its timer again   *)
(* once the update is over.                                                *)
THEOREM PollSurvives == ScenarioSpec => []PollSurvivesUpdate
<1>1. Inv => PollSurvivesUpdate
  BY DEF Inv, Others, PollIsKept, PollSurvivesUpdate
<1> QED BY <1>1, ScenarioInvariance, PTL
=============================================================================
