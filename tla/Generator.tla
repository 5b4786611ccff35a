----------------------------- MODULE Generator -----------------------------
(***************************************************************************)
(* The Gratten generator on the LAN: GrattenGa1483Controller, the set and  *)
(* verify loop of AbstractScpiController, and LanInterface.                *)
(*                                                                         *)
(* All of it runs in one thread and blocks it: while a call waits for a    *)
(* line, no event loop runs, and what arrives stays in the socket.  Lines  *)
(* carry nothing that says which query they answer.                        *)
(***************************************************************************)
EXTENDS Integers, Sequences

CONSTANTS
  Settings,     (* frequency, amplitude, output, AM and its two numbers      *)
  Values,       (* what a setting can hold; 0 is OFF or the number 0, 1 ON   *)
  Allowed,      (* Settings -> the values checkRange lets through            *)
  Tolerance,    (* Settings -> how far from the value an answer may be:      *)
                (* 1 Hz, 0.1 dBm, 0.1 %, and 0 for what is ON or OFF         *)
  MaxAttempts,  (* maxRetries of verifySetCommand                            *)
  Retries,      (* retries of queryScpiCommand                               *)
  MaxCalls      (* bound: calls of the program                               *)

ASSUME GeneratorAssumption ==
  /\ Settings \cap {"*IDN?", ":SYSTem:ERRor?"} = {}
  /\ 0 \in Values /\ Values \subseteq Int
  /\ Allowed \in [Settings -> SUBSET Values] /\ Tolerance \in [Settings -> Nat]
  /\ MaxAttempts \in Nat \ {0} /\ Retries \in Nat /\ MaxCalls \in Nat

VARIABLES
  lan,      (* up: m_isConnected; available: m_available; buffer:            *)
            (* m_readBuffer                                                  *)
  link,     (* the connection: out to the generator, in from it              *)
  device,   (* the generator's settings                                      *)
  call      (* the call that blocks the thread                               *)

genVars == <<lan, link, device, call>>

Queries == Settings \cup {"*IDN?", ":SYSTem:ERRor?"}
Line == [query : Queries, value : Values]
Sent == [op : {"set"}, what : Settings, value : Values] \cup [op : {"query"}, what : Queries] \cup [op : {"reset"}]
Silence == {}

(***************************************************************************)
(*   op       none, open, get, or set and then the setting and the value   *)
(*   pc       attempt: about to send; await: in waitForResponse            *)
(*   query    what is awaited; tries: how often it may be sent again       *)
(*   clean    history: no other answer can be under way                    *)
(*   heard    history: the value was compared with a line, not a silence   *)
(*   result   what the last call has returned                              *)
(***************************************************************************)
Call == [op : {"none", "open", "get", "set"}, pc : {"idle", "attempt", "await"},
         what : Queries, value : Values, attempt : 0 .. MaxAttempts, query : Queries, tries : 0 .. Retries,
         clean : BOOLEAN, heard : BOOLEAN, result : BOOLEAN, calls : Nat]

Disconnected == [up |-> FALSE, available |-> FALSE, buffer |-> <<>>]
Empty == [out |-> <<>>, in |-> <<>>]

NoCall == [op |-> "none", pc |-> "idle", what |-> "*IDN?", value |-> 0, attempt |-> 0, query |-> "*IDN?",
           tries |-> 0, clean |-> FALSE, heard |-> FALSE, result |-> FALSE, calls |-> 0]

GeneratorInit ==
  /\ lan = Disconnected /\ link = Empty
  /\ device \in {d \in [Settings -> Values] : \A s \in Settings : d[s] \in Allowed[s] \cup {0}}
  /\ call = NoCall

-----------------------------------------------------------------------------
Idle == call.pc = "idle"
Begin(c) == Idle /\ call.calls < MaxCalls /\ call' = [c EXCEPT !.calls = call.calls + 1]

NothingUnderWay == link.in = <<>> /\ \A i \in DOMAIN link.out : link.out[i].op # "query"

(* queryScpiCommand: what is in the read buffer is dropped, but what is in *)
(* the socket or under way is not.                                         *)
Query(q, tries, c) ==
  [c EXCEPT !.pc = "await", !.query = q, !.tries = tries, !.clean = NothingUnderWay]

(* Mutant: a query begins with what the last one has left in the buffer.   *)
DropBufferNot == UNCHANGED lan

(* clearReadBuffer.  The socket's own buffer is empty: onSocketReadyRead   *)
(* takes from it whatever is read from the connection.                     *)
DropBuffer == lan' = [lan EXCEPT !.buffer = <<>>]

Write(lines) == link' = [link EXCEPT !.out = @ \o lines]

(* What a query returns for a line.  A silence, or a line that does not    *)
(* parse, reads as 0 or OFF; a line that answers another query reads as    *)
(* anything.                                                               *)
Reads(q, line) ==
  IF line = Silence THEN {0} ELSE IF \E l \in line : l.query = q THEN {l.value : l \in line} ELSE Values

(* What verifySetCommand takes for equal: the numbers by their distance,   *)
(* what is ON or OFF exactly.                                              *)
Near(s, v, w) == v - w \in -Tolerance[s] .. Tolerance[s]

Return(c, ok) == call' = [NoCall EXCEPT !.result = ok, !.heard = c.heard, !.calls = c.calls]

(* Mutant: one attempt more than maxRetries.                               *)
NextAttemptOneMore(c) ==
  IF c.attempt <= MaxAttempts THEN call' = [c EXCEPT !.pc = "attempt", !.attempt = @ + 1] ELSE Return(c, FALSE)

NextAttempt(c) ==
  IF c.attempt < MaxAttempts THEN call' = [c EXCEPT !.pc = "attempt", !.attempt = @ + 1] ELSE Return(c, FALSE)

-----------------------------------------------------------------------------
(* Calls of the program *)

OpenDevice(reached) ==
  /\ IF reached
     THEN /\ lan' = [up |-> TRUE, available |-> FALSE, buffer |-> <<>>]
          /\ link' = [Empty EXCEPT !.out = <<[op |-> "query", what |-> "*IDN?"]>>]
          /\ Begin([NoCall EXCEPT !.op = "open", !.pc = "await", !.query = "*IDN?", !.tries = Retries, !.clean = TRUE])
     ELSE /\ lan' = Disconnected /\ link' = Empty
          /\ Begin(NoCall)
  /\ UNCHANGED device

CloseDevice ==
  /\ lan' = Disconnected /\ link' = Empty
  /\ Begin(NoCall)
  /\ UNCHANGED device

(* setFrequency and the others: a value out of range goes no further. *)
SetValue(s, v) ==
  /\ lan.up /\ v \in Allowed[s]
  /\ Begin([NoCall EXCEPT !.op = "set", !.pc = "attempt", !.what = s, !.value = v, !.attempt = 1])
  /\ UNCHANGED <<lan, link, device>>

(* getIdentity, queryFrequency and the others. *)
GetValue(q) ==
  /\ lan.up
  /\ DropBuffer /\ Write(<<[op |-> "query", what |-> q]>>)
  /\ Begin(Query(q, Retries, [NoCall EXCEPT !.op = "get"]))
  /\ UNCHANGED device

Reset ==
  /\ lan.up
  /\ Write(<<[op |-> "reset"]>>) /\ Begin(NoCall)
  /\ UNCHANGED <<lan, device>>

-----------------------------------------------------------------------------
(* verifySetCommand: the command, 200 ms, and the query.  Nothing that     *)
(* arrives in these 200 ms is read.                                        *)
Attempt ==
  /\ call.pc = "attempt"
  /\ IF lan.up
     THEN /\ DropBuffer
          /\ Write(<<[op |-> "set", what |-> call.what, value |-> call.value], [op |-> "query", what |-> call.what]>>)
          /\ call' = Query(call.what, Retries, call)
     ELSE /\ NextAttempt(call)
          /\ UNCHANGED <<lan, link>>
  /\ UNCHANGED device

(* The query returns; the value that was set is compared, then the error   *)
(* queue is asked, once, if the value is not near.                         *)
Answered(line) ==
  LET heard == [call EXCEPT !.heard = line # Silence] IN
  CASE call.op = "open" -> Return(heard, line # Silence)
    [] call.op = "get"  -> Return(heard, line # Silence)
    [] call.op = "set" /\ call.query = call.what ->
         \E v \in Reads(call.query, line) :
           IF Near(call.what, v, call.value) THEN Return(heard, TRUE)
           ELSE IF lan.up /\ lan.available THEN call' = Query(":SYSTem:ERRor?", 0, heard)
                ELSE NextAttempt(heard)
    [] OTHER -> NextAttempt(heard)

AsksError == call.pc = "await" /\ call'.pc = "await" /\ call'.query = ":SYSTem:ERRor?" /\ call.query # call'.query
Available(line) == IF call.op = "open" THEN line # Silence /\ lan.up ELSE lan.available

(* Lines are there: all are read, the first is the answer. *)
Hear ==
  LET lines == lan.buffer \o link.in IN
  /\ call.pc = "await" /\ lines # <<>>
  /\ Answered({Head(lines)})
  /\ lan' = [lan EXCEPT !.buffer = IF AsksError THEN <<>> ELSE Tail(lines), !.available = Available({Head(lines)})]
  /\ link' = [out |-> IF AsksError THEN Append(link.out, [op |-> "query", what |-> ":SYSTem:ERRor?"]) ELSE link.out,
              in |-> <<>>]
  /\ UNCHANGED device

(* Mutant: the last try waits for as long as the connection is there.      *)
TimeoutOfRetriesOnly ==
  /\ call.pc = "await" /\ call.tries > 0 /\ lan.up
  /\ Write(<<[op |-> "query", what |-> call.query]>>)
  /\ call' = [call EXCEPT !.tries = @ - 1, !.clean = FALSE]
  /\ UNCHANGED <<lan, device>>

(* No line in time: the query is sent again, or the answer is a silence.   *)
(* The connection may have been found lost, then it is not sent.           *)
Timeout ==
  /\ call.pc = "await"
  /\ \/ /\ call.tries > 0 /\ lan.up
        /\ Write(<<[op |-> "query", what |-> call.query]>>)
        /\ call' = [call EXCEPT !.tries = @ - 1, !.clean = FALSE]
        /\ UNCHANGED lan
     \/ /\ call.tries = 0 \/ ~lan.up
        /\ Answered(Silence)
        /\ lan' = [lan EXCEPT !.buffer = IF AsksError THEN <<>> ELSE @, !.available = Available(Silence)]
        /\ IF AsksError THEN Write(<<[op |-> "query", what |-> ":SYSTem:ERRor?"]>>) ELSE UNCHANGED link
  /\ UNCHANGED device

-----------------------------------------------------------------------------
(* The event loop, when no call blocks the thread: onSocketReadyRead *)
OnSocketReadyRead ==
  /\ Idle /\ link.in # <<>>
  /\ lan' = [lan EXCEPT !.buffer = @ \o link.in]
  /\ link' = [link EXCEPT !.in = <<>>]
  /\ UNCHANGED <<device, call>>

(* The connection is found lost, by the event loop or while a call waits. *)
OnSocketDisconnected ==
  /\ lan.up /\ call.pc \in {"idle", "await"}
  /\ lan' = Disconnected /\ link' = Empty
  /\ UNCHANGED <<device, call>>

(* The generator takes a line.  It may refuse a value, and not answer.     *)
DeviceTakes ==
  /\ link.out # <<>>
  /\ LET l == Head(link.out)
         rest == [link EXCEPT !.out = Tail(@)]
     IN  \/ l.op = "set" /\ device' \in {device, [device EXCEPT ![l.what] = l.value]} /\ link' = rest
         \/ l.op = "reset" /\ device' = [s \in Settings |-> 0] /\ link' = rest
         \/ /\ l.op = "query"
            /\ link' \in {rest, [rest EXCEPT !.in = Append(@,
                  [query |-> l.what, value |-> IF l.what \in Settings THEN device[l.what] ELSE 0])]}
            /\ UNCHANGED device
  /\ UNCHANGED <<lan, call>>

GeneratorNext ==
  \/ \E reached \in BOOLEAN : OpenDevice(reached)
  \/ CloseDevice \/ Reset
  \/ \E s \in Settings, v \in Values : SetValue(s, v)
  \/ \E q \in Settings \cup {"*IDN?"} : GetValue(q)
  \/ Attempt \/ Hear \/ Timeout \/ OnSocketReadyRead \/ OnSocketDisconnected \/ DeviceTakes

(* The waits are bounded in time: the thread goes on whatever happens. *)
GeneratorFairness == WF_genVars(Attempt) /\ WF_genVars(Timeout)

GeneratorSpec == GeneratorInit /\ [][GeneratorNext]_genVars /\ GeneratorFairness

-----------------------------------------------------------------------------
(* Types; a set command makes at most maxRetries attempts and a query is   *)
(* sent again at most the given number of times.                           *)
GeneratorTypeOK ==
  /\ lan \in [up : BOOLEAN, available : BOOLEAN, buffer : Seq(Line)]
  /\ link \in [out : Seq(Sent), in : Seq(Line)]
  /\ device \in [Settings -> Values] /\ call \in Call

(* A set that returns true after it has heard an answer, with no answer of *)
(* an earlier query under way when it asked, leaves the generator within   *)
(* the tolerance of the value: the lines of earlier calls that were read   *)
(* meanwhile do not count.  A silence reads as 0, so it verifies what is   *)
(* within the tolerance of 0 and nothing else.                             *)
Verified(s) == call.value - Tolerance[s] .. call.value + Tolerance[s]
VerifiedIsApplied ==
  [][(call.op = "set" /\ call.pc = "await" /\ call'.pc = "idle" /\ call'.result) =>
       /\ call'.heard /\ call.clean => device[call.what] \in Verified(call.what)
       /\ ~call'.heard => 0 \in Verified(call.what)]_genVars

(* A call that blocks the thread ends, whatever the generator says, also   *)
(* if the connection is lost in the middle.                                *)
CallEnds == ~Idle ~> Idle
=============================================================================
