-------------------------- MODULE GeneratorProofs --------------------------
(***************************************************************************)
(* The set and verify loop of Generator, for every number of attempts and  *)
(* every set of settings and values.                                       *)
(*                                                                         *)
(* The argument: after a set command has asked, with nothing else under    *)
(* way, the query it asks is the last line on its way out and everything   *)
(* that comes in answers it; so the line it reads tells the setting as the *)
(* generator holds it, and nothing changes that before the call returns.   *)
(***************************************************************************)
EXTENDS Generator, SequenceTheorems, TLAPS

(* What a call that blocks the thread can be *)
CallShape ==
  /\ call.pc # "idle" => call.op # "none"
  /\ call.pc = "attempt" => call.op = "set"
  /\ call.op = "set" => call.what \in Settings

(* While a set command waits after a clean query, all that is under way is   *)
(* this query or its answer.                                                 *)
OwnAnswer ==
  call.op = "set" /\ call.pc = "await" /\ call.clean =>
    /\ lan.buffer = <<>>
    /\ \A i \in DOMAIN link.out :
         link.out[i].op = "query" => i = Len(link.out) /\ link.out[i].what = call.query
    /\ link.out # <<>> => link.in = <<>> /\ link.out[Len(link.out)].op = "query"
    /\ \A i \in DOMAIN link.in :
         /\ i = 1 /\ link.in[i].query = call.query
         /\ call.query \in Settings => link.in[i].value = device[call.query]

GeneratorInv == GeneratorTypeOK /\ CallShape /\ OwnAnswer

-----------------------------------------------------------------------------
(* Types *)

LEMMA ConstantTypes ==
  /\ Settings \subseteq Queries /\ "*IDN?" \in Queries /\ ":SYSTem:ERRor?" \in Queries
  /\ 0 \in Values /\ Silence = {}
  /\ MaxAttempts \in Nat /\ 1 \in 0 .. MaxAttempts /\ 0 \in 0 .. MaxAttempts
  /\ Retries \in Nat /\ Retries \in 0 .. Retries /\ 0 \in 0 .. Retries
  /\ NoCall \in Call
<1>1. /\ Settings \subseteq Queries /\ "*IDN?" \in Queries /\ ":SYSTem:ERRor?" \in Queries
  BY DEF Queries
<1>2. /\ 0 \in Values /\ MaxAttempts \in Nat /\ 1 \in 0 .. MaxAttempts /\ 0 \in 0 .. MaxAttempts
      /\ Retries \in Nat /\ Retries \in 0 .. Retries /\ 0 \in 0 .. Retries
  BY GeneratorAssumption
<1>3. NoCall \in Call
  BY <1>1, <1>2 DEF NoCall, Call
<1> QED BY <1>1, <1>2, <1>3 DEF Silence

(* The lines that are written *)
LEMMA WrittenLines ==
  ASSUME NEW q \in Queries, NEW s \in Settings, NEW v \in Values
  PROVE  /\ [op |-> "query", what |-> q] \in Sent
         /\ [op |-> "set", what |-> s, value |-> v] \in Sent
         /\ [op |-> "reset"] \in Sent
         /\ <<[op |-> "query", what |-> q]>> \in Seq(Sent)
         /\ <<[op |-> "set", what |-> s, value |-> v], [op |-> "query", what |-> q]>> \in Seq(Sent)
         /\ <<[op |-> "reset"]>> \in Seq(Sent)
<1>1. /\ [op |-> "query", what |-> q] \in Sent
      /\ [op |-> "set", what |-> s, value |-> v] \in Sent
      /\ [op |-> "reset"] \in Sent
  BY DEF Sent
<1> QED BY <1>1

(* The ends of a call, and of an attempt *)
LEMMA ReturnEffect ==
  ASSUME NEW c \in Call, NEW ok \in BOOLEAN, Return(c, ok)
  PROVE  /\ call' \in Call /\ call'.pc = "idle" /\ call'.op = "none"
         /\ call'.heard = c.heard /\ call'.result = ok
<1>1. call' = [NoCall EXCEPT !.result = ok, !.heard = c.heard, !.calls = c.calls]
  BY DEF Return
<1>2. c.heard \in BOOLEAN /\ c.calls \in Nat
  BY DEF Call
<1>3. NoCall \in Call /\ NoCall.pc = "idle" /\ NoCall.op = "none"
  BY ConstantTypes DEF NoCall
<1> QED BY <1>1, <1>2, <1>3 DEF Call

LEMMA NextAttemptEffect ==
  ASSUME NEW c \in Call, c.op = "set", NextAttempt(c)
  PROVE  /\ call' \in Call
         /\ \/ /\ call'.pc = "idle" /\ call'.op = "none"
               /\ call'.heard = c.heard /\ call'.result = FALSE
            \/ call'.pc = "attempt" /\ call'.op = "set" /\ call'.what = c.what
<1>1. CASE c.attempt < MaxAttempts
  <2> DEFINE k == c.attempt + 1
  <2>1. call' = [c EXCEPT !.pc = "attempt", !.attempt = k]
    BY <1>1 DEF NextAttempt
  <2>2. c.attempt \in 0 .. MaxAttempts /\ MaxAttempts \in Nat
    BY ConstantTypes DEF Call
  <2>3. k \in 0 .. MaxAttempts
    BY <1>1, <2>2
  <2> HIDE DEF k
  <2> QED BY <2>1, <2>3 DEF Call
<1>2. CASE ~(c.attempt < MaxAttempts)
  BY <1>2, ReturnEffect DEF NextAttempt
<1> QED BY <1>1, <1>2

(* What a call does when its query returns with a line or with none: it ends *)
(* - and then a set command has ended with success only on the value it set *)
(* -, or goes on to its next attempt, or asks for the error.                 *)
LEMMA AnsweredEffect ==
  ASSUME call \in Call, CallShape, call.pc = "await",
         NEW line, line = Silence \/ (\E l \in Line : line = {l}), Answered(line)
  PROVE  /\ call' \in Call
         /\ \/ /\ call'.pc = "idle" /\ call'.op = "none"
               /\ call'.heard = (line # Silence)
               /\ call.op = "set" /\ call'.result
                    => /\ call.query = call.what
                       /\ \E v \in Reads(call.query, line) : Near(call.what, v, call.value)
            \/ call.op = "set" /\ call'.pc = "attempt" /\ call'.op = "set" /\ call'.what = call.what
            \/ /\ call.op = "set" /\ call'.pc = "await" /\ call'.op = "set"
               /\ call'.what = call.what /\ call'.query = ":SYSTem:ERRor?"
               /\ call.query = call.what /\ call'.clean = NothingUnderWay
<1> DEFINE heard == [call EXCEPT !.heard = line # Silence]
<1>1. /\ heard \in Call /\ heard.heard = (line # Silence)
      /\ heard.op = call.op /\ heard.what = call.what /\ heard.attempt = call.attempt
      /\ heard.calls = call.calls /\ heard.value = call.value
  BY DEF Call
<1> HIDE DEF heard
<1>3. ASSUME NEW ok \in BOOLEAN, Return(heard, ok)
      PROVE  /\ call' \in Call /\ call'.pc = "idle" /\ call'.op = "none"
             /\ call'.heard = (line # Silence) /\ call'.result = ok
  BY <1>1, <1>3, ReturnEffect
<1>4. ASSUME call.op = "set", NextAttempt(heard)
      PROVE  /\ call' \in Call
             /\ \/ /\ call'.pc = "idle" /\ call'.op = "none"
                   /\ call'.heard = (line # Silence) /\ call'.result = FALSE
                \/ call'.pc = "attempt" /\ call'.op = "set" /\ call'.what = call.what
  BY <1>1, <1>4, NextAttemptEffect
<1>5. ASSUME call.op = "set", call' = Query(":SYSTem:ERRor?", 0, heard)
      PROVE  /\ call' \in Call /\ call'.pc = "await" /\ call'.op = "set"
             /\ call'.what = call.what /\ call'.query = ":SYSTem:ERRor?"
             /\ call'.clean = NothingUnderWay
  <2>1. NothingUnderWay \in BOOLEAN
    BY DEF NothingUnderWay
  <2> QED BY <1>1, <1>5, <2>1, ConstantTypes DEF Query, Call
<1>6. call.op \in {"open", "get", "set"} /\ call.pc = "await"
  BY DEF Call, CallShape
<1>7. CASE call.op \in {"open", "get"}
  BY <1>3, <1>7 DEF Answered, heard
<1>8. CASE call.op = "set" /\ call.query # call.what
  <2>1. NextAttempt(heard)
    BY <1>8 DEF Answered, heard
  <2> QED BY <1>4, <1>8, <2>1
<1>9. CASE call.op = "set" /\ call.query = call.what
  <2>1. PICK v \in Reads(call.query, line) :
          IF Near(call.what, v, call.value) THEN Return(heard, TRUE)
          ELSE IF lan.up /\ lan.available THEN call' = Query(":SYSTem:ERRor?", 0, heard)
               ELSE NextAttempt(heard)
    BY <1>9 DEF Answered, heard
  <2> QED BY <1>3, <1>4, <1>5, <1>9, <2>1
<1> QED BY <1>6, <1>7, <1>8, <1>9

-----------------------------------------------------------------------------
(* The steps *)

LEMMA GeneratorTypes ==
  ASSUME GeneratorTypeOK
  PROVE  /\ lan.up \in BOOLEAN /\ lan.available \in BOOLEAN /\ lan.buffer \in Seq(Line)
         /\ link.out \in Seq(Sent) /\ link.in \in Seq(Line)
         /\ call \in Call /\ call.calls \in Nat /\ call.value \in Values /\ call.query \in Queries
         /\ device \in [Settings -> Values]
BY DEF GeneratorTypeOK, Call

LEMMA DisconnectedTypes ==
  /\ Disconnected \in [up : BOOLEAN, available : BOOLEAN, buffer : Seq(Line)]
  /\ Empty \in [out : Seq(Sent), in : Seq(Line)]
  /\ Disconnected.buffer = <<>> /\ Empty.out = <<>> /\ Empty.in = <<>>
BY DEF Disconnected, Empty

(* A call that begins is well formed, and waits for no set command yet. *)
LEMMA BeginCall ==
  ASSUME GeneratorTypeOK, NEW c \in Call, Begin(c)
  PROVE  /\ call' \in Call /\ call'.op = c.op /\ call'.pc = c.pc /\ call'.what = c.what
         /\ call.pc = "idle"
<1>1. call.calls + 1 \in Nat
  BY GeneratorTypes
<1>2. call' = [c EXCEPT !.calls = call.calls + 1] /\ call.pc = "idle"
  BY DEF Begin, Idle
<1> QED BY <1>1, <1>2 DEF Call

LEMMA OpenStep ==
  ASSUME GeneratorInv, NEW reached \in BOOLEAN, OpenDevice(reached)
  PROVE  GeneratorInv'
<1>1. GeneratorTypeOK /\ device \in [Settings -> Values]
  BY GeneratorTypes DEF GeneratorInv
<1> DEFINE c == [NoCall EXCEPT !.op = "open", !.pc = "await", !.query = "*IDN?",
                              !.tries = Retries, !.clean = TRUE]
<1>2. c \in Call /\ c.op = "open" /\ c.pc = "await" /\ NoCall.op = "none" /\ NoCall.pc = "idle"
  BY ConstantTypes DEF Call, NoCall
<1>3. CASE reached
  <2>1. Begin(c) /\ lan' = [up |-> TRUE, available |-> FALSE, buffer |-> <<>>]
        /\ link' = [Empty EXCEPT !.out = <<[op |-> "query", what |-> "*IDN?"]>>]
        /\ device' = device
    BY <1>3 DEF OpenDevice
  <2> HIDE DEF c
  <2>2. call' \in Call /\ call'.op = "open" /\ call'.pc = "await"
    BY <1>1, <1>2, <2>1, BeginCall
  <2>3. <<[op |-> "query", what |-> "*IDN?"]>> \in Seq(Sent)
    BY DEF Sent, Queries
  <2>4. link' \in [out : Seq(Sent), in : Seq(Line)]
    BY <2>1, <2>3, DisconnectedTypes
  <2> QED BY <1>1, <2>1, <2>2, <2>4 DEF GeneratorInv, GeneratorTypeOK, CallShape, OwnAnswer
<1>4. CASE ~reached
  <2>1. Begin(NoCall) /\ lan' = Disconnected /\ link' = Empty /\ device' = device
    BY <1>4 DEF OpenDevice
  <2>2. call' \in Call /\ call'.op = "none" /\ call'.pc = "idle"
    BY <1>1, <1>2, <2>1, BeginCall, ConstantTypes
  <2> QED BY <1>1, <2>1, <2>2, DisconnectedTypes
    DEF GeneratorInv, GeneratorTypeOK, CallShape, OwnAnswer
<1> QED BY <1>3, <1>4

LEMMA CloseStep == GeneratorInv /\ CloseDevice => GeneratorInv'
<1> SUFFICES ASSUME GeneratorInv, CloseDevice PROVE GeneratorInv'
  OBVIOUS
<1>1. GeneratorTypeOK /\ device \in [Settings -> Values]
  BY GeneratorTypes DEF GeneratorInv
<1>2. Begin(NoCall) /\ lan' = Disconnected /\ link' = Empty /\ device' = device
  BY DEF CloseDevice
<1>3. call' \in Call /\ call'.op = "none" /\ call'.pc = "idle"
  BY <1>1, <1>2, BeginCall, ConstantTypes DEF NoCall
<1> QED BY <1>1, <1>2, <1>3, DisconnectedTypes DEF GeneratorInv, GeneratorTypeOK, CallShape, OwnAnswer

LEMMA SetStep ==
  ASSUME GeneratorInv, NEW s \in Settings, NEW v \in Values, SetValue(s, v)
  PROVE  GeneratorInv'
<1> DEFINE c == [NoCall EXCEPT !.op = "set", !.pc = "attempt", !.what = s, !.value = v, !.attempt = 1]
<1>1. c \in Call /\ c.op = "set" /\ c.pc = "attempt" /\ c.what = s
  BY ConstantTypes DEF Call, NoCall
<1>2. GeneratorTypeOK /\ Begin(c) /\ UNCHANGED <<lan, link, device>>
  BY DEF SetValue, GeneratorInv
<1> HIDE DEF c
<1>3. call' \in Call /\ call'.op = "set" /\ call'.pc = "attempt" /\ call'.what = s
  BY <1>1, <1>2, BeginCall
<1> QED BY <1>2, <1>3 DEF GeneratorInv, GeneratorTypeOK, CallShape, OwnAnswer

(* Writing and dropping the read buffer keep the types. *)
LEMMA WriteEffect ==
  ASSUME GeneratorTypeOK, NEW lines \in Seq(Sent), Write(lines)
  PROVE  /\ link' \in [out : Seq(Sent), in : Seq(Line)]
         /\ link'.out = link.out \o lines /\ link'.in = link.in
<1>1. link.out \o lines \in Seq(Sent)
  BY GeneratorTypes
<1> QED BY <1>1 DEF Write, GeneratorTypeOK

LEMMA DropEffect ==
  ASSUME GeneratorTypeOK, DropBuffer
  PROVE  /\ lan' \in [up : BOOLEAN, available : BOOLEAN, buffer : Seq(Line)]
         /\ lan'.buffer = <<>> /\ lan'.up = lan.up
<1>1. <<>> \in Seq(Line)
  OBVIOUS
<1>2. lan \in [up : BOOLEAN, available : BOOLEAN, buffer : Seq(Line)]
  BY DEF GeneratorTypeOK
<1>3. lan' = [lan EXCEPT !.buffer = <<>>]
  BY DEF DropBuffer
<1> QED BY <1>1, <1>2, <1>3

LEMMA GetStep ==
  ASSUME GeneratorInv, NEW q \in Settings \cup {"*IDN?"}, GetValue(q)
  PROVE  GeneratorInv'
<1> DEFINE c0 == [NoCall EXCEPT !.op = "get"]
           c  == Query(q, Retries, c0)
<1>1. q \in Queries /\ NothingUnderWay \in BOOLEAN
  BY DEF Queries, NothingUnderWay
<1>2. c0 \in Call /\ c0.op = "get"
  BY ConstantTypes DEF Call, NoCall
<1> HIDE DEF c0
<1>3. c \in Call /\ c.op = "get"
  BY <1>1, <1>2, ConstantTypes DEF Call, Query
<1>4. /\ GeneratorTypeOK /\ Begin(c) /\ DropBuffer
      /\ Write(<<[op |-> "query", what |-> q]>>) /\ device' = device
  BY DEF GetValue, GeneratorInv, c0
<1> HIDE DEF c
<1>5. call' \in Call /\ call'.op = "get"
  BY <1>3, <1>4, BeginCall
<1>6. <<[op |-> "query", what |-> q]>> \in Seq(Sent)
  BY <1>1 DEF Sent
<1>7. link' \in [out : Seq(Sent), in : Seq(Line)]
  BY <1>4, <1>6, WriteEffect
<1>8. call'.pc \in {"idle", "await"}
  BY <1>3, <1>4, BeginCall DEF c, Query, Call
<1> QED BY <1>4, <1>5, <1>7, <1>8, DropEffect DEF GeneratorInv, GeneratorTypeOK, CallShape, OwnAnswer

LEMMA ResetStep == GeneratorInv /\ Reset => GeneratorInv'
<1> SUFFICES ASSUME GeneratorInv, Reset PROVE GeneratorInv'
  OBVIOUS
<1>1. /\ GeneratorTypeOK /\ Begin(NoCall) /\ Write(<<[op |-> "reset"]>>) /\ UNCHANGED <<lan, device>>
  BY DEF Reset, GeneratorInv
<1>2. call' \in Call /\ call'.op = "none" /\ call'.pc = "idle"
  BY <1>1, BeginCall, ConstantTypes DEF NoCall
<1>3. <<[op |-> "reset"]>> \in Seq(Sent)
  BY DEF Sent
<1>4. link' \in [out : Seq(Sent), in : Seq(Line)]
  BY <1>1, <1>3, WriteEffect
<1> QED BY <1>1, <1>2, <1>4 DEF GeneratorInv, GeneratorTypeOK, CallShape, OwnAnswer

(* An attempt asks with nothing else under way, or knows that it did not. *)
LEMMA AttemptStep == GeneratorInv /\ Attempt => GeneratorInv'
<1> SUFFICES ASSUME GeneratorInv, Attempt PROVE GeneratorInv'
  OBVIOUS
<1>1. /\ GeneratorTypeOK /\ CallShape /\ call.pc = "attempt" /\ call.op = "set"
      /\ call.what \in Settings /\ call \in Call /\ device' = device
  BY DEF Attempt, GeneratorInv, CallShape, GeneratorTypeOK
<1>2. CASE lan.up
  <2> DEFINE new == <<[op |-> "set", what |-> call.what, value |-> call.value],
                      [op |-> "query", what |-> call.what]>>
  <2>1. DropBuffer /\ Write(new) /\ call' = Query(call.what, Retries, call)
    BY <1>2 DEF Attempt
  <2>2. /\ new \in Seq(Sent) /\ Len(new) = 2 /\ new[1].op = "set"
        /\ new[2].op = "query" /\ new[2].what = call.what
    BY <1>1, GeneratorTypes, WrittenLines, ConstantTypes
  <2> HIDE DEF new
  <2>3. /\ link' \in [out : Seq(Sent), in : Seq(Line)]
        /\ link'.out = link.out \o new /\ link'.in = link.in
    BY <1>1, <2>1, <2>2, WriteEffect
  <2>4. /\ lan' \in [up : BOOLEAN, available : BOOLEAN, buffer : Seq(Line)] /\ lan'.buffer = <<>>
    BY <1>1, <2>1, DropEffect
  <2>5. /\ call' \in Call /\ call'.op = "set" /\ call'.pc = "await" /\ call'.what = call.what
        /\ call'.query = call.what /\ call'.clean = NothingUnderWay
    <3>1. NothingUnderWay \in BOOLEAN /\ call.what \in Queries
      BY <1>1, ConstantTypes DEF NothingUnderWay
    <3> QED BY <1>1, <2>1, <3>1, ConstantTypes DEF Query, Call
  <2>6. OwnAnswer'
    <3> SUFFICES ASSUME NothingUnderWay PROVE OwnAnswer'
      BY <2>5 DEF OwnAnswer
    <3>1. link.in = <<>> /\ \A i \in DOMAIN link.out : link.out[i].op # "query"
      BY DEF NothingUnderWay
    <3>2. link.out \in Seq(Sent) /\ Len(link'.out) = Len(link.out) + 2
      <4>1. link.out \in Seq(Sent)
        BY <1>1, GeneratorTypes
      <4>2. new \in Seq(Sent) /\ Len(new) = 2 /\ link'.out = link.out \o new
        BY <2>2, <2>3
      <4>3. Len(link.out \o new) = Len(link.out) + Len(new)
        BY <4>1, <4>2, ConcatProperties
      <4> QED BY <4>1, <4>2, <4>3
    <3>3. \A i \in DOMAIN link'.out : link'.out[i].op = "query" => i = Len(link'.out)
      <4> SUFFICES ASSUME NEW i \in DOMAIN link'.out, link'.out[i].op = "query"
                   PROVE  i = Len(link'.out)
        OBVIOUS
      <4>1. i \in 1 .. Len(link.out) + 2 /\ Len(link.out) \in Nat
        BY <2>3, <3>2
      <4>2. CASE i \in 1 .. Len(link.out)
        BY <2>2, <2>3, <3>1, <3>2, <4>2
      <4>3. CASE i = Len(link.out) + 1
        <5>1. link'.out[i] = new[1]
          BY <2>2, <2>3, <3>2, <4>1, <4>3
        <5> QED BY <2>2, <5>1
      <4> QED BY <3>2, <4>1, <4>2, <4>3
    <3>4. link'.out[Len(link'.out)] = new[2] /\ link'.out # <<>>
      BY <2>2, <2>3, <3>2
    <3>5. DOMAIN link'.in = {}
      BY <2>3, <3>1
    <3> QED BY <2>2, <2>3, <2>4, <2>5, <3>1, <3>3, <3>4, <3>5 DEF OwnAnswer
  <2> QED BY <1>1, <2>3, <2>4, <2>5, <2>6 DEF GeneratorInv, GeneratorTypeOK, CallShape
<1>3. CASE ~lan.up
  <2>1. NextAttempt(call) /\ UNCHANGED <<lan, link>>
    BY <1>3 DEF Attempt
  <2>2. call' \in Call /\ (call'.op = "set" => call'.pc = "attempt" /\ call'.what = call.what)
        /\ (call'.pc # "idle" => call'.op = "set")
    BY <1>1, <2>1, NextAttemptEffect
  <2> QED BY <1>1, <2>1, <2>2 DEF GeneratorInv, GeneratorTypeOK, CallShape, OwnAnswer
<1> QED BY <1>2, <1>3

(* What follows when a wait ends with a line or a silence and nothing is     *)
(* left in the read buffer that the next query could take for its answer.    *)
LEMMA AnsweredShape ==
  ASSUME GeneratorInv, call.pc = "await",
         NEW line, line = Silence \/ (\E l \in Line : line = {l}), Answered(line)
  PROVE  /\ call' \in Call /\ CallShape'
         /\ call'.op = "set" /\ call'.pc = "await"
              => /\ AsksError /\ call'.query = ":SYSTem:ERRor?" /\ call'.clean = NothingUnderWay
                 /\ call.op = "set" /\ call.query = call.what
<1>1. call \in Call /\ CallShape
  BY DEF GeneratorInv, GeneratorTypeOK
<1>2. /\ call' \in Call
      /\ \/ call'.pc = "idle" /\ call'.op = "none"
         \/ call.op = "set" /\ call'.pc = "attempt" /\ call'.op = "set" /\ call'.what = call.what
         \/ /\ call.op = "set" /\ call'.pc = "await" /\ call'.op = "set"
            /\ call'.what = call.what /\ call'.query = ":SYSTem:ERRor?"
            /\ call.query = call.what /\ call'.clean = NothingUnderWay
  BY <1>1, AnsweredEffect
<1>3. call.op = "set" => call.what \in Settings /\ call.what # ":SYSTem:ERRor?"
  BY <1>1, GeneratorAssumption DEF CallShape
<1>4. CallShape'
  BY <1>2, <1>3 DEF CallShape
<1> QED BY <1>2, <1>3, <1>4 DEF AsksError

LEMMA HearStep == GeneratorInv /\ Hear => GeneratorInv'
<1> SUFFICES ASSUME GeneratorInv, Hear PROVE GeneratorInv'
  OBVIOUS
<1> DEFINE lines == lan.buffer \o link.in
           ask   == [op |-> "query", what |-> ":SYSTem:ERRor?"]
<1>1. /\ lan \in [up : BOOLEAN, available : BOOLEAN, buffer : Seq(Line)]
      /\ lan.buffer \in Seq(Line) /\ link.in \in Seq(Line) /\ link.out \in Seq(Sent)
      /\ lan.available \in BOOLEAN /\ lan.up \in BOOLEAN
  BY GeneratorTypes DEF GeneratorInv, GeneratorTypeOK
<1>2. lines \in Seq(Line) /\ lines # <<>> /\ call.pc = "await"
  BY <1>1 DEF Hear
<1>3. Head(lines) \in Line /\ Tail(lines) \in Seq(Line)
  BY <1>2, HeadTailProperties
<1>4. Answered({Head(lines)})
  BY DEF Hear
<1>5. /\ lan' = [lan EXCEPT !.buffer = IF AsksError THEN <<>> ELSE Tail(lines),
                           !.available = Available({Head(lines)})]
      /\ link' = [out |-> IF AsksError THEN Append(link.out, ask) ELSE link.out, in |-> <<>>]
      /\ device' = device
  BY DEF Hear
<1> HIDE DEF lines
<1>6. /\ call' \in Call /\ CallShape'
      /\ call'.op = "set" /\ call'.pc = "await"
           => /\ AsksError /\ call'.query = ":SYSTem:ERRor?" /\ call'.clean = NothingUnderWay
              /\ call.op = "set" /\ call.query = call.what
  BY <1>2, <1>3, <1>4, AnsweredShape
<1>7. Available({Head(lines)}) \in BOOLEAN
  BY <1>1 DEF Available
<1>8. lan' \in [up : BOOLEAN, available : BOOLEAN, buffer : Seq(Line)] /\ (AsksError => lan'.buffer = <<>>)
  <2> DEFINE b == IF AsksError THEN <<>> ELSE Tail(lines)
             av == Available({Head(lines)})
  <2>1. b \in Seq(Line) /\ av \in BOOLEAN /\ (AsksError => b = <<>>)
    BY <1>3, <1>7
  <2>2. lan' = [lan EXCEPT !.buffer = b, !.available = av]
    BY <1>5
  <2> HIDE DEF b, av
  <2> QED BY <1>1, <2>1, <2>2
<1>9. ask \in Sent /\ ask.op = "query" /\ ask.what = ":SYSTem:ERRor?"
  BY DEF Sent, Queries
<1> HIDE DEF ask
<1>10. /\ link' \in [out : Seq(Sent), in : Seq(Line)] /\ link'.in = <<>>
       /\ AsksError => link'.out = Append(link.out, ask)
  BY <1>1, <1>5, <1>9
<1>11. OwnAnswer'
  <2> SUFFICES ASSUME call'.op = "set", call'.pc = "await", NothingUnderWay
               PROVE  OwnAnswer'
    BY <1>6 DEF OwnAnswer
  <2>1. \A i \in DOMAIN link.out : link.out[i].op # "query"
    BY DEF NothingUnderWay
  <2>2. link'.out = Append(link.out, ask) /\ lan'.buffer = <<>> /\ call'.query = ":SYSTem:ERRor?"
    BY <1>6, <1>8, <1>10
  <2>3. /\ \A i \in DOMAIN link'.out : link'.out[i].op = "query" => i = Len(link'.out)
        /\ link'.out[Len(link'.out)] = ask
    BY <1>1, <1>9, <2>1, <2>2
  <2> QED BY <1>9, <1>10, <2>2, <2>3 DEF OwnAnswer
<1> QED BY <1>6, <1>8, <1>10, <1>11, <1>5, GeneratorTypes DEF GeneratorInv, GeneratorTypeOK

LEMMA TimeoutStep == GeneratorInv /\ Timeout => GeneratorInv'
<1> SUFFICES ASSUME GeneratorInv, Timeout PROVE GeneratorInv'
  OBVIOUS
<1>1. /\ lan \in [up : BOOLEAN, available : BOOLEAN, buffer : Seq(Line)]
      /\ lan.available \in BOOLEAN /\ lan.up \in BOOLEAN /\ lan.buffer \in Seq(Line)
      /\ link.out \in Seq(Sent) /\ link.in \in Seq(Line)
      /\ call \in Call /\ call.pc = "await" /\ call.query \in Queries
      /\ device' = device /\ GeneratorTypeOK
  BY GeneratorTypes DEF GeneratorInv, GeneratorTypeOK, Timeout
<1>2. CASE /\ call.tries > 0 /\ lan.up
           /\ Write(<<[op |-> "query", what |-> call.query]>>)
           /\ call' = [call EXCEPT !.tries = @ - 1, !.clean = FALSE]
           /\ UNCHANGED lan
  <2>1. <<[op |-> "query", what |-> call.query]>> \in Seq(Sent)
    BY <1>1 DEF Sent
  <2>2. link' \in [out : Seq(Sent), in : Seq(Line)]
    BY <1>1, <1>2, <2>1, WriteEffect
  <2>3. call.tries - 1 \in 0 .. Retries
    BY <1>1, <1>2, GeneratorAssumption DEF Call
  <2>4. /\ call' \in Call /\ call'.clean = FALSE
        /\ call'.op = call.op /\ call'.pc = call.pc /\ call'.what = call.what
    BY <1>1, <1>2, <2>3 DEF Call
  <2> QED BY <1>1, <1>2, <2>2, <2>4 DEF GeneratorInv, GeneratorTypeOK, CallShape, OwnAnswer
<1>3. CASE /\ call.tries = 0 \/ ~lan.up
           /\ Answered(Silence)
           /\ lan' = [lan EXCEPT !.buffer = IF AsksError THEN <<>> ELSE @,
                                 !.available = Available(Silence)]
           /\ IF AsksError THEN Write(<<[op |-> "query", what |-> ":SYSTem:ERRor?"]>>)
              ELSE UNCHANGED link
  <2> DEFINE ask == <<[op |-> "query", what |-> ":SYSTem:ERRor?"]>>
  <2>1. /\ call' \in Call /\ CallShape'
        /\ call'.op = "set" /\ call'.pc = "await"
             => /\ AsksError /\ call'.query = ":SYSTem:ERRor?" /\ call'.clean = NothingUnderWay
                /\ call.op = "set" /\ call.query = call.what
    BY <1>1, <1>3, AnsweredShape
  <2>2. Available(Silence) \in BOOLEAN
    BY <1>1 DEF Available
  <2>3. /\ lan' \in [up : BOOLEAN, available : BOOLEAN, buffer : Seq(Line)]
        /\ AsksError => lan'.buffer = <<>>
    <3> DEFINE b == IF AsksError THEN <<>> ELSE lan.buffer
               av == Available(Silence)
    <3>1. b \in Seq(Line) /\ av \in BOOLEAN /\ (AsksError => b = <<>>)
      BY <1>1, <2>2
    <3>2. lan' = [lan EXCEPT !.buffer = b, !.available = av]
      BY <1>3
    <3> HIDE DEF b, av
    <3> QED BY <1>1, <3>1, <3>2
  <2>4. /\ ask \in Seq(Sent) /\ Len(ask) = 1
        /\ ask[1].op = "query" /\ ask[1].what = ":SYSTem:ERRor?"
    BY DEF Sent, Queries
  <2>5. AsksError => Write(ask)
    BY <1>3
  <2>6. ~AsksError => UNCHANGED link
    BY <1>3
  <2> HIDE DEF ask
  <2>7. AsksError => /\ link' \in [out : Seq(Sent), in : Seq(Line)]
                     /\ link'.out = link.out \o ask /\ link'.in = link.in
    BY <1>1, <2>4, <2>5, WriteEffect
  <2>8. link' \in [out : Seq(Sent), in : Seq(Line)]
    BY <1>1, <2>6, <2>7 DEF GeneratorTypeOK
  <2>9. OwnAnswer'
    <3> SUFFICES ASSUME call'.op = "set", call'.pc = "await", NothingUnderWay
                 PROVE  OwnAnswer'
      BY <2>1 DEF OwnAnswer
    <3>1. link.in = <<>> /\ \A i \in DOMAIN link.out : link.out[i].op # "query"
      BY DEF NothingUnderWay
    <3>2. /\ link'.out = link.out \o ask /\ link'.in = <<>> /\ lan'.buffer = <<>>
          /\ call'.query = ":SYSTem:ERRor?"
      BY <2>1, <2>3, <2>7, <3>1
    <3>3. Len(link'.out) = Len(link.out) + 1 /\ link'.out \in Seq(Sent)
      <4>1. link.out \in Seq(Sent) /\ ask \in Seq(Sent)
        BY <1>1, <2>4
      <4>2. Len(link.out \o ask) = Len(link.out) + Len(ask)
        BY <4>1, ConcatProperties
      <4>3. link.out \o ask \in Seq(Sent)
        BY <4>1, ConcatProperties
      <4> QED BY <2>4, <3>2, <4>2, <4>3
    <3>4. /\ \A i \in DOMAIN link'.out : link'.out[i].op = "query" => i = Len(link'.out)
          /\ link'.out[Len(link'.out)] = ask[1]
      BY <1>1, <2>4, <3>1, <3>2, <3>3
    <3>5. DOMAIN link'.in = {} /\ link'.out # <<>>
      BY <3>2, <3>3
    <3> QED BY <2>4, <3>2, <3>4, <3>5 DEF OwnAnswer
  <2> QED BY <1>1, <2>1, <2>3, <2>8, <2>9 DEF GeneratorInv, GeneratorTypeOK
<1> QED BY <1>2, <1>3 DEF Timeout

LEMMA ReadStep == GeneratorInv /\ OnSocketReadyRead => GeneratorInv'
<1> SUFFICES ASSUME GeneratorInv, OnSocketReadyRead PROVE GeneratorInv'
  OBVIOUS
<1>1. /\ lan \in [up : BOOLEAN, available : BOOLEAN, buffer : Seq(Line)]
      /\ link \in [out : Seq(Sent), in : Seq(Line)]
  BY DEF GeneratorInv, GeneratorTypeOK
<1> DEFINE b == lan.buffer \o link.in
<1>2. b \in Seq(Line) /\ <<>> \in Seq(Line)
  BY <1>1, ConcatProperties
<1>3. /\ lan' = [lan EXCEPT !.buffer = b] /\ link' = [link EXCEPT !.in = <<>>]
      /\ UNCHANGED <<device, call>> /\ call.pc = "idle"
  BY DEF OnSocketReadyRead, Idle
<1> HIDE DEF b
<1>4. /\ lan' \in [up : BOOLEAN, available : BOOLEAN, buffer : Seq(Line)]
      /\ link' \in [out : Seq(Sent), in : Seq(Line)]
  BY <1>1, <1>2, <1>3
<1> QED BY <1>3, <1>4 DEF GeneratorInv, GeneratorTypeOK, CallShape, OwnAnswer

LEMMA LostStep == GeneratorInv /\ OnSocketDisconnected => GeneratorInv'
BY DisconnectedTypes DEF OnSocketDisconnected, GeneratorInv, GeneratorTypeOK, CallShape, OwnAnswer

(* The generator takes the lines in order: what a set command wrote before   *)
(* its query has been taken when the query is, and nothing comes after it.   *)
LEMMA DeviceStep == GeneratorInv /\ DeviceTakes => GeneratorInv'
<1> SUFFICES ASSUME GeneratorInv, DeviceTakes PROVE GeneratorInv'
  OBVIOUS
<1> DEFINE l    == Head(link.out)
           rest == [link EXCEPT !.out = Tail(@)]
           ans  == [query |-> l.what, value |-> IF l.what \in Settings THEN device[l.what] ELSE 0]
           heard == [rest EXCEPT !.in = Append(@, ans)]
<1>1. /\ link \in [out : Seq(Sent), in : Seq(Line)]
      /\ link.out \in Seq(Sent) /\ link.in \in Seq(Line) /\ device \in [Settings -> Values]
      /\ link.out # <<>> /\ UNCHANGED <<lan, call>>
  BY GeneratorTypes DEF GeneratorInv, GeneratorTypeOK, DeviceTakes
<1>2. l \in Sent /\ l = link.out[1] /\ Tail(link.out) \in Seq(Sent)
      /\ Len(Tail(link.out)) = Len(link.out) - 1
      /\ \A i \in 1 .. Len(link.out) - 1 : Tail(link.out)[i] = link.out[i + 1]
  BY <1>1, HeadTailProperties
<1>3. /\ rest \in [out : Seq(Sent), in : Seq(Line)]
      /\ rest.out = Tail(link.out) /\ rest.in = link.in
  BY <1>1, <1>2
<1>4. \/ /\ l.op = "set" /\ link' = rest
         /\ device' \in {device, [device EXCEPT ![l.what] = l.value]}
      \/ l.op = "reset" /\ device' = [s \in Settings |-> 0] /\ link' = rest
      \/ l.op = "query" /\ link' \in {rest, heard} /\ device' = device
  BY DEF DeviceTakes
<1>5. l.op = "query" => /\ ans \in Line /\ ans.query = l.what
                        /\ l.what \in Settings => ans.value = device[l.what]
  <2> SUFFICES ASSUME l.op = "query"
               PROVE  /\ ans \in Line /\ ans.query = l.what
                      /\ l.what \in Settings => ans.value = device[l.what]
    OBVIOUS
  <2>1. l.what \in Queries
    BY <1>2 DEF Sent
  <2> HIDE DEF l
  <2>2. (IF l.what \in Settings THEN device[l.what] ELSE 0) \in Values
    BY <1>1, ConstantTypes
  <2> QED BY <2>1, <2>2 DEF Line
<1>6. l.op = "set" => l.value \in Values
  BY <1>2 DEF Sent
<1> HIDE DEF l, ans
<1>7. l.op = "query" => /\ heard \in [out : Seq(Sent), in : Seq(Line)]
                        /\ heard.out = Tail(link.out) /\ heard.in = Append(link.in, ans)
  <2> SUFFICES ASSUME l.op = "query"
               PROVE  /\ heard \in [out : Seq(Sent), in : Seq(Line)]
                      /\ heard.out = Tail(link.out) /\ heard.in = Append(link.in, ans)
    OBVIOUS
  <2> DEFINE nin == Append(link.in, ans)
  <2>1. nin \in Seq(Line)
    BY <1>1, <1>5
  <2>2. heard = [rest EXCEPT !.in = nin]
    BY <1>3
  <2> HIDE DEF nin, heard, rest
  <2>3. /\ heard \in [out : Seq(Sent), in : Seq(Line)]
        /\ heard.out = rest.out /\ heard.in = nin
    BY <1>3, <2>1, <2>2
  <2> QED BY <1>3, <2>3 DEF nin
<1> HIDE DEF rest, heard
<1>8. /\ link' \in [out : Seq(Sent), in : Seq(Line)] /\ link'.out = Tail(link.out)
      /\ \/ link'.in = link.in
         \/ l.op = "query" /\ link'.in = Append(link.in, ans)
  BY <1>3, <1>4, <1>7
<1>9. device' \in [Settings -> Values] /\ (l.op = "query" => device' = device)
  BY <1>1, <1>4, <1>6, ConstantTypes
<1>10. OwnAnswer'
  <2> SUFFICES ASSUME call.op = "set", call.pc = "await", call.clean PROVE OwnAnswer'
    BY <1>1 DEF OwnAnswer
  <2>1. /\ lan.buffer = <<>> /\ link.in = <<>> /\ link.out[Len(link.out)].op = "query"
        /\ \A i \in DOMAIN link.out :
             link.out[i].op = "query" => i = Len(link.out) /\ link.out[i].what = call.query
    BY <1>1 DEF OwnAnswer, GeneratorInv
  <2>2. CASE Len(link.out) = 1
    <3>1. l.op = "query" /\ l.what = call.query
      BY <1>1, <1>2, <2>1, <2>2
    <3>2. link'.out = <<>>
      BY <1>2, <1>8, <2>2
    <3>3. \/ link'.in = <<>>
          \/ link'.in = <<ans>>
      BY <1>5, <1>8, <2>1, <3>1
    <3>4. \A i \in DOMAIN link'.in : i = 1 /\ link'.in[i] = ans
      BY <3>3
    <3>5. ans.query = call.query /\ (call.query \in Settings => ans.value = device'[call.query])
      BY <1>5, <1>9, <3>1
    <3> QED BY <1>1, <2>1, <3>2, <3>4, <3>5 DEF OwnAnswer
  <2>3. CASE Len(link.out) # 1
    <3>1. Len(link.out) \in Nat /\ Len(link.out) > 1
      <4>1. Len(link.out) \in Nat \ {0}
        BY <1>1, EmptySeq
      <4> DEFINE n == Len(link.out)
      <4>2. n \in Nat /\ n # 0 /\ n # 1
        BY <2>3, <4>1
      <4> HIDE DEF n
      <4>3. n > 1
        BY <4>2
      <4> QED BY <4>2, <4>3 DEF n
    <3>2. l.op # "query"
      BY <1>1, <1>2, <2>1, <3>1
    <3>3. link'.in = <<>>
      BY <1>8, <2>1, <3>2
    <3>4. /\ Len(link'.out) = Len(link.out) - 1 /\ DOMAIN link'.out = 1 .. Len(link'.out)
          /\ \A i \in DOMAIN link'.out : link'.out[i] = link.out[i + 1] /\ i + 1 \in DOMAIN link.out
      BY <1>1, <1>2, <1>8, <3>1
    <3>5. /\ \A i \in DOMAIN link'.out :
               link'.out[i].op = "query" => i = Len(link'.out) /\ link'.out[i].what = call.query
          /\ link'.out[Len(link'.out)].op = "query"
      <4>1. DOMAIN link.out = 1 .. Len(link.out)
        BY <1>1
      <4>2. ASSUME NEW i \in DOMAIN link'.out, link'.out[i].op = "query"
            PROVE  i = Len(link'.out) /\ link'.out[i].what = call.query
        <5>1. i + 1 \in DOMAIN link.out /\ link'.out[i] = link.out[i + 1] /\ i \in Nat
          BY <3>1, <3>4
        <5>2. i + 1 = Len(link.out) /\ link.out[i + 1].what = call.query
          BY <2>1, <4>2, <5>1
        <5> QED BY <3>1, <3>4, <5>1, <5>2
      <4>3. /\ Len(link'.out) \in DOMAIN link'.out
            /\ Len(link'.out) + 1 = Len(link.out)
        BY <3>1, <3>4
      <4>4. link'.out[Len(link'.out)] = link.out[Len(link.out)]
        BY <3>4, <4>3
      <4> QED BY <2>1, <4>2, <4>4
    <3>6. DOMAIN link'.in = {}
      BY <3>3
    <3> QED BY <1>1, <2>1, <3>3, <3>5, <3>6 DEF OwnAnswer
  <2> QED BY <2>2, <2>3
<1> QED BY <1>1, <1>8, <1>9, <1>10 DEF GeneratorInv, GeneratorTypeOK, CallShape

LEMMA GeneratorInitInv == GeneratorInit => GeneratorInv
BY DisconnectedTypes, ConstantTypes
DEF GeneratorInit, GeneratorInv, GeneratorTypeOK, CallShape, OwnAnswer, NoCall

LEMMA GeneratorStepInv == GeneratorInv /\ [GeneratorNext]_genVars => GeneratorInv'
<1> SUFFICES ASSUME GeneratorInv, [GeneratorNext]_genVars PROVE GeneratorInv'
  OBVIOUS
<1>1. CASE UNCHANGED genVars
  BY <1>1 DEF genVars, GeneratorInv, GeneratorTypeOK, CallShape, OwnAnswer
<1>2. CASE GeneratorNext
  BY <1>2, OpenStep, CloseStep, SetStep, GetStep, ResetStep, AttemptStep, HearStep, TimeoutStep,
     ReadStep, LostStep, DeviceStep
  DEF GeneratorNext
<1> QED BY <1>1, <1>2

-----------------------------------------------------------------------------
(* A set command makes no more attempts and sends no query more often than   *)
(* its limits allow (verifySetCommand, queryScpiCommand); the state of the   *)
(* connection and of the call stays what these methods expect.               *)
THEOREM GeneratorInvariance == GeneratorSpec => []GeneratorInv
  BY GeneratorInitInv, GeneratorStepInv, PTL DEF GeneratorSpec

(* The read buffer, the two directions of the connection and the call always *)
(* hold what the code can put there.                                         *)
THEOREM GeneratorTyped == GeneratorSpec => []GeneratorTypeOK
<1>1. GeneratorInv => GeneratorTypeOK
  BY DEF GeneratorInv
<1> QED BY <1>1, GeneratorInvariance, PTL

(* A value that is near to the one that was set is within its tolerance.     *)
LEMMA NearIsVerified ==
  ASSUME NEW s \in Settings, NEW v \in Values, call.value \in Values, Near(s, v, call.value)
  PROVE  v \in Verified(s)
<1>1. v \in Int /\ call.value \in Int /\ Tolerance[s] \in Nat
  BY GeneratorAssumption
<1> DEFINE t == Tolerance[s]
<1>2. t \in Nat /\ v - call.value \in -t .. t
  BY <1>1 DEF Near
<1> HIDE DEF t
<1>3. v \in call.value - t .. call.value + t
  BY <1>1, <1>2
<1> QED BY <1>3 DEF Verified, t

(* A set command that has heard an answer to a clean query and reports       *)
(* success leaves the generator within the tolerance of the value; a         *)
(* generator that says nothing verifies only what is that near to OFF and 0. *)
THEOREM VerifiedSetIsApplied == GeneratorSpec => VerifiedIsApplied
<1>1. ASSUME GeneratorInv, [GeneratorNext]_genVars
      PROVE  [(call.op = "set" /\ call.pc = "await" /\ call'.pc = "idle" /\ call'.result) =>
                /\ call'.heard /\ call.clean => device[call.what] \in Verified(call.what)
                /\ ~call'.heard => 0 \in Verified(call.what)]_genVars
  <2> SUFFICES ASSUME GeneratorNext, call.op = "set", call.pc = "await",
                      call'.pc = "idle", call'.result
               PROVE  /\ call'.heard /\ call.clean => device[call.what] \in Verified(call.what)
                      /\ ~call'.heard => 0 \in Verified(call.what)
    BY <1>1
  <2>1. call \in Call /\ CallShape /\ call.what \in Settings /\ call.value \in Values
    BY <1>1, GeneratorTypes DEF GeneratorInv, CallShape, GeneratorTypeOK
  <2>2. Hear \/ Timeout
    BY DEF GeneratorNext, OpenDevice, CloseDevice, SetValue, GetValue, Reset, Begin, Idle, Attempt,
           OnSocketReadyRead, OnSocketDisconnected, DeviceTakes
  <2>3. CASE Hear
    <3> DEFINE lines == lan.buffer \o link.in
    <3>1. lines # <<>> /\ Answered({Head(lines)})
      BY <2>3 DEF Hear
    <3>2. lan.buffer \in Seq(Line) /\ link.in \in Seq(Line) /\ lines \in Seq(Line)
      BY <1>1, GeneratorTypes, ConcatProperties DEF GeneratorInv
    <3> HIDE DEF lines
    <3>3. Head(lines) \in Line /\ Head(lines) = lines[1]
      BY <3>1, <3>2, HeadTailProperties
    <3>4. /\ call'.heard /\ call.query = call.what
          /\ \E v \in Reads(call.query, {Head(lines)}) : Near(call.what, v, call.value)
      BY <2>1, <3>1, <3>3, AnsweredEffect DEF Silence
    <3>5. ASSUME call.clean PROVE device[call.what] \in Verified(call.what)
      <4>1. lines = link.in
        <5>1. lan.buffer = <<>>
          BY <1>1, <3>5 DEF GeneratorInv, OwnAnswer
        <5> QED BY <3>2, <5>1, ConcatEmptySeq DEF lines
      <4>2. 1 \in DOMAIN link.in
        BY <3>1, <3>2, <4>1
      <4>3. link.in[1].query = call.query /\ link.in[1].value = device[call.what]
        BY <1>1, <2>1, <3>4, <3>5, <4>2 DEF GeneratorInv, OwnAnswer
      <4>4. Reads(call.query, {Head(lines)}) = {device[call.what]}
        BY <3>3, <4>1, <4>3 DEF Reads, Silence
      <4>5. device[call.what] \in Values
        BY <1>1, <2>1 DEF GeneratorInv, GeneratorTypeOK
      <4> QED BY <2>1, <3>4, <4>4, <4>5, NearIsVerified
    <3> QED BY <3>4, <3>5
  <2>4. CASE Timeout
    <3>1. Answered(Silence)
      <4>1. [call EXCEPT !.tries = @ - 1, !.clean = FALSE].pc = call.pc
        BY <2>1 DEF Call
      <4> QED BY <2>4, <4>1 DEF Timeout
    <3>2. ~call'.heard /\ \E v \in Reads(call.query, Silence) : Near(call.what, v, call.value)
      BY <2>1, <3>1, AnsweredEffect
    <3>3. Near(call.what, 0, call.value)
      BY <3>2 DEF Reads
    <3> QED BY <2>1, <3>2, <3>3, ConstantTypes, NearIsVerified
  <2> QED BY <2>2, <2>3, <2>4
<1> QED BY <1>1, GeneratorInvariance, PTL DEF GeneratorSpec, VerifiedIsApplied
=============================================================================
