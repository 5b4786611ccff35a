----------------------------- MODULE StatusData -----------------------------
(***************************************************************************)
(* What becomes of the answers to TS: StatusCommand::parseResponseData,    *)
(* PPBController::processStatusData, and the powers that a TC will send.   *)
(*                                                                         *)
(* A word is the number of the answer and its place in the payload.  The   *)
(* powers are the bits of their codes read as a float, and a TC sends the  *)
(* bits of the float: here, the words of the code.                         *)
(***************************************************************************)
EXTENDS Naturals, Sequences, SequencesExt, FiniteSetsExt

CONSTANTS
  PPBs,       (* the PPBs that have an index; what comes from another        *)
              (* address, one of several bits, has none                      *)
  Masks,      (* the masks that answers have: sets of bits                   *)
  MaxWords,   (* the words of the longest payload                            *)
  Watts,      (* what a user sets                                            *)
  MaxAnswers  (* bound: answers of each PPB                                  *)

ASSUME StatusAssumption ==
  /\ Masks \subseteq SUBSET (0 .. 31) /\ MaxWords \in Nat /\ MaxAnswers \in Nat

VARIABLES
  real,      (* m_realStates: the words of the code of each field            *)
  settings,  (* m_userSettings: the powers                                   *)
  known,     (* m_settingsInitialized                                        *)
  answers    (* history: the masks of the answers that were accepted         *)

statusVars == <<real, settings, known, answers>>

(* The bit of a field of one word, and of the high word of one of two. *)
WordBit == [ok |-> 0, t1 |-> 5, t2 |-> 6, t3 |-> 7, t4 |-> 8, v1 |-> 9, v2 |-> 10, tin |-> 11, tout |-> 12]
HighBit == [power1 |-> 1, power2 |-> 3, vswr1 |-> 13, vswr2 |-> 15]

Singles == DOMAIN WordBit
Pairs == DOMAIN HighBit
Powers == {"power1", "power2"}
Zero == <<>>

StatusInit ==
  /\ real = [p \in PPBs |-> [f \in Singles \cup Pairs |-> Zero]]
  /\ settings = [p \in PPBs |-> [f \in Powers |-> Zero]]
  /\ known = {} /\ answers = [p \in PPBs |-> <<>>]

-----------------------------------------------------------------------------
(* The bits that stand for words, in the order of the words *)
Bits == [i \in 1 .. 24 |-> i - 1]
Counted(mask) == mask \cap ToSet(Bits)

(* Mutant: one variable keeps the high word, for whichever low word comes. *)
TakeWordOneHigh(acc, bit) ==
  LET word == <<acc.answer, acc.next>> IN
  [acc EXCEPT
    !.next = @ + 1,
    !.high = IF \E f \in Pairs : HighBit[f] = bit THEN [f \in Pairs |-> <<word>>] ELSE @,
    !.state = [f \in DOMAIN @ |->
      CASE f \in Singles /\ WordBit[f] = bit -> <<word>>
        [] f \in Pairs /\ HighBit[f] + 1 = bit /\ acc.high[f] # Zero -> Append(acc.high[f], word)
        [] OTHER -> @[f]]]

(* One turn of the loop of processStatusData: the next word is that of the *)
(* bit.  A high word waits for its low word; a low word that has none is   *)
(* passed over.                                                            *)
TakeWord(acc, bit) ==
  LET word == <<acc.answer, acc.next>> IN
  [acc EXCEPT
    !.next = @ + 1,
    !.high = [f \in Pairs |-> IF HighBit[f] = bit THEN <<word>> ELSE @[f]],
    !.state = [f \in DOMAIN @ |->
      CASE f \in Singles /\ WordBit[f] = bit -> <<word>>
        [] f \in Pairs /\ HighBit[f] + 1 = bit /\ acc.high[f] # Zero -> Append(acc.high[f], word)
        [] OTHER -> @[f]]]

ProcessStatusData(state, n, mask) ==
  FoldLeft(LAMBDA acc, bit : IF bit \in mask THEN TakeWord(acc, bit) ELSE acc,
           [state |-> state, high |-> [f \in Pairs |-> Zero], answer |-> n, next |-> 1], Bits).state

ToReal(p, state) == [settings EXCEPT ![p] = [f \in Powers |-> state[f]]]

(* Mutant: every answer sets the settings.                                 *)
StatusResetsSettings(p, mask, words) ==
  LET n == Len(answers[p]) + 1
      state == ProcessStatusData(real[p], n, mask)
  IN  /\ n <= MaxAnswers /\ Cardinality(Counted(mask)) <= words
      /\ real' = [real EXCEPT ![p] = state]
      /\ settings' = ToReal(p, state)
      /\ known' = known \cup {p} /\ answers' = [answers EXCEPT ![p] = Append(@, mask)]

(* An answer of a PPB: parseResponseData, which refuses a payload that is  *)
(* shorter than its mask, and onStatusReceived.  The first one sets the    *)
(* settings, whether or not it holds the powers.                           *)
StatusReceived(p, mask, words) ==
  LET n == Len(answers[p]) + 1
      state == ProcessStatusData(real[p], n, mask)
  IN  /\ n <= MaxAnswers /\ Cardinality(Counted(mask)) <= words
      /\ real' = [real EXCEPT ![p] = state]
      /\ settings' = IF p \in known THEN settings ELSE ToReal(p, state)
      /\ known' = known \cup {p} /\ answers' = [answers EXCEPT ![p] = Append(@, mask)]

SetPowerSetting(p, f, w) ==
  /\ settings' = [settings EXCEPT ![p][f] = w]
  /\ UNCHANGED <<real, known, answers>>

ResetSettingsToReal(p) ==
  /\ settings' = ToReal(p, real[p])
  /\ UNCHANGED <<real, known, answers>>

StatusNext ==
  \E p \in PPBs :
    \/ \E mask \in Masks, words \in 0 .. MaxWords : StatusReceived(p, mask, words)
    \/ \E f \in Powers, w \in Watts : SetPowerSetting(p, f, w)
    \/ ResetSettingsToReal(p)

StatusSpec == StatusInit /\ [][StatusNext]_statusVars

-----------------------------------------------------------------------------
(* The word of a bit in the answer with the number n *)
WordOf(p, n, bit) == <<n, 1 + Cardinality({b \in answers[p][n] : b < bit})>>

BitsOf(f) == IF f \in Singles THEN <<WordBit[f]>> ELSE <<HighBit[f], HighBit[f] + 1>>
Carries(p, n, f) == ToSet(BitsOf(f)) \subseteq answers[p][n]

(* Every field shows the words of its own bits, all of the same answer,    *)
(* the last one that had them all: two halves of a code are never of two   *)
(* answers or of two fields, whatever other words stand between them, and  *)
(* a half without the other changes nothing.                               *)
FieldsAreWhole ==
  \A p \in PPBs : \A f \in DOMAIN real[p] :
    LET carriers == {n \in DOMAIN answers[p] : Carries(p, n, f)} IN
    real[p][f] = IF carriers = {} THEN Zero
                 ELSE [i \in DOMAIN BitsOf(f) |-> WordOf(p, Max(carriers), BitsOf(f)[i])]

(* After the first answer of a PPB its settings are the user's: a status,  *)
(* of this PPB or another, that arrives between the user's change and the  *)
(* TC that sends it does not change what is sent.                          *)
AnswersKeepSettings ==
  [][answers' # answers => \A p \in known : settings'[p] = settings[p]]_statusVars
=============================================================================
