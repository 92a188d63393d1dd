--------------------------- MODULE ValidateProofs ---------------------------
(***************************************************************************)
(* Proofs about ValidateBackend, for answers of any length.                *)
(***************************************************************************)
EXTENDS ValidateBackend, SequenceTheorems, TLAPS

-----------------------------------------------------------------------------
(* The inductive invariant *)

Codes == {PASS, FAIL, INCONCLUSIVE}

\* What the code of check n says, when no request failed.
CodeOK(n, code) ==
    /\ n = 1 => code = IF listed THEN PASS ELSE FAIL
    /\ n \in 2..5 /\ server # Changing => code = Code(n, server)
    /\ n = LastCheck => /\ code \in {PASS, FAIL}
                        /\ freshIds => code = FAIL
                        /\ server # Changing /\ ~freshIds => code = PASS

CodesOK == failures = 0 => \A n \in 1..Len(codes) : CodeOK(n, codes[n])

\* A request that fails leaves its mark.
FailuresOK ==
    /\ exit = None => failures <= check - 1
    /\ failures # 0 => exit = FAIL \/ \E n \in 1..Len(codes) : codes[n] = FAIL

\* How the program ended: in a traceback, or with the code of its codes.
ExitOK ==
    exit # None =>
        \/ exit = FAIL /\ failures # 0
        \/ /\ check = Finished
           /\ exit = IF \A n \in 1..Len(codes) : codes[n] = PASS THEN 0
                     ELSE IF \E n \in 1..Len(codes) : codes[n] = FAIL THEN 1 ELSE 2

IInv ==
    /\ TypeOK
    /\ CodesOK
    /\ FailuresOK
    /\ ExitOK

USE DEF PASS, FAIL, INCONCLUSIVE, None, LastCheck, Finished, Codes

-----------------------------------------------------------------------------
(* The checks *)

LEMMA CodeType ==
    ASSUME NEW n \in 2..5, NEW body
    PROVE  Code(n, body) \in Codes
  BY DEF Code, LogprobsPopulated, TokenIdentity, NoSentinels, ProbabilityMass

\* What the four checks of an answer say of it, together: the first, third and
\* fourth pass for a sound answer, and for a sound answer the second tells a
\* ranking from repeated tokens.
LEMMA ChecksMean ==
    ASSUME NEW body \in Body
    PROVE  LET e      == Range(body.content)
               sound  == e # {} /\ \A p \in e : Sound(p)
               ranked == \A p \in e : p.tops \in {"ranking", "ranked refs"}
               excused == \E p \in e : p.tops \in {"ranked refs", "repeated refs"}
           IN  /\ (Code(2, body) = PASS /\ Code(4, body) = PASS /\ Code(5, body) = PASS) <=> sound
               /\ Code(2, body) \in {PASS, FAIL}
               /\ Code(4, body) \in {PASS, FAIL}
               /\ Code(5, body) \in {PASS, FAIL}
               /\ sound => Code(3, body) = IF ranked THEN PASS
                                           ELSE IF excused THEN INCONCLUSIVE ELSE FAIL
  <1> DEFINE e == Range(body.content)
             sound == e # {} /\ \A p \in e : Sound(p)
             some == \E p \in e : p.tops # "none"
             finite == \A p \in e : p.values = "finite"
             plausible == \A p \in e : p.mass = "plausible"
             degenerate == \E p \in e : p.tops \in {"repeated", "repeated refs"}
             excused == \E p \in e : p.tops \in {"ranked refs", "repeated refs"}
             ranked == \A p \in e : p.tops \in {"ranking", "ranked refs"}
  <1>1. \A p \in e : p \in Position
    BY DEF Body, Content, Range
  <1>2. Populated(body) <=> e # {}
    <2>1. CASE body.has # "logprobs"
      BY <2>1 DEF Body, Populated, Range
    <2>2. CASE body.has = "logprobs"
      <3>1. body.content \in Content
        BY <2>2 DEF Body
      <3>2. PICK n \in 0..MaxPositions : body.content \in [1..n -> Position]
        BY <3>1 DEF Content
      <3>3. n \in Nat /\ body.content \in Seq(Position) /\ Len(body.content) = n
        BY <3>2, MaxPositionsAssumption
      <3>4. body.content # <<>> <=> n # 0
        BY <3>3
      <3>5. e # {} <=> n # 0
        <4>1. n # 0 => 1 \in DOMAIN body.content
          BY <3>2, <3>3
        <4>2. n = 0 => DOMAIN body.content = {}
          BY <3>2
        <4>3. QED
          BY <3>3, <4>1, <4>2 DEF Range
      <3>6. QED
        BY <2>2, <3>4, <3>5 DEF Populated
    <2>3. QED
      BY <2>1, <2>2
  <1>3. Code(2, body) = IF e # {} /\ some THEN PASS ELSE FAIL
    BY <1>2 DEF Code, LogprobsPopulated, Positions
  <1>4. Code(3, body) = IF e = {} THEN FAIL ELSE IF ~degenerate THEN PASS
                        ELSE IF excused THEN INCONCLUSIVE ELSE FAIL
    <2>1. Code(3, body) = TokenIdentity(body)
      BY DEF Code
    <2>2. CASE e = {}
      BY <1>2, <2>1, <2>2 DEF TokenIdentity
    <2>3. CASE e # {} /\ ~degenerate
      <3>1. \A p \in Positions(body) : ~Degenerate(p)
        BY <2>3 DEF Positions, Degenerate
      <3>2. QED
        BY <1>2, <2>1, <2>3, <3>1 DEF TokenIdentity
    <2>4. CASE e # {} /\ degenerate /\ excused
      <3>1. /\ ~\A p \in Positions(body) : ~Degenerate(p)
            /\ \E p \in Positions(body) : SyntheticRefs(p)
        BY <2>4 DEF Positions, Degenerate, SyntheticRefs
      <3>2. QED
        BY <1>2, <2>1, <2>4, <3>1 DEF TokenIdentity
    <2>5. CASE e # {} /\ degenerate /\ ~excused
      <3>1. /\ ~\A p \in Positions(body) : ~Degenerate(p)
            /\ ~\E p \in Positions(body) : SyntheticRefs(p)
        BY <2>5 DEF Positions, Degenerate, SyntheticRefs
      <3>2. QED
        BY <1>2, <2>1, <2>5, <3>1 DEF TokenIdentity
    <2>6. QED
      BY <2>2, <2>3, <2>4, <2>5
  <1>5. Code(4, body) = IF body.has = "logprobs" /\ finite THEN PASS ELSE FAIL
    BY DEF Code, NoSentinels, Positions
  <1>6. Code(5, body) = IF e # {} /\ plausible THEN PASS ELSE FAIL
    BY <1>2 DEF Code, ProbabilityMass, Positions
  <1>7. sound <=> e # {} /\ finite /\ plausible
    BY DEF Sound
  <1>8. plausible => \A p \in e : p.tops \in TopTokens \ {"none"}
    BY <1>1 DEF Position
  <1>9. e # {} => body.has = "logprobs"
    BY <1>2 DEF Populated
  <1>10. plausible => (~degenerate <=> ranked)
    BY <1>8 DEF TopTokens
  <1>11. (e # {} /\ plausible) => some
    BY <1>8
  <1>12. /\ (Code(2, body) = PASS /\ Code(4, body) = PASS /\ Code(5, body) = PASS) <=> sound
         /\ Code(2, body) \in {PASS, FAIL}
         /\ Code(4, body) \in {PASS, FAIL}
         /\ Code(5, body) \in {PASS, FAIL}
    <2> HIDE DEF sound, some, finite, plausible, e
    <2>1. QED
      BY <1>3, <1>5, <1>6, <1>7, <1>9, <1>11
  <1>13. sound => Code(3, body) = IF ranked THEN PASS
                                  ELSE IF excused THEN INCONCLUSIVE ELSE FAIL
    <2> HIDE DEF sound, plausible, degenerate, ranked, excused, e
    <2>1. QED
      BY <1>4, <1>7, <1>10
  <1>14. QED
    BY <1>12, <1>13

-----------------------------------------------------------------------------
(* The steps *)

LEMMA InitOK == Init => IInv
  <1> SUFFICES ASSUME Init
               PROVE  IInv
    OBVIOUS
  <1>1. <<>> \in Seq(Codes) /\ Len(<<>>) = 0
    OBVIOUS
  <1>2. QED
    BY <1>1 DEF Init, IInv, TypeOK, CodesOK, FailuresOK, ExitOK

\* A check ends with a code of its own, or with FAIL for a request that failed.
LEMMA VerdictStep ==
    ASSUME IInv, exit = None, check \in 1..LastCheck, NEW code \in Codes, Verdict(code),
           \/ failures' = failures /\ CodeOK(check, code)
           \/ failures' = failures + 1 /\ code = FAIL
    PROVE  IInv'
  <1> USE DEF Verdict
  <1>1. /\ codes \in Seq(Codes) /\ check \in Nat /\ Len(codes) = check - 1
        /\ failures \in Nat /\ failures <= check - 1
    BY DEF IInv, TypeOK, FailuresOK
  <1>2. /\ codes' \in Seq(Codes) /\ Len(codes') = check /\ codes'[check] = code
        /\ \A n \in 1..(check - 1) : codes'[n] = codes[n]
        /\ \A n \in 1..check : n \in 1..(check - 1) \/ n = check
    BY <1>1
  <1>3. TypeOK'
    BY <1>1, <1>2 DEF IInv, TypeOK
  <1>4. CodesOK'
    <2>1. SUFFICES ASSUME failures' = 0, NEW n \in 1..check
                   PROVE  CodeOK(n, codes[n])'
      BY <1>2 DEF CodesOK
    <2>2. failures = 0 /\ CodeOK(check, code)
      BY <2>1, <1>1
    <2>3. CodeOK(n, codes'[n])
      BY <2>2, <1>1, <1>2 DEF IInv, CodesOK
    <2>4. QED
      BY <2>3 DEF CodeOK
  <1>5. FailuresOK'
    <2>1. failures' <= check' - 1
      BY <1>1
    <2>2. ASSUME failures' # 0 PROVE \E n \in 1..Len(codes') : codes'[n] = FAIL
      <3>1. CASE failures' = failures
        <4>1. PICK n \in 1..Len(codes) : codes[n] = FAIL
          BY <2>2, <3>1 DEF IInv, FailuresOK
        <4>2. n \in 1..Len(codes') /\ codes'[n] = FAIL
          BY <4>1, <1>1, <1>2
        <4>3. QED
          BY <4>2
      <3>2. CASE failures' = failures + 1 /\ code = FAIL
        BY <3>2, <1>1, <1>2
      <3>3. QED
        BY <3>1, <3>2
    <2>3. QED
      BY <2>1, <2>2 DEF FailuresOK
  <1>6. ExitOK'
    BY DEF ExitOK
  <1>7. QED
    BY <1>3, <1>4, <1>5, <1>6 DEF IInv

LEMMA CheckStep ==
    ASSUME IInv, CheckModels \/ CheckAnswer \/ RequestFails
    PROVE  IInv'
  <1>1. CASE CheckModels
    <2>1. CodeOK(1, IF listed THEN PASS ELSE FAIL)
      BY DEF CodeOK
    <2>2. QED
      BY <1>1, <2>1, VerdictStep DEF CheckModels
  <1>2. CASE CheckAnswer
    <2>1. PICK body \in Answers : Verdict(Code(check, body))
      BY <1>2 DEF CheckAnswer
    <2>2. check \in 2..5 /\ exit = None /\ failures' = failures
      BY <1>2 DEF CheckAnswer
    <2>3. Code(check, body) \in Codes
      BY <2>2, CodeType
    <2>4. CodeOK(check, Code(check, body))
      BY <2>1, <2>2 DEF CodeOK, Answers
    <2>5. QED
      BY <2>1, <2>2, <2>3, <2>4, VerdictStep
  <1>3. CASE RequestFails
    BY <1>3, VerdictStep DEF RequestFails
  <1>4. QED
    BY <1>1, <1>2, <1>3

LEMMA DeterminismStep == IInv /\ CheckDeterminism => IInv'
  <1> SUFFICES ASSUME IInv, CheckDeterminism
               PROVE  IInv'
    OBVIOUS
  <1>1. check = LastCheck /\ exit = None /\ failures' = failures
    BY DEF CheckDeterminism
  <1>2. CASE warm < 2 /\ warm' = warm + 1 /\ UNCHANGED <<server, freshIds, listed, check, codes, exit>>
    <2>1. TypeOK'
      BY <1>1, <1>2 DEF IInv, TypeOK
    <2>2. CodesOK' /\ FailuresOK' /\ ExitOK'
      BY <1>1, <1>2 DEF IInv, CodesOK, CodeOK, FailuresOK, ExitOK
    <2>3. QED
      BY <2>1, <2>2 DEF IInv
  <1>3. ASSUME NEW same \in SameContent, Verdict(IF same /\ ~freshIds THEN PASS ELSE FAIL)
        PROVE  IInv'
    <2>1. server # Changing => same = TRUE
      BY DEF SameContent
    <2>2. CodeOK(LastCheck, IF same /\ ~freshIds THEN PASS ELSE FAIL)
      BY <2>1 DEF CodeOK
    <2>3. QED
      BY <1>1, <1>3, <2>2, VerdictStep
  <1>4. QED
    BY <1>2, <1>3 DEF CheckDeterminism

LEMMA ExitStep ==
    ASSUME IInv, Exit \/ AnswerIsMalformed
    PROVE  IInv'
  <1>1. CASE AnswerIsMalformed
    <2> USE <1>1 DEF AnswerIsMalformed
    <2>1. /\ failures \in Nat /\ failures <= check - 1 /\ check \in 1..6
          /\ failures' = failures + 1 /\ failures' # 0
      BY DEF IInv, TypeOK, FailuresOK
    <2>2. TypeOK' /\ CodesOK'
      BY <2>1 DEF IInv, TypeOK, CodesOK
    <2>3. FailuresOK' /\ ExitOK'
      BY <2>1 DEF FailuresOK, ExitOK
    <2>4. QED
      BY <2>2, <2>3 DEF IInv
  <1>2. CASE Exit
    <2> USE <1>2 DEF Exit
    <2>1. /\ codes \in Seq(Codes) /\ Len(codes) = 6 /\ DOMAIN codes = 1..6
      BY DEF IInv, TypeOK
    <2>2. /\ Range(codes) = {PASS} <=> \A n \in 1..Len(codes) : codes[n] = PASS
          /\ FAIL \in Range(codes) <=> \E n \in 1..Len(codes) : codes[n] = FAIL
      <3>1. Range(codes) = {codes[n] : n \in 1..6} /\ 1 \in 1..6
        BY <2>1 DEF Range
      <3>2. Range(codes) = {PASS} => \A n \in 1..6 : codes[n] = PASS
        BY <3>1
      <3>3. (\A n \in 1..6 : codes[n] = PASS) => Range(codes) = {PASS}
        BY <3>1
      <3>4. FAIL \in Range(codes) <=> \E n \in 1..6 : codes[n] = FAIL
        BY <3>1
      <3>5. QED
        BY <2>1, <3>2, <3>3, <3>4
    <2>3. TypeOK'
      BY DEF IInv, TypeOK
    <2>4. CodesOK' /\ FailuresOK'
      BY DEF IInv, CodesOK, CodeOK, FailuresOK
    <2>5. ExitOK'
      BY <2>2 DEF ExitOK
    <2>6. QED
      BY <2>3, <2>4, <2>5 DEF IInv
  <1>3. QED
    BY <1>1, <1>2

\* Every step keeps the invariant.
LEMMA NextOK == IInv /\ [Next]_vars => IInv'
  <1> SUFFICES ASSUME IInv, [Next]_vars
               PROVE  IInv'
    OBVIOUS
  <1>1. CASE UNCHANGED vars
    BY <1>1 DEF vars, IInv, TypeOK, CodesOK, CodeOK, FailuresOK, ExitOK
  <1>2. QED
    BY <1>1, CheckStep, DeterminismStep, ExitStep DEF Next, Done

-----------------------------------------------------------------------------
(* The theorems *)

\* IInv is inductive: it holds in every state of every execution.
THEOREM Invariance == Spec => []IInv
  BY InitOK, NextOK, PTL DEF Spec

\* Every variable keeps its type, and there is one code for every check done.
THEOREM TypeCorrect == Spec => []TypeOK
  <1>1. IInv => TypeOK
    BY DEF IInv
  <1>2. QED
    BY <1>1, Invariance, PTL

\* The exit code says the truth of the server, however long its answers are
\* (main() of validate_backend.py).
THEOREM VerdictFitsServerHolds == Spec => []VerdictFitsServer
  <1>1. ASSUME IInv, exit # None, exit \in {0, 2}
        PROVE  /\ failures = 0 /\ check = Finished /\ Len(codes) = 6
               /\ \A n \in 1..6 : codes[n] # FAIL /\ CodeOK(n, codes[n])
    <2>1. /\ check = Finished /\ Len(codes) = 6 /\ codes \in Seq(Codes)
          /\ \A n \in 1..6 : codes[n] # FAIL
      BY <1>1 DEF IInv, ExitOK, TypeOK
    <2>2. failures = 0
      BY <1>1, <2>1 DEF IInv, FailuresOK
    <2>3. QED
      BY <1>1, <2>1, <2>2 DEF IInv, CodesOK
  <1>2. ASSUME IInv, exit # None, exit \in {0, 2}
        PROVE  failures = 0 /\ listed /\ ~freshIds
    <2>1. CodeOK(1, codes[1]) /\ codes[1] # FAIL /\ CodeOK(6, codes[6]) /\ codes[6] # FAIL
      BY <1>1, <1>2
    <2>2. QED
      BY <1>1, <1>2, <2>1 DEF CodeOK, IInv, TypeOK
  <1>3. ASSUME IInv, exit # None, server # Changing, failures = 0, listed, ~freshIds
        PROVE  LET e       == Range(server.content)
                   sound   == e # {} /\ \A p \in e : Sound(p)
                   ranked  == \A p \in e : p.tops \in {"ranking", "ranked refs"}
                   excused == \E p \in e : p.tops \in {"ranked refs", "repeated refs"}
               IN  /\ exit = 0 <=> sound /\ ranked
                   /\ exit = 2 <=> sound /\ ~ranked /\ excused
    <2> DEFINE e       == Range(server.content)
               sound   == e # {} /\ \A p \in e : Sound(p)
               ranked  == \A p \in e : p.tops \in {"ranking", "ranked refs"}
               excused == \E p \in e : p.tops \in {"ranked refs", "repeated refs"}
               passes  == \A n \in 1..6 : codes[n] = PASS
               fails   == \E n \in 1..6 : codes[n] = FAIL
    <2>1. /\ server \in Body /\ codes \in Seq(Codes) /\ Len(codes) = 6
          /\ exit = IF passes THEN 0 ELSE IF fails THEN 1 ELSE 2
          /\ \A n \in 1..6 : CodeOK(n, codes[n])
      BY <1>3 DEF IInv, TypeOK, ExitOK, CodesOK
    <2>2. /\ codes[1] = PASS /\ codes[6] = PASS
          /\ codes[2] = Code(2, server) /\ codes[3] = Code(3, server)
          /\ codes[4] = Code(4, server) /\ codes[5] = Code(5, server)
      BY <1>3, <2>1 DEF CodeOK
    <2>3. /\ (codes[2] = PASS /\ codes[4] = PASS /\ codes[5] = PASS) <=> sound
          /\ codes[2] \in {PASS, FAIL} /\ codes[4] \in {PASS, FAIL} /\ codes[5] \in {PASS, FAIL}
          /\ sound => codes[3] = IF ranked THEN PASS ELSE IF excused THEN INCONCLUSIVE ELSE FAIL
      BY <2>1, <2>2, ChecksMean
    <2>4. \A n \in 1..6 : n = 1 \/ n = 2 \/ n = 3 \/ n = 4 \/ n = 5 \/ n = 6
      OBVIOUS
    <2>5. passes <=> codes[2] = PASS /\ codes[3] = PASS /\ codes[4] = PASS /\ codes[5] = PASS
      BY <2>2, <2>4
    <2>6. fails <=> codes[2] = FAIL \/ codes[3] = FAIL \/ codes[4] = FAIL \/ codes[5] = FAIL
      BY <2>2, <2>4
    <2> HIDE DEF e, sound, ranked, excused, passes, fails
    <2>7. exit = 0 <=> sound /\ ranked
      BY <2>1, <2>3, <2>5
    <2>8. exit = 2 <=> sound /\ ~ranked /\ excused
      BY <2>1, <2>3, <2>5, <2>6
    <2>9. QED
      BY <2>7, <2>8 DEF e, sound, ranked, excused
  <1>4. IInv => VerdictFitsServer
    BY <1>2, <1>3 DEF VerdictFitsServer
  <1>5. QED
    BY <1>4, Invariance, PTL
=============================================================================
