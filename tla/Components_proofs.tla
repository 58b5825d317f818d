------------------------- MODULE Components_proofs --------------------------
(***************************************************************************)
(* Proofs about the parts that work by themselves, for every value of      *)
(* their constants: the inductive invariant of each part, and at the end   *)
(* the theorems about Components.                                          *)
(***************************************************************************)
EXTENDS Components, Integers, Sequences, SequenceTheorems, FiniteSetTheorems,
        WellFoundedInduction, TLAPS

(***************************************************************************)
(* Numbers.                                                                *)
(***************************************************************************)
Less == {s \in Nat \X Nat : s[1] < s[2]}

\* A set of natural numbers that is not empty has a least element.
LEMMA LeastOf ==
    ASSUME NEW T, T \subseteq Nat, T # {}
    PROVE  \E x \in T : \A y \in T : x <= y
<1>1. IsWellFoundedOn(Less, Nat)
  BY NatLessThanWellFounded DEF OpToRel, Less
<1>2. PICK x \in T : \A y \in T : <<y, x>> \notin Less
  BY <1>1, WFMin
<1>3. ASSUME NEW y \in T, y < x PROVE FALSE
  <2>1. <<y, x>> \in Nat \X Nat /\ <<y, x>>[1] < <<y, x>>[2]
    BY <1>3
  <2>2. QED
    BY <1>2, <2>1 DEF Less
<1>4. QED
  BY <1>3

\* Induction: a set of natural numbers with 0 and every successor has them all.
LEMMA AllNumbers ==
    ASSUME NEW T, 0 \in T, \A n \in Nat : n \in T => n + 1 \in T
    PROVE  Nat \subseteq T
<1> SUFFICES ASSUME Nat \ T # {} PROVE FALSE
  OBVIOUS
<1>1. PICK x \in Nat \ T : \A y \in Nat \ T : x <= y
  <2>1. Nat \ T \subseteq Nat
    OBVIOUS
  <2>2. QED
    BY <2>1, LeastOf
<1>2. x # 0 /\ x - 1 \in Nat
  BY <1>1
<1>3. x - 1 \in T
  BY <1>1, <1>2
<1>4. x - 1 + 1 \in T
  BY <1>2, <1>3
<1>5. QED
  BY <1>1, <1>4

\* A set of positions has a last one.
LEMMA LastOf ==
    ASSUME NEW N \in Nat, NEW T, T \subseteq 0 .. N, T # {}
    PROVE  \E x \in T : \A y \in T : y <= x
<1> DEFINE U == {N - x : x \in T}
<1>1. U \subseteq Nat /\ U # {}
  <2>1. ASSUME NEW x \in T PROVE N - x \in Nat
    OBVIOUS
  <2>2. PICK x : x \in T
    OBVIOUS
  <2>3. N - x \in U
    BY <2>2
  <2>4. QED
    BY <2>1, <2>3
<1>2. PICK u \in U : \A y \in U : u <= y
  <2> HIDE DEF U
  <2>1. QED
    BY <1>1, LeastOf
<1>3. PICK x \in T : u = N - x
  BY <1>2
<1>4. ASSUME NEW y \in T PROVE y <= x
  <2>1. N - y \in U
    OBVIOUS
  <2>2. N - x <= N - y /\ x \in Nat /\ y \in Nat
    BY <1>2, <1>3, <2>1
  <2>3. QED
    BY <2>2
<1>5. QED
  BY <1>4

-----------------------------------------------------------------------------
(***************************************************************************)
(* Gate: past the list of the diff's files there is a head whose specs are *)
(* those that were judged and those that are left.                         *)
(***************************************************************************)

\* The search for the closing fence finds the frontmatter, but for an empty one
\* that has a fence further down: there the code reads on.
LEMMA FrontmatterIsTheBlock ==
    ASSUME NEW lines \in Seq(Gate!Line)
    PROVE  {i \in 2 .. Len(lines) : Gate!InBlock(lines, i)} =
               IF Gate!ReadsOn(lines) THEN {} ELSE Gate!Block(lines)
<1> DEFINE fences == Gate!Closers(lines)
           block == {i \in 2 .. Len(lines) : Gate!InBlock(lines, i)}
<1>1. /\ Len(lines) \in Nat
      /\ \A i : i \in fences <=> i \in 3 .. Len(lines) /\ Gate!Fence(lines[i])
  BY DEF Gate!Closers
<1>2. CASE Gate!ReadsOn(lines)
  <2>1. \A i \in 2 .. Len(lines) : 2 \in 2 .. i /\ Gate!Fence(lines[2])
    BY <1>2 DEF Gate!ReadsOn
  <2>2. block = {}
    BY <2>1 DEF Gate!InBlock
  <2>3. QED
    BY <1>2, <2>2
<1>3. CASE fences = {}
  <2>1. \A i \in 2 .. Len(lines) : \A j \in (i + 1) .. Len(lines) : ~Gate!Fence(lines[j])
    BY <1>1, <1>3
  <2>2. block = {}
    BY <2>1 DEF Gate!InBlock
  <2>3. Gate!Block(lines) = {}
    BY <1>3 DEF Gate!Block
  <2>4. QED
    BY <2>2, <2>3
<1>4. CASE fences # {} /\ ~Gate!ReadsOn(lines)
  <2> DEFINE m == Gate!Min(fences)
  <2>1. m \in fences /\ \A j \in fences : m <= j
    <3>1. fences \subseteq Nat
      BY <1>1
    <3>2. \E x \in fences : \A y \in fences : x <= y
      BY <1>4, <3>1, LeastOf
    <3>3. QED
      BY <3>2 DEF Gate!Min
  <2>2. Gate!Block(lines) = IF Head(lines) # "---" THEN {} ELSE 2 .. m - 1
    <3>1. lines # <<>>
      BY <1>1, <2>1
    <3>2. QED
      BY <1>4, <3>1 DEF Gate!Block
  <2> HIDE DEF m, fences
  <2>3. m \in 3 .. Len(lines) /\ Gate!Fence(lines[m])
    BY <1>1, <2>1
  <2>4. CASE Head(lines) # "---"
    BY <1>4, <2>2, <2>4 DEF Gate!InBlock
  <2>5. CASE Head(lines) = "---"
    <3>1. ~Gate!Fence(lines[2])
      BY <1>4, <2>3, <2>5 DEF Gate!ReadsOn
    <3>2. ASSUME NEW i \in 2 .. Len(lines)
          PROVE  Gate!InBlock(lines, i) <=> i < m
      <4>1. CASE i < m
        <5>1. m \in (i + 1) .. Len(lines)
          BY <1>1, <2>3, <4>1
        <5>2. ASSUME NEW j \in 2 .. i PROVE ~Gate!Fence(lines[j])
          <6>1. j = 2 \/ j \in 3 .. Len(lines)
            BY <1>1
          <6>2. ~(m <= j)
            BY <2>3, <4>1
          <6>3. QED
            BY <1>1, <2>1, <3>1, <6>1, <6>2
        <5>3. QED
          BY <2>3, <2>5, <4>1, <5>1, <5>2 DEF Gate!InBlock
      <4>2. CASE ~(i < m)
        <5>1. m \in 2 .. i
          BY <1>1, <2>3, <4>2
        <5>2. QED
          BY <2>3, <4>2, <5>1 DEF Gate!InBlock
      <4>3. QED
        BY <4>1, <4>2
    <3>3. \A i : i \in 2 .. m - 1 <=> i \in 2 .. Len(lines) /\ i < m
      BY <1>1, <2>3
    <3>4. block = 2 .. m - 1
      BY <3>2, <3>3
    <3>5. QED
      BY <1>4, <2>2, <2>5, <3>4
  <2>6. QED
    BY <2>4, <2>5
<1>5. QED
  BY <1>2, <1>3, <1>4

Approved(f) ==
    input.files[f] # Absent /\ Gate!specApprovedNotCompleted(input.files[f])

SpecsAt(h) == diff[h] \cap Specs

Verdicts == {"not_draft", "not_open", "no_dark_factory_yaml", "no_spec_in_diff",
             "error", "keep"}

GateTypeOK ==
    /\ input \in [draft : BOOLEAN, open : BOOLEAN, config : BOOLEAN, queued : BOOLEAN,
                  files : [Specs -> Seq(Gate!Line) \cup {Absent}]]
    /\ head \in Nat \ {0}
    /\ call \in [pc : {"begin", "list", "specs", "prompts", "done"},
                 todo : SUBSET Specs, matched : SUBSET Specs, failed : BOOLEAN,
                 result : [verdict : Verdicts, matched : SUBSET Specs, queued : BOOLEAN]]

\* The specs of some head so far: those left, and the approved of the others.
JudgedAt(h) ==
    /\ call.todo \subseteq SpecsAt(h)
    /\ call.matched = {f \in SpecsAt(h) \ call.todo : Approved(f)}

Progress ==
    /\ call.pc # "done" => ~call.failed
    /\ call.pc = "begin" => call.todo = {}
    /\ call.pc \in {"begin", "list"} => call.matched = {}
    /\ call.pc \notin {"begin", "done"} => input.draft /\ input.open /\ input.config
    /\ call.pc \in {"specs", "prompts"} => \E h \in 1 .. head : JudgedAt(h)
    /\ call.pc = "prompts" => call.todo = {} /\ call.matched # {}

GateInv ==
    GateTypeOK /\ Progress /\ Gate!AnswersAtOneMoment /\ Gate!ErrorsHaveACause

\* What the gate makes of a file is what its frontmatter holds, unless the code
\* reads on; only then does a file without a broken frontmatter fail to parse.
LEMMA BlockIsRead ==
    ASSUME GateTypeOK, NEW f \in Specs
    PROVE  /\ Approved(f)
                <=> \/ Gate!BlockHas(f, "approved") /\ ~Gate!BlockHas(f, "completed")
                    \/ Gate!ReadsOnIn(f) /\ Gate!specApprovedNotCompleted(input.files[f])
           /\ input.files[f] # Absent /\ Gate!Unparsable(input.files[f])
                => Gate!Broken(f) \/ Gate!ReadsOnIn(f)
<1> DEFINE lines == input.files[f]
<1>1. CASE lines = Absent
  <2>1. Gate!BlockOf(f) = {} /\ ~Gate!ReadsOnIn(f)
    BY <1>1 DEF Gate!BlockOf, Gate!ReadsOnIn
  <2>2. QED
    BY <1>1, <2>1 DEF Approved, Gate!BlockHas
<1>2. CASE lines # Absent
  <2>1. lines \in Seq(Gate!Line)
    BY <1>2 DEF GateTypeOK
  <2>2. Gate!BlockOf(f) = IF Gate!ReadsOn(lines) THEN {} ELSE Gate!Block(lines)
    BY <1>2, <2>1, FrontmatterIsTheBlock DEF Gate!BlockOf
  <2>3. Gate!ReadsOnIn(f) <=> Gate!ReadsOn(lines)
    BY <1>2 DEF Gate!ReadsOnIn
  <2>4. CASE Gate!ReadsOn(lines)
    BY <1>2, <2>2, <2>3, <2>4 DEF Approved, Gate!BlockHas
  <2>5. CASE ~Gate!ReadsOn(lines)
    <3>1. \A w : Gate!BlockHas(f, w) <=> w \in Gate!parseFrontmatter(lines)
      BY <2>2, <2>5 DEF Gate!BlockHas, Gate!parseFrontmatter
    <3>2. Approved(f) <=> Gate!BlockHas(f, "approved") /\ ~Gate!BlockHas(f, "completed")
      BY <1>2, <3>1 DEF Approved, Gate!specApprovedNotCompleted
    <3>3. ASSUME NEW i \in Gate!Block(lines) PROVE lines[i] # "----"
      <4>1. i \in 2 .. Len(lines) /\ Gate!InBlock(lines, i)
        BY <1>2, <2>2, <2>5, <3>3 DEF Gate!BlockOf
      <4>2. i \in 2 .. i
        BY <4>1
      <4>3. QED
        BY <4>1, <4>2 DEF Gate!InBlock, Gate!Fence
    <3>4. Gate!Unparsable(lines) => Gate!Broken(f)
      BY <2>2, <2>5, <3>3 DEF Gate!Unparsable, Gate!Broken, Gate!BlockHas
    <3>5. QED
      BY <2>3, <2>5, <3>2, <3>4
  <2>6. QED
    BY <2>4, <2>5
<1>3. QED
  BY <1>1, <1>2

\* What the code reads as approved is approved.
LEMMA ApprovedIsApproved ==
    ASSUME GateTypeOK, NEW h
    PROVE  Gate!ApprovedInDiff(h) = {f \in SpecsAt(h) : Approved(f)}
BY BlockIsRead DEF Gate!ApprovedInDiff, SpecsAt

\* The gate starts in its invariant,
LEMMA GateInit == Gate!Init => GateInv
<1> SUFFICES ASSUME Gate!Init PROVE GateInv
  OBVIOUS
<1>1. Contents \cup {Absent} \subseteq Seq(Gate!Line) \cup {Absent}
  BY GateParameters DEF Gate!Parameters
<1>2. input.files \in [Specs -> Seq(Gate!Line) \cup {Absent}]
  BY <1>1 DEF Gate!Init
<1>3. GateTypeOK
  BY <1>2 DEF Gate!Init, GateTypeOK, Verdicts, Gate!skip, Gate!Result
<1>4. QED
  BY <1>3 DEF Gate!Init, GateInv, Progress, Gate!AnswersAtOneMoment, Gate!ErrorsHaveACause

\* The answer of the gate of Candidate, spelled out.
LEMMA AtomicAnswer ==
    ASSUME GateTypeOK, NEW h
    PROVE  Gate!AtomicResult(h) =
             IF ~input.draft THEN Gate!skip("not_draft")
             ELSE IF ~input.open THEN Gate!skip("not_open")
             ELSE IF ~input.config THEN Gate!skip("no_dark_factory_yaml")
             ELSE IF Gate!ApprovedInDiff(h) = {} THEN Gate!skip("no_spec_in_diff")
             ELSE Gate!Result(Gate!C!Keep, Gate!ApprovedInDiff(h), input.queued)
BY DEF Gate!AtomicResult, Gate!C!Evaluate, Gate!C!Keep, Gate!C!specApprovedNotCompleted

\* What is pinned to the SHA, and the diffs of the heads, stay during a call.
LEMMA Pinned ==
    ASSUME UNCHANGED <<input, diff>>
    PROVE  /\ \A h : SpecsAt(h)' = SpecsAt(h)
           /\ \A f : Approved(f)' = Approved(f)
           /\ \A f : Gate!Broken(f)' = Gate!Broken(f)
           /\ \A f : Gate!ReadsOnIn(f)' = Gate!ReadsOnIn(f)
           /\ \A h : Gate!AtomicResult(h)' = Gate!AtomicResult(h)
<1>1. \A h : SpecsAt(h)' = SpecsAt(h)
  BY DEF SpecsAt
<1>2. \A f : Approved(f)' = Approved(f)
  BY DEF Approved
<1>3. \A f, w : Gate!BlockHas(f, w)' = Gate!BlockHas(f, w)
  BY DEF Gate!BlockHas, Gate!BlockOf
<1>4. \A f : Gate!ReadsOnIn(f)' = Gate!ReadsOnIn(f)
  BY DEF Gate!ReadsOnIn
<1>5. \A f : Gate!Broken(f)' = Gate!Broken(f)
  BY <1>3 DEF Gate!Broken, Gate!BlockOf
<1>6. \A h : Gate!AtomicResult(h)' = Gate!AtomicResult(h)
  <2>1. \A h : Gate!ApprovedInDiff(h)' = Gate!ApprovedInDiff(h)
    BY <1>3, <1>4 DEF Gate!ApprovedInDiff
  <2>2. QED
    BY <2>1 DEF Gate!AtomicResult
<1>7. QED
  BY <1>1, <1>2, <1>4, <1>5, <1>6

\* and no request and no push leads out of it.
LEMMA GateNext == GateInv /\ [Gate!Next]_gateVars => GateInv'
<1> SUFFICES ASSUME GateInv, [Gate!Next]_gateVars PROVE GateInv'
  OBVIOUS
<1>a. GateTypeOK /\ Progress /\ 1 \in 1 .. head
  BY DEF GateInv, GateTypeOK
<1>t. GateTypeOK'
  <2> USE <1>a DEF GateTypeOK, Gate!At, Gate!Return, Gate!skip, Gate!Result, Verdicts
  <2>1. CASE Gate!SkipUnread
    BY <2>1 DEF Gate!SkipUnread
  <2>2. CASE Gate!ReadConfig
    <3>1. \/ call' = [call EXCEPT !.pc = "list"]
          \/ Gate!Return(Gate!skip("no_dark_factory_yaml"))
      BY <2>2 DEF Gate!ReadConfig
    <3>2. UNCHANGED <<input, head>>
      BY <2>2 DEF Gate!ReadConfig
    <3>3. CASE call' = [call EXCEPT !.pc = "list"]
      BY <3>2, <3>3
    <3>4. CASE Gate!Return(Gate!skip("no_dark_factory_yaml"))
      BY <3>2, <3>4
    <3>5. QED
      BY <3>1, <3>3, <3>4
  <2>3. CASE Gate!ListPRFiles
    BY <2>3 DEF Gate!ListPRFiles
  <2>4. ASSUME NEW f \in Specs, Gate!ReadSpec(f) PROVE GateTypeOK'
    <3>1. PICK m \in SUBSET Specs :
            \/ call' = [call EXCEPT !.todo = call.todo \ {f}, !.matched = m]
            \/ Gate!Return(Gate!skip("error"))
      BY <2>4 DEF Gate!ReadSpec
    <3>2. UNCHANGED <<input, head>>
      BY <2>4 DEF Gate!ReadSpec
    <3>3. CASE call' = [call EXCEPT !.todo = call.todo \ {f}, !.matched = m]
      BY <3>2, <3>3
    <3>4. CASE Gate!Return(Gate!skip("error"))
      BY <3>2, <3>4
    <3>5. QED
      BY <3>1, <3>3, <3>4
  <2>5. CASE Gate!SpecsRead
    <3>1. \/ call' = [call EXCEPT !.pc = "prompts"]
          \/ Gate!Return(Gate!skip("no_spec_in_diff"))
      BY <2>5 DEF Gate!SpecsRead
    <3>2. UNCHANGED <<input, head>>
      BY <2>5 DEF Gate!SpecsRead
    <3>3. CASE call' = [call EXCEPT !.pc = "prompts"]
      BY <3>2, <3>3
    <3>4. CASE Gate!Return(Gate!skip("no_spec_in_diff"))
      BY <3>2, <3>4
    <3>5. QED
      BY <3>1, <3>3, <3>4
  <2>6. CASE Gate!ReadPrompts
    BY <2>6 DEF Gate!ReadPrompts, Gate!C!Keep
  <2>7. CASE Gate!ReadFails
    BY <2>7 DEF Gate!ReadFails
  <2>8. CASE Gate!Push
    BY <2>8 DEF Gate!Push
  <2>9. CASE UNCHANGED gateVars
    BY <2>9 DEF gateVars
  <2>10. QED
    BY <2>1, <2>2, <2>3, <2>4, <2>5, <2>6, <2>7, <2>8, <2>9 DEF Gate!Next
<1> USE DEF GateTypeOK
<1>1. CASE Gate!SkipUnread
  <2>1. /\ call.pc = "begin" /\ UNCHANGED <<input, diff, head>>
        /\ ~input.draft \/ ~input.open
        /\ call' = [call EXCEPT !.pc = "done", !.todo = {}, !.result =
                      Gate!skip(IF ~input.draft THEN "not_draft" ELSE "not_open")]
    BY <1>1 DEF Gate!SkipUnread, Gate!At, Gate!Return
  <2>2. /\ call'.pc = "done" /\ call'.failed = call.failed
        /\ call'.result = Gate!skip(IF ~input.draft THEN "not_draft" ELSE "not_open")
    BY <1>a, <2>1
  <2>3. call'.result = Gate!AtomicResult(1) /\ call'.result.verdict # "error"
    BY <1>a, <2>1, <2>2, AtomicAnswer DEF Gate!skip, Gate!Result
  <2>4. ~call'.failed
    BY <1>a, <2>1, <2>2 DEF Progress
  <2>5. QED
    BY <1>a, <1>t, <2>1, <2>2, <2>3, <2>4, Pinned
    DEF GateInv, Progress, Gate!AnswersAtOneMoment, Gate!ErrorsHaveACause
<1>2. CASE Gate!ReadConfig
  <2>1. /\ call.pc = "begin" /\ UNCHANGED <<input, diff, head>> /\ input.draft /\ input.open
    BY <1>2 DEF Gate!ReadConfig, Gate!At
  <2>2. CASE input.config
    <3>1. call' = [call EXCEPT !.pc = "list"]
      BY <1>2, <2>2 DEF Gate!ReadConfig
    <3>2. QED
      BY <1>a, <1>t, <2>1, <2>2, <3>1
      DEF GateInv, Progress, Gate!AnswersAtOneMoment, Gate!ErrorsHaveACause
  <2>3. CASE ~input.config
    <3>1. call' = [call EXCEPT !.pc = "done", !.todo = {},
                               !.result = Gate!skip("no_dark_factory_yaml")]
      BY <1>2, <2>3 DEF Gate!ReadConfig, Gate!Return
    <3>2. /\ call'.pc = "done" /\ ~call'.failed
          /\ call'.result = Gate!skip("no_dark_factory_yaml")
      BY <1>a, <2>1, <3>1 DEF Progress
    <3>3. call'.result = Gate!AtomicResult(1) /\ call'.result.verdict # "error"
      BY <1>a, <2>1, <2>3, <3>2, AtomicAnswer DEF Gate!skip, Gate!Result
    <3>4. QED
      BY <1>a, <1>t, <2>1, <3>2, <3>3, Pinned
      DEF GateInv, Progress, Gate!AnswersAtOneMoment, Gate!ErrorsHaveACause
  <2>4. QED
    BY <2>2, <2>3
<1>3. CASE Gate!ListPRFiles
  <2>1. /\ call.pc = "list" /\ UNCHANGED <<input, diff, head>>
        /\ call' = [call EXCEPT !.pc = "specs", !.todo = diff[head] \cap Specs]
    BY <1>3 DEF Gate!ListPRFiles, Gate!At
  <2>2. /\ call'.pc = "specs" /\ call'.todo = SpecsAt(head) /\ call'.matched = {}
        /\ ~call'.failed
    BY <1>a, <2>1 DEF Progress, SpecsAt
  <2>3. head \in 1 .. head' /\ JudgedAt(head)'
    <3>1. {f \in SpecsAt(head) \ call'.todo : Approved(f)} = {}
      BY <2>2
    <3>2. SpecsAt(head)' = SpecsAt(head)
      BY <2>1 DEF SpecsAt
    <3>3. \A f : Approved(f)' = Approved(f)
      BY <2>1, Pinned
    <3>4. QED
      BY <1>a, <2>1, <2>2, <3>1, <3>2, <3>3 DEF JudgedAt
  <2>4. QED
    BY <1>a, <1>t, <2>1, <2>2, <2>3
    DEF GateInv, Progress, Gate!AnswersAtOneMoment, Gate!ErrorsHaveACause
<1>4. ASSUME NEW f \in Specs, Gate!ReadSpec(f) PROVE GateInv'
  <2> DEFINE lines == input.files[f]
  <2>1. /\ call.pc = "specs" /\ f \in call.todo /\ UNCHANGED <<input, diff, head>>
    BY <1>4 DEF Gate!ReadSpec, Gate!At
  <2>2. PICK h \in 1 .. head : JudgedAt(h)
    BY <1>a, <2>1 DEF Progress
  <2>3. ~call.failed /\ input.draft /\ input.open /\ input.config
    BY <1>a, <2>1 DEF Progress
  <2>4. CASE lines # Absent /\ Gate!Unparsable(lines)
    <3>1. call' = [call EXCEPT !.pc = "done", !.todo = {}, !.result = Gate!skip("error")]
      BY <1>4, <2>4 DEF Gate!ReadSpec, Gate!Return
    <3>2. call'.pc = "done" /\ call'.result = Gate!skip("error")
      BY <1>a, <3>1
    <3>3. call'.result.verdict = "error"
      BY <3>2 DEF Gate!skip, Gate!Result
    <3>4. (Gate!Broken(f) \/ Gate!ReadsOnIn(f)) /\ f \in diff[h] \cap Specs
      BY <1>a, <2>1, <2>2, <2>4, BlockIsRead DEF JudgedAt, SpecsAt
    <3>5. QED
      BY <1>a, <1>t, <2>1, <2>2, <3>2, <3>3, <3>4, Pinned
      DEF GateInv, Progress, Gate!AnswersAtOneMoment, Gate!ErrorsHaveACause
  <2>5. CASE ~(lines # Absent /\ Gate!Unparsable(lines))
    <3>1. call' = [call EXCEPT
                     !.todo = call.todo \ {f},
                     !.matched = IF Approved(f) THEN call.matched \cup {f} ELSE call.matched]
      BY <1>4, <2>5 DEF Gate!ReadSpec, Approved
    <3>2. /\ call'.pc = "specs" /\ call'.failed = call.failed
          /\ call'.todo = call.todo \ {f}
          /\ call'.matched = IF Approved(f) THEN call.matched \cup {f} ELSE call.matched
      BY <1>a, <2>1, <3>1
    <3>3. JudgedAt(h)'
      <4>1. SpecsAt(h)' = SpecsAt(h) /\ \A g : Approved(g)' = Approved(g)
        BY <2>1, Pinned
      <4>2. call'.matched = {g \in SpecsAt(h) \ call'.todo : Approved(g)}
        BY <2>1, <2>2, <3>2 DEF JudgedAt
      <4>3. QED
        BY <2>2, <3>2, <4>1, <4>2 DEF JudgedAt
    <3>4. QED
      BY <1>a, <1>t, <2>1, <2>2, <2>3, <3>2, <3>3
      DEF GateInv, Progress, Gate!AnswersAtOneMoment, Gate!ErrorsHaveACause
  <2>6. QED
    BY <2>4, <2>5
<1>5. CASE Gate!SpecsRead
  <2>1. call.pc = "specs" /\ call.todo = {} /\ UNCHANGED <<input, diff, head>>
    BY <1>5 DEF Gate!SpecsRead, Gate!At
  <2>2. PICK h \in 1 .. head : JudgedAt(h)
    BY <1>a, <2>1 DEF Progress
  <2>3. ~call.failed /\ input.draft /\ input.open /\ input.config
    BY <1>a, <2>1 DEF Progress
  <2>4. call.matched = Gate!ApprovedInDiff(h)
    BY <1>a, <2>1, <2>2, ApprovedIsApproved DEF JudgedAt
  <2>5. CASE call.matched = {}
    <3>1. call' = [call EXCEPT !.pc = "done", !.todo = {},
                               !.result = Gate!skip("no_spec_in_diff")]
      BY <1>5, <2>5 DEF Gate!SpecsRead, Gate!Return
    <3>2. /\ call'.pc = "done" /\ ~call'.failed
          /\ call'.result = Gate!skip("no_spec_in_diff")
      BY <1>a, <2>3, <3>1
    <3>3. call'.result = Gate!AtomicResult(h) /\ call'.result.verdict # "error"
      <4>1. Gate!AtomicResult(h) = Gate!skip("no_spec_in_diff")
        BY <1>a, <2>3, <2>4, <2>5, AtomicAnswer
      <4>2. QED
        BY <3>2, <4>1 DEF Gate!skip, Gate!Result
    <3>4. QED
      BY <1>a, <1>t, <2>1, <2>2, <3>2, <3>3, Pinned
      DEF GateInv, Progress, Gate!AnswersAtOneMoment, Gate!ErrorsHaveACause
  <2>6. CASE call.matched # {}
    <3>1. call' = [call EXCEPT !.pc = "prompts"]
      BY <1>5, <2>6 DEF Gate!SpecsRead
    <3>2. JudgedAt(h)'
      <4>1. SpecsAt(h)' = SpecsAt(h) /\ \A g : Approved(g)' = Approved(g)
        BY <2>1, Pinned
      <4>2. QED
        BY <1>a, <2>2, <3>1, <4>1 DEF JudgedAt
    <3>3. QED
      BY <1>a, <1>t, <2>1, <2>2, <2>3, <2>6, <3>1, <3>2
      DEF GateInv, Progress, Gate!AnswersAtOneMoment, Gate!ErrorsHaveACause
  <2>7. QED
    BY <2>5, <2>6
<1>6. CASE Gate!ReadPrompts
  <2>1. /\ call.pc = "prompts" /\ UNCHANGED <<input, diff, head>>
        /\ call' = [call EXCEPT !.pc = "done", !.todo = {}, !.result =
                      Gate!Result(Gate!C!Keep, call.matched, input.queued)]
    BY <1>6 DEF Gate!ReadPrompts, Gate!At, Gate!Return
  <2>2. PICK h \in 1 .. head : JudgedAt(h)
    BY <1>a, <2>1 DEF Progress
  <2>3. /\ ~call.failed /\ input.draft /\ input.open /\ input.config
        /\ call.matched # {} /\ call.todo = {}
    BY <1>a, <2>1 DEF Progress
  <2>4. call.matched = Gate!ApprovedInDiff(h)
    BY <1>a, <2>2, <2>3, ApprovedIsApproved DEF JudgedAt
  <2>5. /\ call'.pc = "done" /\ ~call'.failed
        /\ call'.result = Gate!Result(Gate!C!Keep, call.matched, input.queued)
    BY <1>a, <2>1, <2>3
  <2>6. call'.result = Gate!AtomicResult(h) /\ call'.result.verdict # "error"
    BY <1>a, <2>3, <2>4, <2>5, AtomicAnswer DEF Gate!Result, Gate!C!Keep
  <2>7. QED
    BY <1>a, <1>t, <2>1, <2>2, <2>5, <2>6, Pinned
    DEF GateInv, Progress, Gate!AnswersAtOneMoment, Gate!ErrorsHaveACause
<1>7. CASE Gate!ReadFails
  <2>1. /\ call' = [call EXCEPT !.failed = TRUE, !.pc = "done", !.todo = {},
                                !.result = Gate!skip("error")]
    BY <1>7 DEF Gate!ReadFails
  <2>2. call'.failed /\ call'.pc = "done" /\ call'.result.verdict = "error"
    BY <1>a, <2>1 DEF Gate!skip, Gate!Result
  <2>3. QED
    BY <1>t, <2>2 DEF GateInv, Progress, Gate!AnswersAtOneMoment, Gate!ErrorsHaveACause
<1>8. CASE Gate!Push
  <2>1. head' = head + 1 /\ UNCHANGED <<input, diff, call>> /\ call.pc # "done"
    BY <1>8 DEF Gate!Push
  <2>2. \A h \in 1 .. head : h \in 1 .. head'
    BY <1>a, <2>1
  <2>3. \A h : JudgedAt(h)' = JudgedAt(h)
    BY <2>1, Pinned DEF JudgedAt
  <2>4. QED
    BY <1>a, <1>t, <2>1, <2>2, <2>3
    DEF GateInv, Progress, Gate!AnswersAtOneMoment, Gate!ErrorsHaveACause
<1>9. CASE UNCHANGED gateVars
  BY <1>9, <1>t, Pinned
  DEF gateVars, GateInv, Progress, JudgedAt, Gate!AnswersAtOneMoment, Gate!ErrorsHaveACause
<1>10. QED
  BY <1>1, <1>2, <1>3, <1>4, <1>5, <1>6, <1>7, <1>8, <1>9 DEF Gate!Next

-----------------------------------------------------------------------------
(***************************************************************************)
(* Fetch: of the entries that stayed and stand on a page that was read, no *)
(* more are missing than entries have left their places.                   *)
(***************************************************************************)

\* The elements among the first n of a sequence.
FirstOf(s, n) == {s[k] : k \in {k \in 1 .. Len(s) : k <= n}}

\* Where an insertion puts what was there before.
LEMMA InsertAtPlaces ==
    ASSUME NEW S, NEW s \in Seq(S), NEW e \in S, NEW i \in 1 .. Len(s) + 1
    PROVE  /\ Fetch!InsertAt(s, i, e) \in Seq(S)
           /\ Len(Fetch!InsertAt(s, i, e)) = Len(s) + 1
           /\ \A k \in 1 .. i - 1 : Fetch!InsertAt(s, i, e)[k] = s[k]
           /\ Fetch!InsertAt(s, i, e)[i] = e
           /\ \A k \in i .. Len(s) : Fetch!InsertAt(s, i, e)[k + 1] = s[k]
<1> DEFINE u == SubSeq(s, 1, i - 1)
           v == SubSeq(s, i, Len(s))
           w == u \o <<e>>
<1>1. /\ u \in Seq(S) /\ Len(u) = i - 1 /\ \A k \in 1 .. i - 1 : u[k] = s[k]
  OBVIOUS
<1>2. /\ v \in Seq(S) /\ Len(v) = Len(s) + 1 - i
      /\ \A k \in 1 .. Len(s) + 1 - i : v[k] = s[i + k - 1]
  OBVIOUS
<1>3. Fetch!InsertAt(s, i, e) = w \o v
  BY DEF Fetch!InsertAt
<1>4. <<e>> \in Seq(S) /\ Len(<<e>>) = 1 /\ <<e>>[1] = e
  OBVIOUS
<1> HIDE DEF u, v
<1>5. /\ w \in Seq(S) /\ Len(w) = i
      /\ \A k \in 1 .. i - 1 : w[k] = s[k]
      /\ w[i] = e
  BY <1>1, <1>4
<1> HIDE DEF w
<1>6. /\ w \o v \in Seq(S) /\ Len(w \o v) = Len(w) + Len(v)
      /\ \A k \in 1 .. Len(w) + Len(v) :
            (w \o v)[k] = IF k <= Len(w) THEN w[k] ELSE v[k - Len(w)]
  BY <1>2, <1>5, ConcatProperties
<1>7. ASSUME NEW k \in 1 .. i - 1 PROVE (w \o v)[k] = s[k]
  BY <1>2, <1>5, <1>6
<1>8. (w \o v)[i] = e
  BY <1>2, <1>5, <1>6
<1>9. ASSUME NEW k \in i .. Len(s) PROVE (w \o v)[k + 1] = s[k]
  <2>1. k + 1 \in 1 .. Len(w) + Len(v) /\ ~(k + 1 <= Len(w))
    BY <1>2, <1>5
  <2>2. PICK m \in 1 .. Len(s) + 1 - i : m = k + 1 - Len(w) /\ i + m - 1 = k
    BY <1>5
  <2>3. (w \o v)[k + 1] = v[m]
    BY <1>6, <2>1, <2>2
  <2>4. QED
    BY <1>2, <2>2, <2>3
<1>10. QED
  BY <1>2, <1>3, <1>5, <1>6, <1>7, <1>8, <1>9

\* Where a removal puts what was there before.
LEMMA RemoveAtPlaces ==
    ASSUME NEW S, NEW s \in Seq(S), NEW i \in 1 .. Len(s)
    PROVE  /\ Fetch!RemoveAt(s, i) \in Seq(S)
           /\ Len(Fetch!RemoveAt(s, i)) = Len(s) - 1
           /\ \A k \in 1 .. i - 1 : Fetch!RemoveAt(s, i)[k] = s[k]
           /\ \A k \in i .. Len(s) - 1 : Fetch!RemoveAt(s, i)[k] = s[k + 1]
<1> DEFINE u == SubSeq(s, 1, i - 1)
           v == SubSeq(s, i + 1, Len(s))
<1>1. /\ u \in Seq(S) /\ Len(u) = i - 1 /\ \A k \in 1 .. i - 1 : u[k] = s[k]
  OBVIOUS
<1>2. /\ v \in Seq(S) /\ Len(v) = Len(s) - i
      /\ \A k \in 1 .. Len(s) - i : v[k] = s[i + k]
  OBVIOUS
<1>3. Fetch!RemoveAt(s, i) = u \o v
  BY DEF Fetch!RemoveAt
<1> HIDE DEF u, v
<1>4. /\ u \o v \in Seq(S) /\ Len(u \o v) = Len(u) + Len(v)
      /\ \A k \in 1 .. Len(u) + Len(v) :
            (u \o v)[k] = IF k <= Len(u) THEN u[k] ELSE v[k - Len(u)]
  BY <1>1, <1>2, ConcatProperties
<1>5. ASSUME NEW k \in 1 .. i - 1 PROVE (u \o v)[k] = s[k]
  BY <1>1, <1>2, <1>4
<1>6. ASSUME NEW k \in i .. Len(s) - 1 PROVE (u \o v)[k] = s[k + 1]
  <2>1. k \in 1 .. Len(u) + Len(v) /\ ~(k <= Len(u))
    BY <1>1, <1>2
  <2>2. k - Len(u) \in 1 .. Len(s) - i /\ i + (k - Len(u)) = k + 1
    BY <1>1
  <2>3. QED
    BY <1>2, <1>4, <2>1, <2>2
<1>7. QED
  BY <1>1, <1>2, <1>3, <1>4, <1>5, <1>6

\* One more of the first adds one element at most.
LEMMA OneMore ==
    ASSUME NEW S, NEW s \in Seq(S), NEW n \in Nat
    PROVE  FirstOf(s, n + 1) \subseteq FirstOf(s, n) \cup {s[n + 1]}
<1>1. ASSUME NEW k \in 1 .. Len(s), k <= n + 1, k # n + 1 PROVE k <= n
  BY <1>1
<1>2. QED
  BY <1>1 DEF FirstOf

\* Inserting puts one element among the first n, or none.
LEMMA InsertFirst ==
    ASSUME NEW S, NEW s \in Seq(S), NEW e \in S, NEW i \in 1 .. Len(s) + 1, NEW n \in Nat
    PROVE  /\ Fetch!ToSet(Fetch!InsertAt(s, i, e)) = Fetch!ToSet(s) \cup {e}
           /\ i <= n => FirstOf(Fetch!InsertAt(s, i, e), n) \subseteq FirstOf(s, n - 1) \cup {e}
           /\ i > n => FirstOf(Fetch!InsertAt(s, i, e), n) \subseteq FirstOf(s, n)
<1> DEFINE t == Fetch!InsertAt(s, i, e)
<1>1. /\ t \in Seq(S) /\ Len(t) = Len(s) + 1
      /\ \A k \in 1 .. i - 1 : t[k] = s[k]
      /\ t[i] = e
      /\ \A k \in i .. Len(s) : t[k + 1] = s[k]
  BY InsertAtPlaces
<1> HIDE DEF t
<1>2. ASSUME NEW k \in 1 .. Len(t)
      PROVE  \/ k < i /\ k \in 1 .. Len(s) /\ t[k] = s[k]
             \/ k = i /\ t[k] = e
             \/ k > i /\ k - 1 \in 1 .. Len(s) /\ t[k] = s[k - 1]
  <2>1. CASE k > i
    <3>1. PICK m \in i .. Len(s) : m = k - 1 /\ m + 1 = k
      BY <1>1, <2>1
    <3>2. QED
      BY <1>1, <2>1, <3>1
  <2>2. QED
    BY <1>1, <2>1
<1>3. e \in Fetch!ToSet(t)
  BY <1>1 DEF Fetch!ToSet
<1>4. ASSUME NEW k \in 1 .. Len(s) PROVE s[k] \in Fetch!ToSet(t)
  <2>1. CASE k < i
    BY <1>1, <2>1 DEF Fetch!ToSet
  <2>2. CASE ~(k < i)
    <3>1. k + 1 \in 1 .. Len(t) /\ t[k + 1] = s[k]
      BY <1>1, <2>2
    <3>2. PICK m \in 1 .. Len(t) : t[m] = s[k]
      BY <3>1
    <3>3. QED
      BY <3>2 DEF Fetch!ToSet
  <2>3. QED
    BY <2>1, <2>2
<1>5. Fetch!ToSet(t) = Fetch!ToSet(s) \cup {e}
  <2>1. ASSUME NEW k \in 1 .. Len(t) PROVE t[k] \in Fetch!ToSet(s) \cup {e}
    BY <1>2 DEF Fetch!ToSet
  <2>2. Fetch!ToSet(t) \subseteq Fetch!ToSet(s) \cup {e}
    BY <1>1, <2>1 DEF Fetch!ToSet
  <2>3. Fetch!ToSet(s) \subseteq Fetch!ToSet(t)
    BY <1>4 DEF Fetch!ToSet
  <2>4. QED
    BY <1>3, <2>2, <2>3
<1>6. i <= n => FirstOf(t, n) \subseteq FirstOf(s, n - 1) \cup {e}
  <2>1. ASSUME i <= n, NEW k \in 1 .. Len(t), k <= n, t[k] # e
        PROVE  \E m \in 1 .. Len(s) : m <= n - 1 /\ t[k] = s[m]
    BY <1>1, <1>2, <2>1
  <2>2. QED
    BY <2>1 DEF FirstOf
<1>7. i > n => FirstOf(t, n) \subseteq FirstOf(s, n)
  BY <1>1 DEF FirstOf
<1>8. QED
  BY <1>5, <1>6, <1>7 DEF t

\* Removing moves one element to the first n, or none.
LEMMA RemoveFirst ==
    ASSUME NEW S, NEW s \in Seq(S), NEW i \in 1 .. Len(s), NEW n \in Nat
    PROVE  /\ Fetch!ToSet(s) \ {s[i]} \subseteq Fetch!ToSet(Fetch!RemoveAt(s, i))
           /\ FirstOf(Fetch!RemoveAt(s, i), n) \subseteq FirstOf(s, n + 1)
<1> DEFINE t == Fetch!RemoveAt(s, i)
<1>1. /\ t \in Seq(S) /\ Len(t) = Len(s) - 1
      /\ \A k \in 1 .. i - 1 : t[k] = s[k]
      /\ \A k \in i .. Len(s) - 1 : t[k] = s[k + 1]
  BY RemoveAtPlaces
<1> HIDE DEF t
<1>2. ASSUME NEW k \in 1 .. Len(s), k # i PROVE s[k] \in Fetch!ToSet(t)
  <2>1. CASE k < i
    BY <1>1, <2>1 DEF Fetch!ToSet
  <2>2. CASE k > i
    <3>1. k - 1 \in 1 .. Len(t) /\ t[k - 1] = s[k]
      BY <1>1, <2>2
    <3>2. QED
      BY <1>1, <3>1 DEF Fetch!ToSet
  <2>3. QED
    BY <1>2, <2>1, <2>2
<1>3. FirstOf(t, n) \subseteq FirstOf(s, n + 1)
  BY <1>1 DEF FirstOf
<1>4. QED
  BY <1>2, <1>3 DEF t, Fetch!ToSet

\* The entries on the pages that were read, as the listing stands now.
Passed == FirstOf(listing, (page - 1) * PageSize)

Missed == (Passed \cap stayed) \ fetched

Bounded(S) == IsFiniteSet(S) /\ Cardinality(S) <= leaves

FetchInv ==
    /\ listing \in Seq(Entries)
    /\ page \in Nat
    /\ leaves \in Nat
    /\ stayed \subseteq Fetch!ToSet(listing)
    /\ aborted => page = 0
    /\ page > 0 => Bounded(Missed)
    /\ page = 0 /\ ~aborted => Bounded(stayed \ fetched)

\* What is missed grows with leaves.
LEMMA BoundGrows ==
    ASSUME NEW S, NEW T, NEW x, NEW n \in Nat, IsFiniteSet(S), Cardinality(S) <= n
    PROVE  /\ T \subseteq S => IsFiniteSet(T) /\ Cardinality(T) <= n
           /\ T \subseteq S \cup {x} => IsFiniteSet(T) /\ Cardinality(T) <= n + 1
<1>1. Cardinality(S) \in Nat
  BY FS_CardinalityType
<1>2. ASSUME T \subseteq S PROVE IsFiniteSet(T) /\ Cardinality(T) <= n
  <2>1. IsFiniteSet(T) /\ Cardinality(T) <= Cardinality(S)
    BY <1>2, FS_Subset
  <2>2. Cardinality(T) \in Nat
    BY <2>1, FS_CardinalityType
  <2>3. QED
    BY <1>1, <2>1, <2>2
<1>3. ASSUME T \subseteq S \cup {x} PROVE IsFiniteSet(T) /\ Cardinality(T) <= n + 1
  <2>1. IsFiniteSet(S \cup {x}) /\ Cardinality(S \cup {x}) <= Cardinality(S) + 1
    BY <1>1, FS_AddElement
  <2>2. IsFiniteSet(T) /\ Cardinality(T) <= Cardinality(S \cup {x})
    BY <1>3, <2>1, FS_Subset
  <2>3. Cardinality(T) \in Nat /\ Cardinality(S \cup {x}) \in Nat
    BY <2>1, <2>2, FS_CardinalityType
  <2>4. QED
    BY <1>1, <2>1, <2>2, <2>3
<1>4. QED
  BY <1>2, <1>3

\* A listing starts in its invariant,
LEMMA FetchInit == Fetch!Init => FetchInv
<1> SUFFICES ASSUME Fetch!Init PROVE FetchInv
  OBVIOUS
<1>1. listing \in Seq(Entries)
  BY DEF Fetch!Init
<1>2. page = 1 /\ leaves = 0 /\ stayed = Fetch!ToSet(listing) /\ ~aborted
  BY DEF Fetch!Init, Fetch!FirstPage
<1>3. (page - 1) * PageSize = 0
  BY <1>2, FetchParameters DEF Fetch!Parameters
<1>4. Missed = {}
  BY <1>3 DEF Missed, Passed, FirstOf
<1>5. QED
  BY <1>1, <1>2, <1>4, FS_EmptySet DEF FetchInv, Bounded

\* and neither a page nor a change of the listing leads out of it,
LEMMA FetchNext == FetchInv /\ [Fetch!Next]_fetchVars => FetchInv'
<1> SUFFICES ASSUME FetchInv, [Fetch!Next]_fetchVars PROVE FetchInv'
  OBVIOUS
<1>a. /\ listing \in Seq(Entries) /\ Len(listing) \in Nat
      /\ page \in Nat /\ leaves \in Nat /\ stayed \subseteq Fetch!ToSet(listing)
      /\ aborted => page = 0
  BY DEF FetchInv
<1>b. ASSUME page > 0 PROVE (page - 1) * PageSize \in Nat /\ page * PageSize \in Nat
  <2>1. PageSize \in Nat /\ page - 1 \in Nat /\ page \in Nat
    BY <1>a, <1>b, FetchParameters DEF Fetch!Parameters
  <2>2. \A m, n \in Nat : m * n \in Nat
    OBVIOUS
  <2>3. QED
    BY <2>1, <2>2
<1>1. CASE Fetch!ReadPage
  <2>1. /\ page > 0
        /\ fetched' = fetched \cup Fetch!ToSet(Fetch!PageOf(page))
        /\ page' = IF Fetch!HasNextPage(page) THEN page + 1 ELSE 0
        /\ UNCHANGED <<listing, aborted, stayed, leaves>>
    BY <1>1 DEF Fetch!ReadPage
  <2>2. IsFiniteSet(Missed) /\ Cardinality(Missed) <= leaves /\ ~aborted
    BY <1>a, <2>1 DEF FetchInv, Bounded
  <2>3. PICK from \in Nat, to \in Nat : from = (page - 1) * PageSize /\ to = page * PageSize
    BY <1>b, <2>1
  <2>4. ASSUME NEW k \in 1 .. Len(listing), k > from,
               k <= (IF to < Len(listing) THEN to ELSE Len(listing))
        PROVE  listing[k] \in fetched'
    <3> DEFINE last == IF to < Len(listing) THEN to ELSE Len(listing)
               s == SubSeq(listing, from + 1, last)
    <3>1. Fetch!PageOf(page) = s
      BY <2>3 DEF Fetch!PageOf, Fetch!HasNextPage
    <3>2. last \in Nat /\ last <= Len(listing)
      BY <1>a
    <3> HIDE DEF last
    <3>3. PICK m \in 1 .. last - from : m = k - from /\ from + 1 + m - 1 = k
      BY <2>4, <3>2 DEF last
    <3>4. s \in Seq(Entries) /\ Len(s) = last - from /\ s[m] = listing[k]
      BY <1>a, <3>2, <3>3
    <3> HIDE DEF s
    <3>5. listing[k] \in Fetch!ToSet(s)
      BY <3>3, <3>4 DEF Fetch!ToSet
    <3>6. QED
      BY <2>1, <3>1, <3>5
  <2>5. CASE to < Len(listing)
    <3>1. page' = page + 1 /\ (page' - 1) * PageSize = to
      BY <1>a, <2>1, <2>3, <2>5 DEF Fetch!HasNextPage
    <3>2. Passed' = FirstOf(listing, to) /\ Passed = FirstOf(listing, from)
      BY <2>1, <2>3, <3>1 DEF Passed
    <3>3. Missed' \subseteq Missed
      BY <2>1, <2>4, <2>5, <3>2 DEF Missed, FirstOf
    <3>4. Bounded(Missed)'
      BY <1>a, <2>1, <2>2, <3>3, BoundGrows DEF Bounded
    <3>5. QED
      BY <1>a, <2>1, <2>2, <3>1, <3>4 DEF FetchInv
  <2>6. CASE ~(to < Len(listing))
    <3>1. page' = 0
      BY <2>1, <2>3, <2>6 DEF Fetch!HasNextPage
    <3>2. Passed = FirstOf(listing, from)
      BY <2>3 DEF Passed
    <3>3. ASSUME NEW x \in stayed \ fetched' PROVE x \in Missed
      <4>1. PICK k \in 1 .. Len(listing) : listing[k] = x
        BY <1>a, <2>1 DEF Fetch!ToSet
      <4>2. k <= from
        BY <2>4, <2>6, <3>3, <4>1
      <4>3. QED
        BY <2>1, <3>2, <3>3, <4>1, <4>2 DEF Missed, FirstOf
    <3>4. Bounded(stayed \ fetched)'
      <4>1. (stayed \ fetched)' \subseteq Missed
        BY <2>1, <3>3
      <4>2. QED
        BY <1>a, <2>1, <2>2, <4>1, BoundGrows DEF Bounded
    <3>5. QED
      BY <1>a, <2>1, <2>2, <3>1, <3>4 DEF FetchInv
  <2>7. QED
    BY <2>5, <2>6
<1>2. CASE Fetch!Abort
  BY <1>a, <1>2 DEF Fetch!Abort, FetchInv
<1>c. ASSUME Fetch!Change
      PROVE  /\ page > 0 /\ UNCHANGED <<page, fetched, aborted>>
             /\ IsFiniteSet(Missed) /\ Cardinality(Missed) <= leaves
             /\ \E n \in Nat : Passed = FirstOf(listing, n) /\ Passed' = FirstOf(listing', n)
  BY <1>a, <1>b, <1>c DEF Fetch!Change, FetchInv, Bounded, Passed
<1>3. CASE Fetch!Enter
  <2>1. Fetch!Change /\ UNCHANGED <<stayed, leaves>>
    BY <1>3 DEF Fetch!Enter
  <2>2. PICK e \in Entries \ Fetch!ToSet(listing), i \in 1 .. Len(listing) + 1 :
          listing' = Fetch!InsertAt(listing, i, e)
    BY <1>3 DEF Fetch!Enter
  <2>3. PICK n \in Nat : Passed = FirstOf(listing, n) /\ Passed' = FirstOf(listing', n)
    BY <1>c, <2>1
  <2>4. listing' \in Seq(Entries)
    BY <1>a, <2>2, InsertAtPlaces
  <2>5. /\ Fetch!ToSet(listing') = Fetch!ToSet(listing) \cup {e}
        /\ FirstOf(listing', n) \subseteq FirstOf(listing, n) \cup {e}
    <3>1. FirstOf(listing, n - 1) \subseteq FirstOf(listing, n)
      BY <1>a DEF FirstOf
    <3>2. i <= n \/ i > n
      BY <1>a
    <3>3. QED
      BY <1>a, <2>2, <3>1, <3>2, InsertFirst
  <2>6. e \notin stayed
    BY <1>a, <2>2
  <2>7. Missed' \subseteq Missed
    BY <1>c, <2>1, <2>3, <2>5, <2>6 DEF Missed
  <2>8. Bounded(Missed)'
    BY <1>a, <1>c, <2>1, <2>7, BoundGrows DEF Bounded
  <2>9. QED
    BY <1>a, <1>c, <2>1, <2>4, <2>5, <2>8 DEF FetchInv
<1>4. CASE Fetch!Leave
  <2>1. Fetch!Change /\ leaves' = leaves + 1
    BY <1>4 DEF Fetch!Leave
  <2>2. PICK i \in 1 .. Len(listing) :
          listing' = Fetch!RemoveAt(listing, i) /\ stayed' = stayed \ {listing[i]}
    BY <1>4 DEF Fetch!Leave
  <2>3. PICK n \in Nat : Passed = FirstOf(listing, n) /\ Passed' = FirstOf(listing', n)
    BY <1>c, <2>1
  <2>4. listing' \in Seq(Entries)
    BY <1>a, <2>2, RemoveAtPlaces
  <2>5. /\ Fetch!ToSet(listing) \ {listing[i]} \subseteq Fetch!ToSet(listing')
        /\ FirstOf(listing', n) \subseteq FirstOf(listing, n) \cup {listing[n + 1]}
    BY <1>a, <2>2, RemoveFirst, OneMore
  <2>6. Missed' \subseteq Missed \cup {listing[n + 1]}
    BY <1>c, <2>1, <2>2, <2>3, <2>5 DEF Missed
  <2>7. Bounded(Missed)'
    BY <1>a, <1>c, <2>1, <2>6, BoundGrows DEF Bounded
  <2>8. QED
    BY <1>a, <1>c, <2>1, <2>2, <2>4, <2>5, <2>7 DEF FetchInv
<1>5. CASE Fetch!Move
  <2>1. Fetch!Change /\ leaves' = leaves + 1 /\ stayed' = stayed
    BY <1>5 DEF Fetch!Move
  <2>2. PICK i \in 1 .. Len(listing), j \in 1 .. Len(listing) :
          listing' = Fetch!InsertAt(Fetch!RemoveAt(listing, i), j, listing[i])
    BY <1>5 DEF Fetch!Move
  <2> DEFINE others == Fetch!RemoveAt(listing, i)
             e == listing[i]
  <2>3. PICK n \in Nat : Passed = FirstOf(listing, n) /\ Passed' = FirstOf(listing', n)
    BY <1>c, <2>1
  <2>4. others \in Seq(Entries) /\ Len(others) + 1 = Len(listing) /\ e \in Entries
    BY <1>a, RemoveAtPlaces
  <2>5. /\ Fetch!ToSet(listing) \ {e} \subseteq Fetch!ToSet(others)
        /\ \A m \in Nat : FirstOf(others, m) \subseteq FirstOf(listing, m + 1)
    BY <1>a, RemoveFirst
  <2> HIDE DEF others, e
  <2>6. listing' = Fetch!InsertAt(others, j, e) /\ j \in 1 .. Len(others) + 1
    BY <2>2, <2>4 DEF others, e
  <2>7. /\ listing' \in Seq(Entries)
        /\ Fetch!ToSet(listing') = Fetch!ToSet(others) \cup {e}
    BY <2>4, <2>6, InsertAtPlaces, InsertFirst
  <2>8. \E x : FirstOf(listing', n) \subseteq FirstOf(listing, n) \cup {x}
    <3>1. CASE j <= n
      <4>1. FirstOf(listing', n) \subseteq FirstOf(others, n - 1) \cup {e}
        BY <2>4, <2>6, <3>1, InsertFirst
      <4>2. n - 1 \in Nat /\ n - 1 + 1 = n
        BY <3>1
      <4>3. FirstOf(others, n - 1) \subseteq FirstOf(listing, n)
        BY <2>5, <4>2
      <4>4. QED
        BY <4>1, <4>3
    <3>2. CASE ~(j <= n)
      <4>1. FirstOf(listing', n) \subseteq FirstOf(others, n)
        BY <2>4, <2>6, <3>2, InsertFirst
      <4>2. FirstOf(listing, n + 1) \subseteq FirstOf(listing, n) \cup {listing[n + 1]}
        BY <1>a, OneMore
      <4>3. QED
        BY <2>5, <4>1, <4>2
    <3>3. QED
      BY <3>1, <3>2
  <2>9. PICK x : Missed' \subseteq Missed \cup {x}
    BY <1>c, <2>1, <2>3, <2>8 DEF Missed
  <2>10. Bounded(Missed)'
    BY <1>a, <1>c, <2>1, <2>9, BoundGrows DEF Bounded
  <2>11. QED
    BY <1>a, <1>c, <2>1, <2>5, <2>7, <2>10 DEF FetchInv
<1>6. CASE UNCHANGED fetchVars
  BY <1>6 DEF fetchVars, FetchInv, Bounded, Missed, Passed
<1>7. QED
  BY <1>1, <1>2, <1>3, <1>4, <1>5, <1>6 DEF Fetch!Next

\* where misses are bounded.
LEMMA FetchSafe == FetchInv => Fetch!MissesBounded
<1>1. \A S : Fetch!Cardinality(S) = Cardinality(S)
  BY DEF Fetch!Cardinality, Cardinality
<1>2. QED
  BY <1>1 DEF FetchInv, Bounded, Fetch!MissesBounded

-----------------------------------------------------------------------------
(***************************************************************************)
(* Transport: what the caller has read and what the transport still holds  *)
(* make up the bytes that were read of the body, without gap or overlap.   *)
(***************************************************************************)

ResponseOK ==
    /\ response.length \in Nat
    /\ response.end \in {"eof", "error"}

BytesInOrder ==
    /\ pos \in 0 .. response.length
    /\ Len(got) \in 0 .. pos
    /\ got = Transport!Bytes(1, Len(got))
    /\ prefix = Transport!Bytes(Len(got) + 1, pos)

\* An error that was met while peeking stands behind the last byte.
ErrorKept ==
    /\ rest \in {"body", "errReader"}
    /\ broken = (rest = "errReader")
    /\ rest = "errReader" => pos = response.length /\ response.end = "error"
    /\ peeking => ended = "no" /\ got = <<>>

EndIsTheEnd ==
    ended \in {"eof", "error"} => Len(got) = response.length /\ ended = response.end

TransportInv == ResponseOK /\ BytesInOrder /\ ErrorKept /\ EndIsTheEnd

\* The bytes first..last are a sequence of that many numbers.
LEMMA BytesAre ==
    ASSUME NEW first \in Nat, NEW last \in Nat, first <= last + 1
    PROVE  /\ Transport!Bytes(first, last) \in Seq(Int)
           /\ Len(Transport!Bytes(first, last)) = last + 1 - first
           /\ \A i \in 1 .. last + 1 - first :
                Transport!Bytes(first, last)[i] = first + i - 1
<1>1. Transport!Bytes(first, last) \in [1 .. last + 1 - first -> Int]
  BY DEF Transport!Bytes
<1>2. last + 1 - first \in Nat
  OBVIOUS
<1>3. QED
  BY <1>1, <1>2 DEF Transport!Bytes

\* Bytes that follow each other can be put together.
LEMMA BytesJoin ==
    ASSUME NEW first \in Nat, NEW mid \in Nat, NEW last \in Nat,
           first <= mid + 1, mid <= last
    PROVE  Transport!Bytes(first, mid) \o Transport!Bytes(mid + 1, last)
               = Transport!Bytes(first, last)
<1> DEFINE a == Transport!Bytes(first, mid)
           b == Transport!Bytes(mid + 1, last)
           c == Transport!Bytes(first, last)
<1>1. /\ a \in Seq(Int) /\ Len(a) = mid + 1 - first
      /\ \A i \in 1 .. mid + 1 - first : a[i] = first + i - 1
  BY BytesAre
<1>2. /\ b \in Seq(Int) /\ Len(b) = last - mid
      /\ \A i \in 1 .. last - mid : b[i] = mid + i
  <2>1. PICK k \in Nat : k = mid + 1
    OBVIOUS
  <2>2. /\ Transport!Bytes(k, last) \in Seq(Int)
        /\ Len(Transport!Bytes(k, last)) = last + 1 - k
        /\ \A i \in 1 .. last + 1 - k : Transport!Bytes(k, last)[i] = k + i - 1
    BY <2>1, BytesAre
  <2>3. b = Transport!Bytes(k, last) /\ last + 1 - k = last - mid
    BY <2>1
  <2>4. \A i \in 1 .. last - mid : k + i - 1 = mid + i
    BY <2>1
  <2>5. QED
    BY <2>2, <2>3, <2>4
<1>3. /\ c \in Seq(Int) /\ Len(c) = last + 1 - first
      /\ \A i \in 1 .. last + 1 - first : c[i] = first + i - 1
  <2>1. first <= last + 1
    OBVIOUS
  <2>2. QED
    BY <2>1, BytesAre
<1> HIDE DEF a, b, c
<1>4. /\ a \o b \in Seq(Int) /\ Len(a \o b) = Len(a) + Len(b)
      /\ \A i \in 1 .. Len(a) + Len(b) :
            (a \o b)[i] = IF i <= Len(a) THEN a[i] ELSE b[i - Len(a)]
  BY <1>1, <1>2, ConcatProperties
<1>5. Len(a \o b) = Len(c)
  BY <1>1, <1>2, <1>3, <1>4
<1>6. ASSUME NEW i \in 1 .. Len(a \o b) PROVE (a \o b)[i] = c[i]
  <2>1. i \in 1 .. last + 1 - first
    BY <1>3, <1>5
  <2>2. CASE i <= Len(a)
    BY <1>1, <1>3, <1>4, <2>1, <2>2
  <2>3. CASE ~(i <= Len(a))
    <3>1. i - Len(a) \in 1 .. last - mid /\ mid + (i - Len(a)) = first + i - 1
      BY <1>1, <2>1, <2>3
    <3>2. QED
      BY <1>2, <1>3, <1>4, <2>1, <2>3, <3>1
  <2>4. QED
    BY <2>2, <2>3
<1>7. a \o b = c
  BY <1>3, <1>4, <1>5, <1>6, SeqEqual
<1>8. QED
  BY <1>7 DEF a, b, c

\* A response starts in its invariant,
LEMMA TransportInit == Transport!Init => TransportInv
<1> SUFFICES ASSUME Transport!Init PROVE TransportInv
  OBVIOUS
<1>1. Transport!Bytes(1, 0) = <<>> /\ Len(<<>>) = 0
  BY EmptySeq DEF Transport!Bytes
<1>2. ResponseOK
  BY TransportParameters DEF Transport!Parameters, Transport!Init, ResponseOK
<1>3. Len(got) = 0 /\ pos = 0 /\ got = <<>> /\ prefix = <<>>
  BY <1>1 DEF Transport!Init
<1>4. BytesInOrder
  BY <1>1, <1>2, <1>3 DEF BytesInOrder, ResponseOK
<1>5. QED
  BY <1>2, <1>4 DEF Transport!Init, TransportInv, ErrorKept, EndIsTheEnd

\* and no read leads out of it,
LEMMA TransportNext ==
    TransportInv /\ [Transport!Next]_transportVars => TransportInv'
<1> SUFFICES ASSUME TransportInv, [Transport!Next]_transportVars PROVE TransportInv'
  OBVIOUS
<1>a. /\ pos \in Nat /\ response.length \in Nat /\ pos <= response.length
      /\ Len(got) \in Nat /\ Len(got) <= pos
      /\ got = Transport!Bytes(1, Len(got))
      /\ prefix = Transport!Bytes(Len(got) + 1, pos)
  BY DEF TransportInv, ResponseOK, BytesInOrder
<1>b. Len(prefix) = pos - Len(got) /\ prefix \in Seq(Int)
  <2>1. PICK k \in Nat : k = Len(got) + 1
    BY <1>a
  <2>2. QED
    <3>1. k <= pos + 1 /\ prefix = Transport!Bytes(k, pos) /\ pos + 1 - k = pos - Len(got)
      BY <1>a, <2>1
    <3>2. QED
      BY <1>a, <3>1, BytesAre
<1>c. prefix = <<>> => pos = Len(got)
  BY <1>a, <1>b
<1>1. CASE Transport!Peek
  <2>1. /\ peeking /\ UNCHANGED <<response, got, ended>>
        /\ got = <<>> /\ Len(got) = 0 /\ ended = "no"
    BY <1>1 DEF Transport!Peek, TransportInv, ErrorKept
  <2>2. PICK r \in Transport!Reads(PeekBytes - Len(prefix)) :
          /\ prefix' = prefix \o Transport!Bytes(pos + 1, pos + r.bytes)
          /\ pos' = pos + r.bytes
          /\ rest' = Transport!Rest(r.status)
          /\ peeking' = (r.status = "more")
          /\ broken' = (r.status = "error")
    BY <1>1 DEF Transport!Peek
  <2>3. /\ r.bytes \in Nat /\ pos + r.bytes <= response.length
        /\ r.status \in {"more", response.end}
        /\ r.status # "more" => pos + r.bytes = response.length
    BY <1>a, <1>b, <2>2, TransportParameters DEF Transport!Reads, Transport!Parameters
  <2>4. prefix' = Transport!Bytes(1, pos')
    <3>1. PICK m \in Nat : m = pos + r.bytes
      BY <1>a, <2>3
    <3>2. Transport!Bytes(1, pos) \o Transport!Bytes(pos + 1, m) = Transport!Bytes(1, m)
      <4>1. 1 \in Nat /\ 1 <= pos + 1 /\ pos <= m
        BY <1>a, <2>3, <3>1
      <4>2. QED
        BY <1>a, <4>1, BytesJoin
    <3>3. QED
      BY <1>a, <2>1, <2>2, <3>1, <3>2
  <2>5. BytesInOrder'
    BY <1>a, <2>1, <2>2, <2>3, <2>4 DEF BytesInOrder
  <2>6. ResponseOK' /\ EndIsTheEnd'
    BY <2>1 DEF TransportInv, ResponseOK, EndIsTheEnd
  <2>7. ErrorKept'
    BY <2>1, <2>2, <2>3 DEF TransportInv, ResponseOK, ErrorKept, Transport!Rest
  <2>8. QED
    BY <2>5, <2>6, <2>7 DEF TransportInv
<1>2. CASE Transport!PeekFull
  BY <1>2
  DEF Transport!PeekFull, TransportInv, ResponseOK, BytesInOrder, ErrorKept, EndIsTheEnd
<1>3. CASE Transport!ReadPrefix
  <2>1. /\ ~peeking /\ ended = "no"
        /\ UNCHANGED <<response, pos, rest, peeking, broken, ended>>
    BY <1>3 DEF Transport!ReadPrefix, Transport!Open
  <2>2. PICK n \in 1 .. Len(prefix) :
          /\ got' = got \o SubSeq(prefix, 1, n)
          /\ prefix' = SubSeq(prefix, n + 1, Len(prefix))
    BY <1>3 DEF Transport!ReadPrefix
  <2>3. PICK k \in Nat, m \in Nat : k = Len(got) + 1 /\ m = Len(got) + n
    BY <1>a, <1>b, <2>2
  <2>4. k <= m + 1 /\ m <= pos /\ n \in Nat /\ n = m + 1 - k
    BY <1>a, <1>b, <2>2, <2>3
  <2>5. /\ SubSeq(prefix, 1, n) = Transport!Bytes(k, m)
        /\ prefix' = Transport!Bytes(m + 1, pos)
    <3>1. PICK b \in Seq(Int), last \in Nat : b = prefix /\ last = pos
      BY <1>a, <1>b
    <3>2. b = Transport!Bytes(k, last) /\ k <= last + 1 /\ m <= last
      BY <1>a, <2>3, <2>4, <3>1
    <3>3. Len(b) = last + 1 - k /\ \A i \in 1 .. last + 1 - k : b[i] = k + i - 1
      BY <3>2, BytesAre
    <3>4. SubSeq(b, 1, n) = Transport!Bytes(k, m)
      BY <2>4, <3>2, <3>3 DEF Transport!Bytes
    <3>5. SubSeq(b, n + 1, Len(b)) = Transport!Bytes(m + 1, last)
      BY <2>4, <3>2, <3>3 DEF Transport!Bytes
    <3>6. QED
      BY <2>2, <3>1, <3>4, <3>5
  <2>6. got' = Transport!Bytes(1, m)
    <3>1. Transport!Bytes(1, Len(got)) \o Transport!Bytes(Len(got) + 1, m)
            = Transport!Bytes(1, m)
      <4>1. 1 \in Nat /\ 1 <= Len(got) + 1 /\ Len(got) <= m
        BY <1>a, <2>2, <2>3
      <4>2. QED
        BY <1>a, <4>1, BytesJoin
    <3>2. QED
      BY <1>a, <2>2, <2>3, <2>4, <2>5, <3>1
  <2>7. Len(got') = m
    <3>1. 1 \in Nat /\ 1 <= m + 1 /\ m + 1 - 1 = m
      BY <2>3
    <3>2. QED
      BY <2>6, <3>1, BytesAre
  <2>8. BytesInOrder'
    BY <1>a, <2>1, <2>3, <2>4, <2>5, <2>6, <2>7 DEF BytesInOrder
  <2>9. QED
    BY <2>1, <2>8 DEF TransportInv, ResponseOK, ErrorKept, EndIsTheEnd
<1>4. CASE Transport!ReadRest
  <2>1. /\ ~peeking /\ ended = "no" /\ prefix = <<>> /\ pos = Len(got)
        /\ UNCHANGED <<response, prefix, rest, peeking, broken>>
    BY <1>4, <1>c DEF Transport!ReadRest, Transport!Open
  <2>2. CASE rest = "errReader"
    <3>1. ended' = "error" /\ UNCHANGED <<pos, got>>
      BY <1>4, <2>2 DEF Transport!ReadRest
    <3>2. QED
      BY <2>1, <2>2, <3>1
      DEF TransportInv, ResponseOK, BytesInOrder, ErrorKept, EndIsTheEnd
  <2>3. CASE rest = "body"
    <3>1. PICK r \in Transport!Reads(response.length + 1) :
            /\ got' = got \o Transport!Bytes(pos + 1, pos + r.bytes)
            /\ pos' = pos + r.bytes
            /\ ended' \in (IF r.status = "more" THEN {"no"}
                           ELSE IF broken THEN {"eof", "error"}
                           ELSE {r.status})
      BY <1>4, <2>3 DEF Transport!ReadRest
    <3>2. /\ r.bytes \in Nat /\ pos + r.bytes <= response.length
          /\ r.status \in {"more", response.end}
          /\ r.status # "more" => pos + r.bytes = response.length
      BY <1>a, <3>1 DEF Transport!Reads
    <3>3. PICK m \in Nat : m = pos + r.bytes
      BY <1>a, <3>2
    <3>4. got' = Transport!Bytes(1, m)
      <4>1. Transport!Bytes(1, pos) \o Transport!Bytes(pos + 1, m) = Transport!Bytes(1, m)
        <5>1. 1 \in Nat /\ 1 <= pos + 1 /\ pos <= m
          BY <1>a, <3>2, <3>3
        <5>2. QED
          BY <1>a, <5>1, BytesJoin
      <4>2. QED
        BY <1>a, <2>1, <3>1, <3>3, <4>1
    <3>5. Len(got') = m
      <4>1. 1 \in Nat /\ 1 <= m + 1 /\ m + 1 - 1 = m
        BY <3>3
      <4>2. QED
        BY <3>4, <4>1, BytesAre
    <3>6. prefix' = Transport!Bytes(m + 1, m)
      <4>1. Transport!Bytes(m + 1, m) = <<>>
        BY <3>3 DEF Transport!Bytes
      <4>2. QED
        BY <2>1, <4>1
    <3>7. BytesInOrder'
      <4>1. pos' = m /\ response' = response /\ m <= response.length
        BY <2>1, <3>1, <3>2, <3>3
      <4>2. prefix' = <<>> /\ got' = Transport!Bytes(1, m) /\ Len(got') = m
        BY <2>1, <3>4, <3>5
      <4>3. QED
        BY <3>6, <4>1, <4>2 DEF BytesInOrder
    <3>8. ~broken
      BY <2>3 DEF TransportInv, ErrorKept
    <3>9. ended' \in {"eof", "error"} => Len(got') = response.length /\ ended' = response.end
      BY <3>1, <3>2, <3>3, <3>5, <3>8 DEF TransportInv, ResponseOK
    <3>10. ErrorKept'
      BY <1>a, <2>1, <2>3, <3>8 DEF TransportInv, ErrorKept
    <3>11. QED
      BY <2>1, <3>7, <3>9, <3>10 DEF TransportInv, ResponseOK, EndIsTheEnd
  <2>4. QED
    BY <2>2, <2>3 DEF TransportInv, ErrorKept
<1>5. CASE Transport!Close
  BY <1>5 DEF Transport!Close, Transport!Open,
              TransportInv, ResponseOK, BytesInOrder, ErrorKept, EndIsTheEnd
<1>6. CASE UNCHANGED transportVars
  BY <1>6 DEF transportVars,
              TransportInv, ResponseOK, BytesInOrder, ErrorKept, EndIsTheEnd
<1>7. QED
  BY <1>1, <1>2, <1>3, <1>4, <1>5, <1>6 DEF Transport!Next

\* where the body read is the body sent.
LEMMA TransportSafe == TransportInv => Transport!SameBody
BY DEF TransportInv, BytesInOrder, EndIsTheEnd, Transport!SameBody

-----------------------------------------------------------------------------
(***************************************************************************)
(* MemDB.                                                                  *)
(***************************************************************************)
Viewing == {"view", "loaded"}
Updating == {"update", "put", "unlock"}

(***************************************************************************)
(* The invariant: the lock's state follows from where the consumers are,   *)
(* it keeps a writer alone, a consumer about to put finds a bucket, and    *)
(* the position of a consumer agrees with the store all the way from its   *)
(* load to the end of its Update.                                          *)
(***************************************************************************)

MemTypeOK ==
    /\ offsets \in MemDB!Buckets \cup {NoBucket, Closed}
    /\ at \in [Partitions -> {"start", "execute", "panicked"} \cup Viewing \cup Updating]
    /\ position \in [Partitions -> 0 .. MaxOffset]

LockFollows ==
    /\ readers = {p \in Partitions : at[p] \in Viewing}
    /\ writer = {p \in Partitions : at[p] \in Updating}

WriterAlone ==
    /\ readers = {} \/ writer = {}
    /\ \A p, q \in writer : p = q

BucketToPut == \A p \in Partitions : at[p] \in {"put", "unlock"} => offsets \in MemDB!Buckets

PositionAgrees ==
    offsets # Closed => \A p \in Partitions :
        at[p] \in {"loaded", "execute"} \cup Updating => position[p] = MemDB!Get(p)

MemInv == MemTypeOK /\ LockFollows /\ WriterAlone /\ BucketToPut /\ PositionAgrees

\* A bucket is made empty.
LEMMA EmptyBucketIsOne == MemDB!EmptyBucket \in MemDB!Buckets /\ DOMAIN MemDB!EmptyBucket = {}
<1>1. {} \in SUBSET Partitions
  OBVIOUS
<1>2. MemDB!EmptyBucket \in [{} -> 0 .. MaxOffset]
  BY DEF MemDB!EmptyBucket
<1>3. MemDB!EmptyBucket \in MemDB!Buckets
  BY <1>1, <1>2, Zenon DEF MemDB!Buckets
<1>4. QED
  BY <1>3 DEF MemDB!EmptyBucket

\* The store starts in its invariant,
LEMMA MemDBInit == MemDB!Init => MemInv
BY MemDBParameters DEF MemDB!Parameters, MemDB!Init, MemInv, MemTypeOK, LockFollows,
   WriterAlone, BucketToPut,
       PositionAgrees, Viewing, Updating

\* What a Put makes of a bucket.
LEMMA PutBucket ==
    ASSUME offsets \in MemDB!Buckets, NEW p \in Partitions, NEW n \in 0 .. MaxOffset
    PROVE  LET b == [q \in DOMAIN offsets \cup {p} |-> IF q = p THEN n ELSE offsets[q]]
           IN  /\ b \in MemDB!Buckets
               /\ DOMAIN b = DOMAIN offsets \cup {p}
               /\ b[p] = n
               /\ \A q \in DOMAIN offsets : q # p => b[q] = offsets[q]
<1> DEFINE b == [q \in DOMAIN offsets \cup {p} |-> IF q = p THEN n ELSE offsets[q]]
<1>1. PICK S \in SUBSET Partitions : offsets \in [S -> 0 .. MaxOffset]
  BY DEF MemDB!Buckets
<1>2. b \in [S \cup {p} -> 0 .. MaxOffset]
  BY <1>1
<1>3. S \cup {p} \in SUBSET Partitions
  BY <1>1
<1>4. b \in MemDB!Buckets
  BY <1>2, <1>3 DEF MemDB!Buckets
<1>5. QED
  BY <1>4

\* A Put stores the next offset of its partition and leaves the others alone.
LEMMA PutStores ==
    ASSUME NEW p \in Partitions, MemDB!Put(p), offsets \in MemDB!Buckets,
           position[p] + 1 \in 0 .. MaxOffset
    PROVE  /\ offsets' \in MemDB!Buckets
           /\ DOMAIN offsets' = DOMAIN offsets \cup {p}
           /\ offsets'[p] = position[p] + 1
           /\ \A q \in DOMAIN offsets : q # p => offsets'[q] = offsets[q]
<1>1. PICK n \in 0 .. MaxOffset : n = position[p] + 1
  OBVIOUS
<1> DEFINE b == [q \in DOMAIN offsets \cup {p} |-> IF q = p THEN n ELSE offsets[q]]
<1>2. offsets' = b
  BY <1>1 DEF MemDB!Put
<1>3. /\ b \in MemDB!Buckets /\ DOMAIN b = DOMAIN offsets \cup {p}
      /\ b[p] = n /\ \A q \in DOMAIN offsets : q # p => b[q] = offsets[q]
  BY PutBucket
<1> HIDE DEF b
<1>4. QED
  BY <1>1, <1>2, <1>3

\* and no step of a consumer and no Close leads out of it,
LEMMA MemDBNext == MemInv /\ [MemDB!Next]_memVars => MemInv'
<1> SUFFICES ASSUME MemInv, [MemDB!Next]_memVars PROVE MemInv'
  OBVIOUS
<1> USE DEF MemInv, MemTypeOK, LockFollows, WriterAlone, BucketToPut, PositionAgrees,
            Viewing, Updating, MemDB!Step, MemDB!Get
<1>1. ASSUME NEW p \in Partitions, MemDB!View(p) PROVE MemInv'
  BY <1>1 DEF MemDB!View
<1>2. ASSUME NEW p \in Partitions, MemDB!LoadOffset(p) PROVE MemInv'
  <2>1. MemDB!Get(p) \in 0 .. MaxOffset
    BY MemDBParameters DEF MemDB!Parameters, MemDB!Buckets
  <2>2. QED
    BY <1>2, <2>1 DEF MemDB!LoadOffset
<1>3. ASSUME NEW p \in Partitions, MemDB!EndView(p) PROVE MemInv'
  BY <1>3 DEF MemDB!EndView
<1>4. ASSUME NEW p \in Partitions, MemDB!Update(p) PROVE MemInv'
  BY <1>4 DEF MemDB!Update, MemDB!CanLock
<1>5. ASSUME NEW p \in Partitions, MemDB!CreateBucketIfNotExists(p) PROVE MemInv'
  <2>1. MemDB!EmptyBucket \in MemDB!Buckets /\ DOMAIN MemDB!EmptyBucket = {}
    BY EmptyBucketIsOne
  <2>2. CASE offsets = Closed
    BY <1>5, <2>2, MemDBParameters DEF MemDB!CreateBucketIfNotExists, MemDB!Parameters
  <2>3. CASE offsets # Closed
    BY <1>5, <2>1, <2>3, MemDBParameters
       DEF MemDB!CreateBucketIfNotExists, MemDB!Created, MemDB!Parameters
  <2>4. QED
    BY <2>2, <2>3
<1>6. ASSUME NEW p \in Partitions, MemDB!Put(p) PROVE MemInv'
  <2>1. offsets \in MemDB!Buckets /\ position[p] + 1 \in 0 .. MaxOffset
    BY <1>6, MemDBParameters DEF MemDB!Put, MemDB!Parameters
  <2>2. /\ offsets' \in MemDB!Buckets
        /\ DOMAIN offsets' = DOMAIN offsets \cup {p}
        /\ offsets'[p] = position[p] + 1
        /\ \A q \in DOMAIN offsets : q # p => offsets'[q] = offsets[q]
    BY <1>6, <2>1, PutStores
  <2>3. offsets' # Closed /\ offsets' # NoBucket /\ offsets # Closed /\ offsets # NoBucket
    BY <2>1, <2>2, MemDBParameters DEF MemDB!Parameters
  <2>4. /\ at' = [at EXCEPT ![p] = "unlock"] /\ at[p] = "put"
        /\ position' = [position EXCEPT ![p] = position[p] + 1]
        /\ UNCHANGED <<readers, writer>>
    BY <1>6 DEF MemDB!Put
  <2>5. MemTypeOK' /\ LockFollows' /\ WriterAlone' /\ BucketToPut'
    BY <2>1, <2>2, <2>4
  <2>6. ASSUME NEW q \in Partitions,
               at'[q] \in {"loaded", "execute", "update", "put", "unlock"}
        PROVE  position'[q] = MemDB!Get(q)'
    <3>1. MemDB!Get(q)' = IF q \in DOMAIN offsets' THEN offsets'[q] ELSE 0
      BY <2>3
    <3>2. CASE q = p
      BY <2>2, <2>4, <3>1, <3>2
    <3>3. CASE q # p
      <4>1. at'[q] = at[q] /\ position'[q] = position[q]
        BY <2>4, <3>3
      <4>2. position[q] = MemDB!Get(q)
        BY <2>3, <2>6, <4>1
      <4>3. MemDB!Get(q) = IF q \in DOMAIN offsets THEN offsets[q] ELSE 0
        BY <2>3
      <4>4. QED
        BY <2>2, <3>1, <3>3, <4>1, <4>2, <4>3
    <3>4. QED
      BY <3>2, <3>3
  <2>7. QED
    BY <2>3, <2>5, <2>6
<1>7. ASSUME NEW p \in Partitions, MemDB!EndUpdate(p) PROVE MemInv'
  BY <1>7 DEF MemDB!EndUpdate
<1>8. ASSUME NEW p \in Partitions, MemDB!UpdateFails(p) PROVE MemInv'
  BY <1>8 DEF MemDB!UpdateFails
<1>9. CASE MemDB!Close
  BY <1>9, MemDBParameters DEF MemDB!Close, MemDB!CanLock, MemDB!Parameters
<1>10. CASE UNCHANGED memVars
  BY <1>10 DEF memVars
<1>11. QED
  BY <1>1, <1>2, <1>3, <1>4, <1>5, <1>6, <1>7, <1>8, <1>9, <1>10 DEF MemDB!Next

\* where nothing is forgotten
LEMMA MemDBSafe == MemInv => MemDB!NothingForgotten
BY DEF MemInv, PositionAgrees, MemDB!NothingForgotten, Updating

\* and no step changes what a View reads.
LEMMA MemDBKeeps == MemInv /\ [MemDB!Next]_memVars => MemDB!KeepsViews
<1> SUFFICES ASSUME MemInv, [MemDB!Next]_memVars, offsets' # offsets
             PROVE  readers \cap readers' = {}
  BY DEF MemDB!KeepsViews
<1>1. CASE MemDB!Close
  BY <1>1 DEF MemDB!Close, MemDB!CanLock
<1>2. ASSUME NEW p \in Partitions, MemDB!CreateBucketIfNotExists(p) \/ MemDB!Put(p)
      PROVE  readers = {}
  BY <1>2
  DEF MemDB!CreateBucketIfNotExists, MemDB!Put, MemDB!Step, MemInv, LockFollows,
      WriterAlone, Updating
<1>3. QED
  BY <1>1, <1>2
  DEF MemDB!Next, MemDB!View, MemDB!LoadOffset, MemDB!EndView, MemDB!Update,
      MemDB!EndUpdate, MemDB!UpdateFails, memVars

(***************************************************************************)
(* The store as OffsetStore sees it.                                       *)
(***************************************************************************)
Holding == {"loaded", "execute", "update", "put", "unlock"}

\* What OffsetStore sees of the part, before and after a step.
LEMMA StoreSeen ==
    ASSUME part = "memdb", part' = part
    PROVE  /\ StoreOpen = (offsets # Closed)
           /\ StoreOpen' = (offsets' # Closed)
           /\ StoredOffsets = [p \in Partitions |-> MemDB!Get(p)]
           /\ StoredOffsets' = [p \in Partitions |-> MemDB!Get(p)']
           /\ HeldOffsets = [p \in Partitions |->
                               IF at[p] \in Holding THEN {position[p]} ELSE {}]
           /\ HeldOffsets' = [p \in Partitions |->
                               IF at'[p] \in Holding THEN {position'[p]} ELSE {}]
BY DEF StoreOpen, StoredOffsets, HeldOffsets, Holding

\* A step that leaves the bucket alone leaves the counters alone.
LEMMA SameCounters ==
    ASSUME part = "memdb", part' = part, offsets' = offsets
    PROVE  StoreOpen' = StoreOpen /\ StoredOffsets' = StoredOffsets
<1>1. \A p \in Partitions : MemDB!Get(p)' = MemDB!Get(p)
  BY DEF MemDB!Get
<1>2. QED
  BY <1>1, StoreSeen

\* A consumer that moves takes nothing from the others.
LEMMA OneMoves ==
    ASSUME part = "memdb", part' = part, MemTypeOK, NEW p \in Partitions, NEW to, NEW n,
           at' = [at EXCEPT ![p] = to],
           position' = [position EXCEPT ![p] = n]
    PROVE  HeldOffsets' = [HeldOffsets EXCEPT ![p] = IF to \in Holding THEN {n} ELSE {}]
<1> DEFINE h == IF to \in Holding THEN {n} ELSE {}
           H == [q \in Partitions |-> IF at[q] \in Holding THEN {position[q]} ELSE {}]
           K == [q \in Partitions |-> IF at'[q] \in Holding THEN {position'[q]} ELSE {}]
<1>1. HeldOffsets = H /\ HeldOffsets' = K
  BY StoreSeen
<1>2. /\ at'[p] = to /\ position'[p] = n
      /\ \A q \in Partitions : q # p => at'[q] = at[q] /\ position'[q] = position[q]
  BY DEF MemTypeOK
<1>3. \A q \in Partitions : K[q] = IF q = p THEN h ELSE H[q]
  BY <1>2
<1>4. K = [H EXCEPT ![p] = h]
  BY <1>3
<1>5. QED
  BY <1>1, <1>4

\* The same where its position stays.
LEMMA OneStays ==
    ASSUME part = "memdb", part' = part, MemTypeOK, NEW p \in Partitions, NEW to,
           at' = [at EXCEPT ![p] = to], position' = position
    PROVE  HeldOffsets' = [HeldOffsets EXCEPT ![p] =
                             IF to \in Holding THEN {position[p]} ELSE {}]
<1>1. position' = [position EXCEPT ![p] = position[p]]
  BY DEF MemTypeOK
<1>2. QED
  BY <1>1, OneMoves

\* A consumer that goes on from the offset it holds: OffsetStore sees nothing.
LEMMA GoesOn ==
    ASSUME part = "memdb", part' = part, MemTypeOK, NEW p \in Partitions, NEW to \in Holding,
           at[p] \in Holding, at' = [at EXCEPT ![p] = to], position' = position
    PROVE  HeldOffsets' = HeldOffsets
<1>1. HeldOffsets' = [HeldOffsets EXCEPT ![p] = {position[p]}]
  BY OneStays
<1>2. HeldOffsets[p] = {position[p]} /\ DOMAIN HeldOffsets = Partitions
  BY StoreSeen
<1>3. HeldOffsets = [q \in Partitions |-> HeldOffsets[q]]
  BY DEF HeldOffsets
<1>4. QED
  BY <1>1, <1>2, <1>3

\* A consumer that gives its offset up, and leaves the bucket alone.
LEMMA GivesUp ==
    ASSUME part = "memdb", part' = part, MemTypeOK, NEW p \in Partitions, NEW to,
           to \notin Holding, at' = [at EXCEPT ![p] = to],
           position' = position, offsets' = offsets
    PROVE  Offsets!Forget(p)
<1>1. HeldOffsets' = [HeldOffsets EXCEPT ![p] = {}]
  BY OneStays
<1>2. QED
  BY <1>1, SameCounters DEF Offsets!Forget

\* A bucket that is created is as good as none.
LEMMA CreationUnseen ==
    ASSUME part = "memdb", part' = part, offsets # Closed, offsets' = MemDB!Created(offsets)
    PROVE  StoreOpen' = StoreOpen /\ StoredOffsets' = StoredOffsets
<1>1. CASE offsets # NoBucket
  BY <1>1, SameCounters DEF MemDB!Created
<1>2. CASE offsets = NoBucket
  <2>1. offsets' # Closed /\ offsets' # NoBucket /\ DOMAIN offsets' = {}
    BY <1>2, EmptyBucketIsOne, MemDBParameters DEF MemDB!Created, MemDB!Parameters
  <2>2. \A p \in Partitions : MemDB!Get(p) = 0 /\ MemDB!Get(p)' = 0
    BY <1>2, <2>1 DEF MemDB!Get
  <2>3. StoredOffsets' = StoredOffsets
    BY <2>2, StoreSeen
  <2>4. QED
    BY <2>1, <2>3 DEF StoreOpen
<1>3. QED
  BY <1>1, <1>2

\* A Put is a commit: the position it goes on from is the counter, so that the
\* one it stores is the next.
LEMMA PutCommits ==
    ASSUME part = "memdb", part' = part, MemInv, NEW p \in Partitions, MemDB!Put(p)
    PROVE  Offsets!Commit(p)
<1>1. /\ at[p] = "put" /\ at' = [at EXCEPT ![p] = "unlock"]
      /\ position' = [position EXCEPT ![p] = position[p] + 1]
      /\ position[p] < MaxOffset
  BY DEF MemDB!Put, MemDB!Step
<1>2. offsets \in MemDB!Buckets
  BY <1>1 DEF MemInv, BucketToPut
<1>3. position[p] \in 0 .. MaxOffset /\ position[p] + 1 \in 0 .. MaxOffset
  BY <1>1, MemDBParameters DEF MemInv, MemTypeOK, MemDB!Parameters
<1>4. /\ offsets' \in MemDB!Buckets
      /\ DOMAIN offsets' = DOMAIN offsets \cup {p}
      /\ offsets'[p] = position[p] + 1
      /\ \A q \in DOMAIN offsets : q # p => offsets'[q] = offsets[q]
  BY <1>2, <1>3, PutStores
<1>5. offsets # Closed /\ offsets' # Closed /\ offsets # NoBucket /\ offsets' # NoBucket
  BY <1>2, <1>4, MemDBParameters DEF MemDB!Parameters
<1>6. position[p] = MemDB!Get(p)
  BY <1>1, <1>5 DEF MemInv, PositionAgrees, Updating
<1>7. \A q \in Partitions : MemDB!Get(q)' = IF q = p THEN MemDB!Get(p) + 1 ELSE MemDB!Get(q)
  <2>1. MemDB!Get(p)' = MemDB!Get(p) + 1
    BY <1>4, <1>5, <1>6 DEF MemDB!Get
  <2>2. ASSUME NEW q \in Partitions, q # p PROVE MemDB!Get(q)' = MemDB!Get(q)
    BY <1>4, <1>5, <2>2 DEF MemDB!Get
  <2>3. QED
    BY <2>1, <2>2
<1>8. StoredOffsets' = [StoredOffsets EXCEPT ![p] = StoredOffsets[p] + 1]
  <2> DEFINE g == [q \in Partitions |-> MemDB!Get(q)]
             G == [q \in Partitions |-> MemDB!Get(q)']
  <2>1. StoredOffsets = g /\ StoredOffsets' = G
    BY StoreSeen
  <2>2. G = [g EXCEPT ![p] = g[p] + 1]
    BY <1>7
  <2>3. QED
    BY <2>1, <2>2
<1>9. HeldOffsets' = [HeldOffsets EXCEPT ![p] = {StoredOffsets[p] + 1}]
  <2>1. MemTypeOK /\ "unlock" \in Holding
    BY DEF MemInv, Holding
  <2>2. PICK n : n = position[p] + 1
    OBVIOUS
  <2>3. HeldOffsets' = [HeldOffsets EXCEPT ![p] = {n}]
    BY <1>1, <2>1, <2>2, OneMoves
  <2>4. StoredOffsets[p] = position[p]
    BY <1>6, StoreSeen
  <2>5. QED
    BY <2>2, <2>3, <2>4
<1>10. QED
  BY <1>5, <1>8, <1>9 DEF Offsets!Commit, StoreOpen

\* Every step of the part is one of OffsetStore, or a stutter.
LEMMA MemDBSteps ==
    ASSUME part = "memdb", part' = part, MemInv, [MemDB!Next]_memVars
    PROVE  [Offsets!Next]_<<StoreOpen, StoredOffsets, HeldOffsets>>
<1> DEFINE Stutter == UNCHANGED <<StoreOpen, StoredOffsets, HeldOffsets>>
<1>0. MemTypeOK
  BY DEF MemInv
<1>1. ASSUME NEW p \in Partitions, MemDB!View(p) PROVE Offsets!Next
  <2>1. "view" \notin Holding
    BY DEF Holding
  <2>2. Offsets!Forget(p)
    BY <1>0, <1>1, <2>1, GivesUp DEF MemDB!View, MemDB!Step
  <2>3. QED
    BY <2>2 DEF Offsets!Next
<1>2. ASSUME NEW p \in Partitions, MemDB!LoadOffset(p) PROVE Offsets!Next
  <2>1. /\ at' = [at EXCEPT ![p] = "loaded"]
        /\ position' = [position EXCEPT ![p] = MemDB!Get(p)]
        /\ offsets' = offsets
    BY <1>2 DEF MemDB!LoadOffset, MemDB!Step
  <2>2. HeldOffsets' = [HeldOffsets EXCEPT ![p] = {MemDB!Get(p)}]
    <3>1. "loaded" \in Holding
      BY DEF Holding
    <3>2. PICK n : n = MemDB!Get(p)
      OBVIOUS
    <3>3. QED
      BY <1>0, <2>1, <3>1, <3>2, OneMoves
  <2>3. StoredOffsets[p] = MemDB!Get(p)
    BY StoreSeen
  <2>4. Offsets!Deliver(p)
    BY <2>1, <2>2, <2>3, SameCounters DEF Offsets!Deliver
  <2>5. QED
    BY <2>4 DEF Offsets!Next
<1>3. ASSUME NEW p \in Partitions, MemDB!EndView(p) \/ MemDB!Update(p) \/ MemDB!EndUpdate(p)
      PROVE  Stutter
  <2>1. PICK to \in Holding :
          at[p] \in Holding /\ at' = [at EXCEPT ![p] = to] /\ position' = position
    BY <1>3 DEF MemDB!EndView, MemDB!Update, MemDB!EndUpdate, MemDB!Step, Holding
  <2>2. offsets' = offsets
    BY <1>3 DEF MemDB!EndView, MemDB!Update, MemDB!EndUpdate
  <2>3. HeldOffsets' = HeldOffsets
    BY <1>0, <2>1, GoesOn
  <2>4. QED
    BY <2>2, <2>3, SameCounters
<1>4. ASSUME NEW p \in Partitions, MemDB!CreateBucketIfNotExists(p)
      PROVE  Stutter \/ Offsets!Next
  <2>1. CASE offsets = Closed
    <3>1. /\ at' = [at EXCEPT ![p] = "panicked"]
          /\ position' = position /\ offsets' = offsets
      BY <1>4, <2>1 DEF MemDB!CreateBucketIfNotExists, MemDB!Step
    <3>2. "panicked" \notin Holding
      BY DEF Holding
    <3>3. Offsets!Forget(p)
      BY <1>0, <3>1, <3>2, GivesUp
    <3>4. QED
      BY <3>3 DEF Offsets!Next
  <2>2. CASE offsets # Closed
    <3>1. /\ at[p] = "update" /\ at' = [at EXCEPT ![p] = "put"]
          /\ position' = position /\ offsets' = MemDB!Created(offsets)
      BY <1>4, <2>2 DEF MemDB!CreateBucketIfNotExists, MemDB!Step
    <3>2. "update" \in Holding /\ "put" \in Holding
      BY DEF Holding
    <3>3. HeldOffsets' = HeldOffsets
      BY <1>0, <3>1, <3>2, GoesOn
    <3>4. StoreOpen' = StoreOpen /\ StoredOffsets' = StoredOffsets
      BY <2>2, <3>1, CreationUnseen
    <3>5. QED
      BY <3>3, <3>4
  <2>3. QED
    BY <2>1, <2>2
<1>5. ASSUME NEW p \in Partitions, MemDB!Put(p) PROVE Offsets!Next
  BY <1>5, PutCommits DEF Offsets!Next
<1>6. ASSUME NEW p \in Partitions, MemDB!UpdateFails(p) PROVE Offsets!Next
  <2>1. /\ at' = [at EXCEPT ![p] = "start"]
        /\ position' = position /\ offsets' = offsets
    BY <1>6 DEF MemDB!UpdateFails
  <2>2. "start" \notin Holding
    BY DEF Holding
  <2>3. Offsets!Forget(p)
    BY <1>0, <2>1, <2>2, GivesUp
  <2>4. QED
    BY <2>3 DEF Offsets!Next
<1>7. ASSUME MemDB!Close PROVE Offsets!Next
  <2>1. offsets # Closed /\ offsets' = Closed /\ at' = at /\ position' = position
    BY <1>7 DEF MemDB!Close
  <2>2. StoreOpen /\ StoreOpen' = FALSE
    BY <2>1 DEF StoreOpen
  <2>3. StoredOffsets' = Offsets!Oldest
    <3>1. \A p \in Partitions : MemDB!Get(p)' = 0
      BY <2>1 DEF MemDB!Get
    <3>2. QED
      BY <3>1, StoreSeen DEF Offsets!Oldest
  <2>4. HeldOffsets' = HeldOffsets
    BY <2>1, StoreSeen
  <2>5. QED
    BY <2>2, <2>3, <2>4 DEF Offsets!Next, Offsets!Close
<1>8. ASSUME UNCHANGED memVars PROVE Stutter
  <2>1. offsets' = offsets /\ at' = at /\ position' = position
    BY <1>8 DEF memVars
  <2>2. QED
    BY <2>1, SameCounters, StoreSeen
<1>9. QED
  BY <1>1, <1>2, <1>3, <1>4, <1>5, <1>6, <1>7, <1>8 DEF MemDB!Next

-----------------------------------------------------------------------------
(***************************************************************************)
(* Names: a slug is what Hyphenated writes of the title, trimmed and cut;  *)
(* how Hyphenated and LettersOf go on from one character to the next says  *)
(* what they make of a whole title.                                        *)
(***************************************************************************)
Text == Seq(Characters)

\* What holds at 0 and goes on holding up to N.
LEMMA AllUpTo ==
    ASSUME NEW N \in Nat, NEW S, 0 \in S, \A n \in 1 .. N : n - 1 \in S => n \in S
    PROVE  0 .. N \subseteq S
<1> DEFINE T == {n \in Nat : n <= N => n \in S}
<1>1. 0 \in T
  OBVIOUS
<1>2. ASSUME NEW n \in Nat, n \in T PROVE n + 1 \in T
  <2>1. ASSUME n + 1 <= N PROVE n + 1 \in S
    <3>1. n + 1 \in 1 .. N /\ n + 1 - 1 = n /\ n \in S
      BY <1>2, <2>1
    <3>2. QED
      BY <3>1
  <2>2. QED
    BY <2>1
<1> HIDE DEF T
<1>3. Nat \subseteq T
  BY <1>1, <1>2, AllNumbers
<1>4. QED
  BY <1>3 DEF T

\* A function over the prefixes of a sequence can be defined by recursion.
LEMMA OverPrefixes ==
    ASSUME NEW step \in [Text -> [Characters -> Text]], NEW s \in Text
    PROVE  \E f \in [0 .. Len(s) -> Text] :
             f[0] = <<>> /\ \A n \in 1 .. Len(s) : f[n] = step[f[n - 1]][s[n]]
<1> DEFINE Good(m) == \E f \in [0 .. m -> Text] :
                         f[0] = <<>> /\ \A n \in 1 .. m : f[n] = step[f[n - 1]][s[n]]
           T == {m \in Nat : m <= Len(s) => Good(m)}
<1>0. <<>> \in Text /\ Len(s) \in Nat /\ \A i \in 1 .. Len(s) : s[i] \in Characters
  BY DEF Text
<1>1. Good(0)
  <2> DEFINE f == [n \in 0 .. 0 |-> <<>>]
  <2>1. f \in [0 .. 0 -> Text] /\ f[0] = <<>> /\ \A n \in 1 .. 0 : FALSE
    BY <1>0
  <2> HIDE DEF f
  <2>2. QED
    BY <2>1
<1>2. ASSUME NEW m \in Nat, m + 1 <= Len(s), Good(m) PROVE Good(m + 1)
  <2>1. PICK g \in [0 .. m -> Text] :
          g[0] = <<>> /\ \A n \in 1 .. m : g[n] = step[g[n - 1]][s[n]]
    BY <1>2
  <2>2. PICK next \in Text : next = step[g[m]][s[m + 1]]
    <3>1. s[m + 1] \in Characters /\ g[m] \in Text
      BY <1>0, <1>2
    <3>2. QED
      BY <3>1
  <2> DEFINE f == [n \in 0 .. m + 1 |-> IF n <= m THEN g[n] ELSE next]
  <2>3. f \in [0 .. m + 1 -> Text]
    OBVIOUS
  <2>4. f[0] = <<>> /\ f[m + 1] = next /\ \A n \in 0 .. m : f[n] = g[n]
    BY <2>1
  <2> HIDE DEF f
  <2>5. ASSUME NEW n \in 1 .. m + 1 PROVE f[n] = step[f[n - 1]][s[n]]
    <3>1. CASE n = m + 1
      BY <2>2, <2>4, <3>1
    <3>2. CASE n # m + 1
      <4>1. n \in 1 .. m /\ n \in 0 .. m /\ n - 1 \in 0 .. m
        BY <3>2
      <4>2. QED
        BY <2>1, <2>4, <4>1
    <3>3. QED
      BY <3>1, <3>2
  <2>6. QED
    BY <2>3, <2>4, <2>5
<1> HIDE DEF Good
<1>3. 0 \in T /\ \A m \in Nat : m \in T => m + 1 \in T
  BY <1>1, <1>2
<1> HIDE DEF T
<1>4. Nat \subseteq T
  BY <1>3, AllNumbers
<1>5. Good(Len(s))
  BY <1>0, <1>4 DEF T
<1>6. QED
  BY <1>5 DEF Good

\* Hyphens and spaces are characters.
LEMMA HyphenIsOne == Names!Hyphen \in Characters /\ Names!Space \in Characters
BY NamesParameters DEF Names!Parameters

\* What Hyphenated writes, character by character.
LEMMA WrittenStepwise ==
    ASSUME NEW title \in Text
    PROVE  \E w \in [0 .. Len(title) -> Text] :
             /\ w[0] = <<>>
             /\ \A n \in 1 .. Len(title) :
                  w[n] = IF title[n] \in Letters THEN Append(w[n - 1], title[n])
                         ELSE IF w[n - 1] # <<>> /\ Names!Last(w[n - 1]) = Names!Hyphen
                         THEN w[n - 1] ELSE Append(w[n - 1], Names!Hyphen)
             /\ w[Len(title)] = Names!Hyphenated(title)
<1> DEFINE Write(s, c) == IF c \in Letters THEN Append(s, c)
                          ELSE IF s # <<>> /\ Names!Last(s) = Names!Hyphen
                          THEN s ELSE Append(s, Names!Hyphen)
           step == [s \in Text |-> [c \in Characters |-> Write(s, c)]]
           Body(h) == [n \in 0 .. Len(title) |->
                          IF n = 0 THEN <<>> ELSE Write(h[n - 1], title[n])]
           c == CHOOSE h : h = Body(h)
<1>1. step \in [Text -> [Characters -> Text]]
  BY HyphenIsOne DEF Text
<1>2. PICK w \in [0 .. Len(title) -> Text] :
        w[0] = <<>> /\ \A n \in 1 .. Len(title) : w[n] = step[w[n - 1]][title[n]]
  <2> HIDE DEF step
  <2>1. <<>> \in Text /\ title \in Seq(Characters)
    BY DEF Text
  <2> HIDE DEF Text
  <2>2. QED
    BY <1>1, <2>1, OverPrefixes
<1>3. Names!Hyphenated(title) = c[Len(title)]
  BY DEF Names!Hyphenated
<1>4. ASSUME NEW n \in 1 .. Len(title)
      PROVE  n - 1 \in 0 .. Len(title) /\ step[w[n - 1]][title[n]] = Write(w[n - 1], title[n])
  <2>1. n - 1 \in 0 .. Len(title)
    BY DEF Text
  <2>2. w[n - 1] \in Text /\ title[n] \in Characters
    BY <2>1 DEF Text
  <2>3. QED
    BY <2>1, <2>2
<1> HIDE DEF step, Write
<1>5. w = Body(w)
  BY <1>2, <1>4
<1>6. c = Body(c)
  BY <1>5
<1> HIDE DEF c
<1>7. /\ c[0] = <<>> /\ w[0] = <<>>
      /\ \A n \in 1 .. Len(title) : /\ c[n] = Write(c[n - 1], title[n])
                                    /\ w[n] = Write(w[n - 1], title[n])
  <2>1. 0 \in 0 .. Len(title) /\ \A n \in 1 .. Len(title) : n \in 0 .. Len(title) /\ n # 0
    BY DEF Text
  <2>2. QED
    BY <1>2, <1>4, <1>6, <2>1
<1>8. c[Len(title)] = w[Len(title)]
  <2>1. Len(title) \in Nat
    BY DEF Text
  <2> DEFINE S == {n \in 0 .. Len(title) : c[n] = w[n]}
  <2>2. 0 \in S
    BY <1>7, <2>1
  <2>3. ASSUME NEW n \in 1 .. Len(title), n - 1 \in S PROVE n \in S
    <3>1. c[n - 1] = w[n - 1] /\ n \in 0 .. Len(title)
      BY <2>1, <2>3
    <3>2. QED
      BY <1>7, <3>1
  <2> HIDE DEF S
  <2>4. \A n \in 1 .. Len(title) : n - 1 \in S => n \in S
    BY <2>3
  <2>5. 0 .. Len(title) \subseteq S
    BY <2>1, <2>2, <2>4, AllUpTo
  <2>6. Len(title) \in S
    BY <2>1, <2>5
  <2>7. QED
    BY <2>6 DEF S
<1>9. QED
  BY <1>3, <1>7, <1>8 DEF Write

\* What LettersOf finds, character by character.
LEMMA FoundStepwise ==
    ASSUME NEW s \in Text
    PROVE  \E f \in [0 .. Len(s) -> Text] :
             /\ f[0] = <<>>
             /\ \A n \in 1 .. Len(s) :
                  f[n] = IF s[n] \in Letters THEN Append(f[n - 1], s[n]) ELSE f[n - 1]
             /\ f[Len(s)] = Names!LettersOf(s)
<1> DEFINE Find(t, c) == IF c \in Letters THEN Append(t, c) ELSE t
           step == [t \in Text |-> [c \in Characters |-> Find(t, c)]]
           Body(h) == [n \in 0 .. Len(s) |-> IF n = 0 THEN <<>> ELSE Find(h[n - 1], s[n])]
           g == CHOOSE h : h = Body(h)
<1>1. step \in [Text -> [Characters -> Text]]
  BY DEF Text
<1>2. PICK f \in [0 .. Len(s) -> Text] :
        f[0] = <<>> /\ \A n \in 1 .. Len(s) : f[n] = step[f[n - 1]][s[n]]
  <2> HIDE DEF step
  <2>1. QED
    BY <1>1, OverPrefixes
<1>3. Names!LettersOf(s) = g[Len(s)]
  BY DEF Names!LettersOf
<1>4. ASSUME NEW n \in 1 .. Len(s)
      PROVE  n - 1 \in 0 .. Len(s) /\ step[f[n - 1]][s[n]] = Find(f[n - 1], s[n])
  <2>1. n - 1 \in 0 .. Len(s)
    BY DEF Text
  <2>2. f[n - 1] \in Text /\ s[n] \in Characters
    BY <2>1 DEF Text
  <2>3. QED
    BY <2>1, <2>2
<1> HIDE DEF step, Find
<1>5. f = Body(f)
  BY <1>2, <1>4
<1>6. g = Body(g)
  BY <1>5
<1> HIDE DEF g
<1>7. /\ g[0] = <<>> /\ f[0] = <<>>
      /\ \A n \in 1 .. Len(s) : g[n] = Find(g[n - 1], s[n]) /\ f[n] = Find(f[n - 1], s[n])
  <2>1. 0 \in 0 .. Len(s) /\ \A n \in 1 .. Len(s) : n \in 0 .. Len(s) /\ n # 0
    BY DEF Text
  <2>2. QED
    BY <1>2, <1>4, <1>6, <2>1
<1>8. g[Len(s)] = f[Len(s)]
  <2>1. Len(s) \in Nat
    BY DEF Text
  <2> DEFINE S == {n \in 0 .. Len(s) : g[n] = f[n]}
  <2>2. 0 \in S
    BY <1>7, <2>1
  <2>3. ASSUME NEW n \in 1 .. Len(s), n - 1 \in S PROVE n \in S
    <3>1. g[n - 1] = f[n - 1] /\ n \in 0 .. Len(s)
      BY <2>1, <2>3
    <3>2. QED
      BY <1>7, <3>1
  <2> HIDE DEF S
  <2>4. \A n \in 1 .. Len(s) : n - 1 \in S => n \in S
    BY <2>3
  <2>5. 0 .. Len(s) \subseteq S
    BY <2>1, <2>2, <2>4, AllUpTo
  <2>6. Len(s) \in S
    BY <2>1, <2>5
  <2>7. QED
    BY <2>6 DEF S
<1>9. QED
  BY <1>3, <1>7, <1>8 DEF Find

\* The letters of a text are a text.
LEMMA LettersOfText ==
    ASSUME NEW s \in Text
    PROVE  Names!LettersOf(s) \in Text
<1>1. Len(s) \in 0 .. Len(s)
  BY DEF Text
<1>2. QED
  BY <1>1, FoundStepwise

\* One more character is one more letter, or none.
LEMMA LettersOfAppend ==
    ASSUME NEW s \in Text, NEW c \in Characters
    PROVE  Names!LettersOf(Append(s, c)) =
             IF c \in Letters THEN Append(Names!LettersOf(s), c) ELSE Names!LettersOf(s)
<1> DEFINE t == Append(s, c)
<1>1. /\ Len(s) \in Nat /\ t \in Text /\ Len(t) = Len(s) + 1 /\ t[Len(s) + 1] = c
      /\ \A i \in 1 .. Len(s) : t[i] = s[i]
  BY DEF Text
<1> HIDE DEF t
<1>2. PICK f \in [0 .. Len(s) -> Text] :
        /\ f[0] = <<>>
        /\ \A n \in 1 .. Len(s) :
             f[n] = IF s[n] \in Letters THEN Append(f[n - 1], s[n]) ELSE f[n - 1]
        /\ f[Len(s)] = Names!LettersOf(s)
  BY FoundStepwise
<1>3. PICK g \in [0 .. Len(t) -> Text] :
        /\ g[0] = <<>>
        /\ \A n \in 1 .. Len(t) :
             g[n] = IF t[n] \in Letters THEN Append(g[n - 1], t[n]) ELSE g[n - 1]
        /\ g[Len(t)] = Names!LettersOf(t)
  BY <1>1, FoundStepwise
<1> DEFINE T == {n \in Nat : n <= Len(s) => f[n] = g[n]}
<1>4. f[Len(s)] = g[Len(s)]
  <2>1. 0 \in T
    BY <1>2, <1>3
  <2>2. ASSUME NEW n \in Nat, n \in T PROVE n + 1 \in T
    <3>1. ASSUME n + 1 <= Len(s) PROVE f[n + 1] = g[n + 1]
      <4>1. /\ n + 1 \in 1 .. Len(s) /\ n + 1 \in 1 .. Len(t) /\ n + 1 - 1 = n
            /\ n <= Len(s) /\ t[n + 1] = s[n + 1]
        BY <1>1, <3>1
      <4>2. f[n] = g[n]
        BY <2>2, <4>1
      <4>3. /\ f[n + 1] = IF s[n + 1] \in Letters THEN Append(f[n + 1 - 1], s[n + 1])
                         ELSE f[n + 1 - 1]
            /\ g[n + 1] = IF t[n + 1] \in Letters THEN Append(g[n + 1 - 1], t[n + 1])
                         ELSE g[n + 1 - 1]
        BY <1>2, <1>3, <4>1
      <4>4. QED
        BY <4>1, <4>2, <4>3
    <3>2. QED
      BY <3>1
  <2>3. Nat \subseteq T
    <3> HIDE DEF T
    <3>1. QED
      BY <2>1, <2>2, AllNumbers
  <2>4. QED
    BY <1>1, <2>3
<1>5. f[Len(s)] = g[Len(s)] /\ Len(s) + 1 \in 1 .. Len(t) /\ Len(s) + 1 - 1 = Len(s)
  BY <1>1, <1>4
<1>6. g[Len(t)] = IF c \in Letters THEN Append(g[Len(s)], c) ELSE g[Len(s)]
  <2>1. g[Len(s) + 1] = IF t[Len(s) + 1] \in Letters
                        THEN Append(g[Len(s) + 1 - 1], t[Len(s) + 1])
                        ELSE g[Len(s) + 1 - 1]
    BY <1>3, <1>5
  <2>2. QED
    BY <1>1, <1>5, <2>1
<1>7. QED
  BY <1>2, <1>3, <1>5, <1>6 DEF t

\* The empty text has no letters.
LEMMA LettersOfNothing == Names!LettersOf(<<>>) = <<>>
<1>1. <<>> \in Text /\ Len(<<>>) = 0
  BY DEF Text
<1>2. QED
  BY <1>1, FoundStepwise

\* Appending to two texts is appending to the second.
LEMMA ConcatThenAppend ==
    ASSUME NEW s \in Text, NEW t \in Text, NEW c \in Characters
    PROVE  Append(s \o t, c) = s \o Append(t, c)
<1>1. <<c>> \in Text /\ s \o t \in Text
  BY DEF Text
<1>2. (s \o t) \o <<c>> = s \o (t \o <<c>>)
  BY <1>1, ConcatAssociative DEF Text
<1>3. QED
  BY <1>1, <1>2, AppendIsConcat DEF Text

\* The letters of two texts, one after the other.
LEMMA LettersOfConcat ==
    ASSUME NEW s \in Text
    PROVE  \A t \in Text :
             Names!LettersOf(s \o t) = Names!LettersOf(s) \o Names!LettersOf(t)
<1> DEFINE T == {m \in Nat : \A t \in Text : Len(t) = m =>
                   Names!LettersOf(s \o t) = Names!LettersOf(s) \o Names!LettersOf(t)}
<1>0. Names!LettersOf(s) \in Text
  BY LettersOfText
<1>1. 0 \in T
  <2>1. ASSUME NEW t \in Text, Len(t) = 0
        PROVE  Names!LettersOf(s \o t) = Names!LettersOf(s) \o Names!LettersOf(t)
    <3>1. t = <<>> /\ s \o t = s
      BY <2>1 DEF Text
    <3>2. Names!LettersOf(s) \o <<>> = Names!LettersOf(s)
      BY <1>0 DEF Text
    <3>3. QED
      BY <3>1, <3>2, LettersOfNothing
  <2>2. QED
    BY <2>1
<1>2. ASSUME NEW m \in Nat, m \in T PROVE m + 1 \in T
  <2>1. ASSUME NEW t \in Text, Len(t) = m + 1
        PROVE  Names!LettersOf(s \o t) = Names!LettersOf(s) \o Names!LettersOf(t)
    <3>1. PICK u \in Text, c \in Characters : t = Append(u, c) /\ Len(u) = m
      <4>1. t # <<>>
        BY <2>1 DEF Text
      <4>2. \E u \in Seq(Characters), c \in Characters : t = Append(u, c)
        BY <4>1, SequenceEmptyOrAppend DEF Text
      <4>3. QED
        BY <2>1, <4>2 DEF Text
    <3>2. s \o u \in Text /\ s \o t = Append(s \o u, c)
      BY <3>1 DEF Text
    <3>3. Names!LettersOf(s \o u) = Names!LettersOf(s) \o Names!LettersOf(u)
      BY <1>2, <3>1
    <3>4. Names!LettersOf(u) \in Text
      BY LettersOfText
    <3>5. CASE c \in Letters
      <4>1. /\ Names!LettersOf(s \o t) = Append(Names!LettersOf(s \o u), c)
            /\ Names!LettersOf(t) = Append(Names!LettersOf(u), c)
        BY <3>1, <3>2, <3>5, LettersOfAppend
      <4>2. Append(Names!LettersOf(s) \o Names!LettersOf(u), c)
              = Names!LettersOf(s) \o Append(Names!LettersOf(u), c)
        BY <1>0, <3>1, <3>4, ConcatThenAppend
      <4>3. QED
        BY <3>3, <4>1, <4>2
    <3>6. CASE c \notin Letters
      BY <3>1, <3>2, <3>3, <3>6, LettersOfAppend
    <3>7. QED
      BY <3>5, <3>6
  <2>2. QED
    BY <2>1
<1>3. Nat \subseteq T
  <2> HIDE DEF T
  <2>1. QED
    BY <1>1, <1>2, AllNumbers
<1>4. QED
  <2>1. \A t \in Text : Len(t) \in Nat
    BY DEF Text
  <2>2. QED
    BY <1>3, <2>1

\* A text without letters has none.
LEMMA NoLettersFound ==
    ASSUME NEW s \in Text, \A i \in 1 .. Len(s) : s[i] \notin Letters
    PROVE  Names!LettersOf(s) = <<>>
<1>1. PICK f \in [0 .. Len(s) -> Text] :
        /\ f[0] = <<>>
        /\ \A n \in 1 .. Len(s) :
             f[n] = IF s[n] \in Letters THEN Append(f[n - 1], s[n]) ELSE f[n - 1]
        /\ f[Len(s)] = Names!LettersOf(s)
  BY FoundStepwise
<1> DEFINE S == {n \in 0 .. Len(s) : f[n] = <<>>}
<1>2. Len(s) \in Nat
  BY DEF Text
<1>3. 0 \in S
  BY <1>1, <1>2
<1>4. ASSUME NEW n \in 1 .. Len(s), n - 1 \in S PROVE n \in S
  <2>1. f[n] = f[n - 1]
    BY <1>1
  <2>2. QED
    BY <1>2, <1>4, <2>1
<1> HIDE DEF S
<1>5. \A n \in 1 .. Len(s) : n - 1 \in S => n \in S
  BY <1>4
<1>6. 0 .. Len(s) \subseteq S
  BY <1>2, <1>3, <1>5, AllUpTo
<1>7. Len(s) \in S
  BY <1>2, <1>6
<1>8. QED
  BY <1>1, <1>7 DEF S

\* Letters with single hyphens between them.
Clean(s) ==
    /\ \A i \in 1 .. Len(s) : s[i] \in Letters \cup {Names!Hyphen}
    /\ \A i \in 1 .. Len(s) - 1 : s[i] = Names!Hyphen => s[i + 1] # Names!Hyphen

\* What is written of a title is clean, no longer than the title, and has its
\* letters.
LEMMA HyphenatedIsClean ==
    ASSUME NEW title \in Text
    PROVE  /\ Names!Hyphenated(title) \in Text
           /\ Clean(Names!Hyphenated(title))
           /\ Len(Names!Hyphenated(title)) <= Len(title)
           /\ Names!LettersOf(Names!Hyphenated(title)) = Names!LettersOf(title)
<1>1. PICK w \in [0 .. Len(title) -> Text] :
        /\ w[0] = <<>>
        /\ \A n \in 1 .. Len(title) :
             w[n] = IF title[n] \in Letters THEN Append(w[n - 1], title[n])
                    ELSE IF w[n - 1] # <<>> /\ Names!Last(w[n - 1]) = Names!Hyphen
                    THEN w[n - 1] ELSE Append(w[n - 1], Names!Hyphen)
        /\ w[Len(title)] = Names!Hyphenated(title)
  BY WrittenStepwise
<1>2. PICK f \in [0 .. Len(title) -> Text] :
        /\ f[0] = <<>>
        /\ \A n \in 1 .. Len(title) :
             f[n] = IF title[n] \in Letters THEN Append(f[n - 1], title[n]) ELSE f[n - 1]
        /\ f[Len(title)] = Names!LettersOf(title)
  BY FoundStepwise
<1>3. Len(title) \in Nat /\ \A n \in 1 .. Len(title) : title[n] \in Characters
  BY DEF Text
<1> DEFINE Good(n) == /\ Clean(w[n]) /\ Len(w[n]) <= n
                      /\ Names!LettersOf(w[n]) = f[n]
           T == {n \in Nat : n <= Len(title) => Good(n)}
<1>4. 0 \in T
  <2>1. Clean(<<>>)
    BY DEF Clean
  <2>2. Len(<<>>) = 0
    OBVIOUS
  <2>3. QED
    BY <1>1, <1>2, <2>1, <2>2, LettersOfNothing
<1>5. ASSUME NEW n \in Nat, n \in T PROVE n + 1 \in T
  <2> SUFFICES ASSUME n + 1 <= Len(title) PROVE Good(n + 1)
    OBVIOUS
  <2>1. Good(n) /\ n + 1 \in 1 .. Len(title) /\ n \in 0 .. Len(title) /\ n + 1 - 1 = n
    BY <1>3, <1>5
  <2> DEFINE s == w[n]
             c == title[n + 1]
  <2>2. s \in Text /\ c \in Characters /\ Len(s) \in Nat
    BY <1>1, <1>3, <2>1 DEF Text
  <2>3. /\ w[n + 1] = IF c \in Letters THEN Append(s, c)
                      ELSE IF s # <<>> /\ Names!Last(s) = Names!Hyphen THEN s
                      ELSE Append(s, Names!Hyphen)
        /\ f[n + 1] = IF c \in Letters THEN Append(f[n], c) ELSE f[n]
    BY <1>1, <1>2, <2>1
  <2>4. Clean(s) /\ Len(s) <= n /\ Names!LettersOf(s) = f[n]
    BY <2>1
  <2> HIDE DEF s, c
  <2>5. CASE c \in Letters
    <3>1. w[n + 1] = Append(s, c) /\ c # Names!Hyphen
      BY <2>3, <2>5, NamesParameters DEF Names!Parameters
    <3>2. Clean(Append(s, c))
      <4>1. /\ Len(Append(s, c)) = Len(s) + 1 /\ Append(s, c)[Len(s) + 1] = c
            /\ \A i \in 1 .. Len(s) : Append(s, c)[i] = s[i]
        BY <2>2 DEF Text
      <4>2. \A i \in 1 .. Len(s) + 1 : i # Len(s) + 1 => i \in 1 .. Len(s)
        BY <2>2
      <4>3. \A i \in 1 .. Len(s) : i # Len(s) => i \in 1 .. Len(s) - 1 /\ i + 1 \in 1 .. Len(s)
        BY <2>2
      <4>4. QED
        BY <2>2, <2>4, <2>5, <3>1, <4>1, <4>2, <4>3 DEF Clean
    <3>3. Len(Append(s, c)) <= n + 1
      BY <2>2, <2>4 DEF Text
    <3>4. Names!LettersOf(Append(s, c)) = f[n + 1]
      BY <2>2, <2>3, <2>4, <2>5, LettersOfAppend
    <3>5. QED
      BY <3>1, <3>2, <3>3, <3>4
  <2>6. CASE c \notin Letters /\ s # <<>> /\ Names!Last(s) = Names!Hyphen
    BY <2>2, <2>3, <2>4, <2>6
  <2>7. CASE c \notin Letters /\ ~(s # <<>> /\ Names!Last(s) = Names!Hyphen)
    <3>1. w[n + 1] = Append(s, Names!Hyphen) /\ f[n + 1] = f[n]
      BY <2>3, <2>7
    <3>2. Names!Hyphen \in Characters /\ Names!Hyphen \notin Letters
      BY NamesParameters DEF Names!Parameters
    <3>3. Clean(Append(s, Names!Hyphen))
      BY <2>2, <2>4, <2>7, <3>2 DEF Clean, Text, Names!Last
    <3>4. Len(Append(s, Names!Hyphen)) <= n + 1
      BY <2>2, <2>4, <3>2 DEF Text
    <3>5. Names!LettersOf(Append(s, Names!Hyphen)) = f[n + 1]
      BY <2>2, <2>4, <3>1, <3>2, LettersOfAppend
    <3>6. QED
      BY <3>1, <3>3, <3>4, <3>5
  <2>8. QED
    BY <2>5, <2>6, <2>7
<1>6. Nat \subseteq T
  <2> HIDE DEF T
  <2>1. QED
    BY <1>4, <1>5, AllNumbers
<1>7. Good(Len(title)) /\ w[Len(title)] \in Text
  BY <1>1, <1>3, <1>6
<1>8. QED
  BY <1>1, <1>2, <1>7
\* Where a text that is not all hyphens begins and ends.
LEMMA EndsOfKept ==
    ASSUME NEW s \in Text, Names!Kept(s) # {}
    PROVE  /\ Names!Max(Names!Kept(s)) \in Names!Kept(s)
           /\ Names!Min(Names!Kept(s)) \in Names!Kept(s)
           /\ \A i \in Names!Kept(s) : i <= Names!Max(Names!Kept(s)) /\ Names!Min(Names!Kept(s)) <= i
<1>1. Len(s) \in Nat
  BY DEF Text
<1>2. Names!Kept(s) \subseteq 0 .. Len(s) /\ Names!Kept(s) \subseteq Nat
  BY <1>1 DEF Names!Kept
<1>3. \E x \in Names!Kept(s) : \A y \in Names!Kept(s) : y <= x
  BY <1>1, <1>2, LastOf
<1>4. \E x \in Names!Kept(s) : \A y \in Names!Kept(s) : x <= y
  BY <1>2, LeastOf
<1>5. \A x, y \in Names!Kept(s) : (x >= y <=> y <= x)
  BY <1>2
<1>6. /\ Names!Max(Names!Kept(s)) \in Names!Kept(s)
      /\ \A y \in Names!Kept(s) : Names!Max(Names!Kept(s)) >= y
  BY <1>3, <1>5 DEF Names!Max
<1>7. /\ Names!Min(Names!Kept(s)) \in Names!Kept(s)
      /\ \A y \in Names!Kept(s) : Names!Min(Names!Kept(s)) <= y
  BY <1>4 DEF Names!Min
<1>8. QED
  BY <1>5, <1>6, <1>7

\* A piece of a text, and of a clean one.
LEMMA Piece ==
    ASSUME NEW s \in Text, NEW a \in 1 .. Len(s) + 1, NEW b \in 0 .. Len(s), a <= b + 1
    PROVE  /\ SubSeq(s, a, b) \in Text
           /\ Len(SubSeq(s, a, b)) = b - a + 1
           /\ \A i \in 1 .. b - a + 1 : SubSeq(s, a, b)[i] = s[a + i - 1]
           /\ Clean(s) => Clean(SubSeq(s, a, b))
<1>1. Len(s) \in Nat /\ a \in Nat /\ b \in Nat /\ b - a + 1 \in Nat
  BY DEF Text
<1>2. \A i \in 1 .. b - a + 1 : a + i - 1 \in 1 .. Len(s) /\ i \in Nat
  BY <1>1
<1>3. PICK t : t = SubSeq(s, a, b)
  OBVIOUS
<1>4. t \in Text /\ Len(t) = b - a + 1 /\ \A i \in 1 .. b - a + 1 : t[i] = s[a + i - 1]
  BY <1>1, <1>2, <1>3 DEF Text
<1>5. ASSUME Clean(s) PROVE Clean(t)
  <2>1. ASSUME NEW i \in 1 .. Len(t) PROVE t[i] \in Letters \cup {Names!Hyphen}
    BY <1>2, <1>4, <1>5 DEF Clean
  <2>2. ASSUME NEW i \in 1 .. Len(t) - 1, t[i] = Names!Hyphen PROVE t[i + 1] # Names!Hyphen
    <3>1. /\ i \in 1 .. b - a + 1 /\ i + 1 \in 1 .. b - a + 1
          /\ a + i - 1 \in 1 .. Len(s) - 1 /\ a + (i + 1) - 1 = (a + i - 1) + 1
      BY <1>1, <1>4
    <3>2. t[i] = s[a + i - 1] /\ t[i + 1] = s[(a + i - 1) + 1]
      BY <1>4, <3>1
    <3>3. QED
      BY <1>5, <2>2, <3>1, <3>2 DEF Clean
  <2>3. QED
    BY <2>1, <2>2 DEF Clean
<1>6. QED
  BY <1>3, <1>4, <1>5

\* What is cut off a text at its right end takes no letters away that stand
\* before, and none at all if it has none.
LEMMA CutOff ==
    ASSUME NEW s \in Text, NEW b \in 0 .. Len(s)
    PROVE  /\ Names!IsPrefix(Names!LettersOf(SubSeq(s, 1, b)), Names!LettersOf(s))
           /\ (\A i \in b + 1 .. Len(s) : s[i] \notin Letters)
                => Names!LettersOf(SubSeq(s, 1, b)) = Names!LettersOf(s)
<1>1. Len(s) \in Nat /\ b \in Nat /\ 1 \in 1 .. Len(s) + 1 /\ b + 1 \in 1 .. Len(s) + 1
      /\ Len(s) \in 0 .. Len(s)
  BY DEF Text
<1>2. PICK l, r : l = SubSeq(s, 1, b) /\ r = SubSeq(s, b + 1, Len(s))
  OBVIOUS
<1>3. /\ l \in Text /\ Len(l) = b /\ \A i \in 1 .. b : l[i] = s[i]
  <2>1. PICK a \in 1 .. Len(s) + 1 : a = 1
    BY <1>1
  <2>2. /\ a <= b + 1 /\ b - a + 1 = b
        /\ \A i \in 1 .. b : a + i - 1 = i
    BY <1>1, <2>1
  <2>3. /\ SubSeq(s, a, b) \in Text
        /\ Len(SubSeq(s, a, b)) = b - a + 1
        /\ \A i \in 1 .. b - a + 1 : SubSeq(s, a, b)[i] = s[a + i - 1]
    BY <1>1, <2>2, Piece
  <2>4. QED
    BY <1>2, <2>1, <2>2, <2>3
<1>4. r \in Text /\ Len(r) = Len(s) - b /\ \A i \in 1 .. Len(s) - b : r[i] = s[b + i]
  <2>1. PICK a \in 1 .. Len(s) + 1 : a = b + 1
    BY <1>1
  <2>2. /\ a <= Len(s) + 1 /\ Len(s) - a + 1 = Len(s) - b
        /\ \A i \in 1 .. Len(s) - b : a + i - 1 = b + i
    BY <1>1, <2>1
  <2>3. /\ SubSeq(s, a, Len(s)) \in Text
        /\ Len(SubSeq(s, a, Len(s))) = Len(s) - a + 1
        /\ \A i \in 1 .. Len(s) - a + 1 : SubSeq(s, a, Len(s))[i] = s[a + i - 1]
    BY <1>1, <2>2, Piece
  <2>4. QED
    BY <1>2, <2>1, <2>2, <2>3
<1>5. s = l \o r
  <2>1. /\ l \o r \in Seq(Characters) /\ Len(l \o r) = Len(l) + Len(r)
        /\ \A i \in 1 .. Len(l) + Len(r) : (l \o r)[i] = IF i <= Len(l) THEN l[i] ELSE r[i - Len(l)]
    BY <1>3, <1>4, ConcatProperties DEF Text
  <2>2. Len(l) + Len(r) = Len(s)
    BY <1>1, <1>3, <1>4
  <2>3. ASSUME NEW i \in 1 .. Len(s) PROVE (l \o r)[i] = s[i]
    <3>1. CASE i <= Len(l)
      BY <1>1, <1>3, <2>1, <2>2, <3>1
    <3>2. CASE ~(i <= Len(l))
      <4>1. i - Len(l) \in 1 .. Len(s) - b /\ b + (i - Len(l)) = i
        BY <1>1, <1>3, <1>4, <2>2, <3>2
      <4>2. (l \o r)[i] = r[i - Len(l)]
        BY <2>1, <2>2, <3>2
      <4>3. QED
        BY <1>3, <1>4, <4>1, <4>2
    <3>3. QED
      BY <3>1, <3>2
  <2>4. s \in Seq(Characters)
    BY DEF Text
  <2>5. QED
    BY <2>1, <2>2, <2>3, <2>4, SeqEqual
<1>6. Names!LettersOf(s) = Names!LettersOf(l) \o Names!LettersOf(r)
  BY <1>3, <1>4, <1>5, LettersOfConcat
<1>7. Names!LettersOf(l) \in Text /\ Names!LettersOf(r) \in Text
  BY <1>3, <1>4, LettersOfText
<1>8. Names!IsPrefix(Names!LettersOf(l), Names!LettersOf(s))
  BY <1>6, <1>7 DEF Text, Names!IsPrefix
<1>9. ASSUME \A i \in b + 1 .. Len(s) : s[i] \notin Letters
      PROVE  Names!LettersOf(l) = Names!LettersOf(s)
  <2>1. \A i \in 1 .. Len(r) : r[i] \notin Letters
    BY <1>1, <1>4, <1>9
  <2>2. Names!LettersOf(r) = <<>>
    BY <1>4, <2>1, NoLettersFound
  <2>3. QED
    BY <1>6, <1>7, <2>2 DEF Text
<1>10. QED
  BY <1>2, <1>8, <1>9

\* The same at its left end.
LEMMA CutOffLeft ==
    ASSUME NEW s \in Text, NEW a \in 1 .. Len(s) + 1, \A i \in 1 .. a - 1 : s[i] \notin Letters
    PROVE  Names!LettersOf(SubSeq(s, a, Len(s))) = Names!LettersOf(s)
<1>1. Len(s) \in Nat /\ a \in Nat /\ a - 1 \in 0 .. Len(s) /\ 1 \in 1 .. Len(s) + 1
      /\ Len(s) \in 0 .. Len(s) /\ a <= Len(s) + 1
  BY DEF Text
<1>2. PICK l, r : l = SubSeq(s, 1, a - 1) /\ r = SubSeq(s, a, Len(s))
  OBVIOUS
<1>3. /\ l \in Text /\ Len(l) = a - 1 /\ \A i \in 1 .. a - 1 : l[i] = s[i]
  <2>1. PICK b \in 0 .. Len(s) : b = a - 1
    BY <1>1
  <2>2. 1 <= b + 1 /\ b - 1 + 1 = b /\ \A i \in 1 .. b : 1 + i - 1 = i
    BY <1>1
  <2>3. /\ SubSeq(s, 1, b) \in Text
        /\ Len(SubSeq(s, 1, b)) = b - 1 + 1
        /\ \A i \in 1 .. b - 1 + 1 : SubSeq(s, 1, b)[i] = s[1 + i - 1]
    BY <1>1, <2>2, Piece
  <2>4. QED
    BY <1>2, <2>1, <2>2, <2>3
<1>4. r \in Text /\ Len(r) = Len(s) - a + 1 /\ \A i \in 1 .. Len(s) - a + 1 : r[i] = s[a + i - 1]
  BY <1>1, <1>2, Piece
<1>5. s = l \o r
  <2>1. /\ l \o r \in Seq(Characters) /\ Len(l \o r) = Len(l) + Len(r)
        /\ \A i \in 1 .. Len(l) + Len(r) : (l \o r)[i] = IF i <= Len(l) THEN l[i] ELSE r[i - Len(l)]
    BY <1>3, <1>4, ConcatProperties DEF Text
  <2>2. Len(l) + Len(r) = Len(s)
    BY <1>1, <1>3, <1>4
  <2>3. ASSUME NEW i \in 1 .. Len(s) PROVE (l \o r)[i] = s[i]
    <3>1. CASE i <= Len(l)
      BY <1>1, <1>3, <2>1, <2>2, <3>1
    <3>2. CASE ~(i <= Len(l))
      <4>1. i - Len(l) \in 1 .. Len(s) - a + 1 /\ a + (i - Len(l)) - 1 = i
        BY <1>1, <1>3, <1>4, <2>2, <3>2
      <4>2. (l \o r)[i] = r[i - Len(l)]
        BY <2>1, <2>2, <3>2
      <4>3. QED
        BY <1>3, <1>4, <4>1, <4>2
    <3>3. QED
      BY <3>1, <3>2
  <2>4. s \in Seq(Characters)
    BY DEF Text
  <2>5. QED
    BY <2>1, <2>2, <2>3, <2>4, SeqEqual
<1>6. Names!LettersOf(s) = Names!LettersOf(l) \o Names!LettersOf(r)
  BY <1>3, <1>4, <1>5, LettersOfConcat
<1>7. Names!LettersOf(l) = <<>>
  BY <1>3, NoLettersFound
<1>8. Names!LettersOf(r) \in Text
  BY <1>4, LettersOfText
<1>9. QED
  BY <1>2, <1>6, <1>7, <1>8 DEF Text

\* Neither end is a hyphen.
Trimmed(s) == s # <<>> => s[1] # Names!Hyphen /\ s[Len(s)] # Names!Hyphen

\* Trimming takes hyphens only.
LEMMA TrimKeeps ==
    ASSUME NEW s \in Text, Clean(s)
    PROVE  /\ Names!Trim(s) \in Text
           /\ Clean(Names!Trim(s)) /\ Trimmed(Names!Trim(s))
           /\ Len(Names!Trim(s)) <= Len(s)
           /\ Names!LettersOf(Names!Trim(s)) = Names!LettersOf(s)
<1>0. Len(s) \in Nat /\ Names!Hyphen \notin Letters
  BY NamesParameters DEF Text, Names!Parameters
<1>1. \A i \in 1 .. Len(s) : i \notin Names!Kept(s) => s[i] \notin Letters
  BY <1>0 DEF Names!Kept
<1>2. CASE Names!Kept(s) = {}
  <2>1. Names!Trim(s) = <<>>
    BY <1>2 DEF Names!Trim
  <2>2. Names!LettersOf(s) = <<>>
    BY <1>1, <1>2, NoLettersFound
  <2>3. <<>> \in Text /\ Len(<<>>) = 0
    BY DEF Text
  <2>4. Names!LettersOf(<<>>) = <<>>
    BY <2>3, NoLettersFound
  <2>5. QED
    BY <1>0, <2>1, <2>2, <2>3, <2>4 DEF Clean, Trimmed
<1>3. CASE Names!Kept(s) # {}
  <2>1. PICK a, b : a = Names!Min(Names!Kept(s)) /\ b = Names!Max(Names!Kept(s))
    OBVIOUS
  <2>2. /\ a \in Names!Kept(s) /\ b \in Names!Kept(s)
        /\ \A i \in Names!Kept(s) : i <= b /\ a <= i
    BY <1>3, <2>1, EndsOfKept
  <2>3. /\ a \in 1 .. Len(s) /\ b \in 1 .. Len(s) /\ a <= b
        /\ s[a] # Names!Hyphen /\ s[b] # Names!Hyphen
    BY <2>2 DEF Names!Kept
  <2>4. PICK t : t = SubSeq(s, a, b)
    OBVIOUS
  <2>5. a \in 1 .. Len(s) + 1 /\ b \in 0 .. Len(s) /\ a <= b + 1 /\ 1 \in 1 .. Len(s) + 1
        /\ 1 <= b + 1 /\ b - 1 + 1 = b
    BY <1>0, <2>3
  <2>6. /\ t \in Text /\ Len(t) = b - a + 1 /\ \A i \in 1 .. b - a + 1 : t[i] = s[a + i - 1]
        /\ Clean(t)
    BY <2>4, <2>5, Piece
  <2>7. PICK r : r = SubSeq(s, 1, b)
    OBVIOUS
  <2>8. /\ r \in Text /\ Len(r) = b /\ \A i \in 1 .. b : r[i] = s[i]
    <3>1. /\ SubSeq(s, 1, b) \in Text
          /\ Len(SubSeq(s, 1, b)) = b - 1 + 1
          /\ \A i \in 1 .. b - 1 + 1 : SubSeq(s, 1, b)[i] = s[1 + i - 1]
      BY <2>5, Piece
    <3>2. \A i \in 1 .. b : 1 + i - 1 = i
      OBVIOUS
    <3>3. QED
      BY <2>5, <2>7, <3>1, <3>2
  <2>9. Names!LettersOf(r) = Names!LettersOf(s)
    <3>1. \A i \in b + 1 .. Len(s) : i \in 1 .. Len(s) /\ ~(i <= b)
      BY <1>0, <2>3
    <3>2. \A i \in b + 1 .. Len(s) : s[i] \notin Letters
      BY <1>1, <2>2, <3>1
    <3>3. QED
      BY <2>5, <2>7, <3>2, CutOff
  <2>10. SubSeq(r, a, Len(r)) = t
    <3>1. a \in 1 .. Len(r) + 1 /\ Len(r) \in 0 .. Len(r) /\ a <= Len(r) + 1
      BY <1>0, <2>3, <2>8
    <3>2. PICK u : u = SubSeq(r, a, Len(r))
      OBVIOUS
    <3>3. /\ u \in Text /\ Len(u) = Len(r) - a + 1
          /\ \A i \in 1 .. Len(r) - a + 1 : u[i] = r[a + i - 1]
      BY <2>8, <3>1, <3>2, Piece
    <3>4. ASSUME NEW i \in 1 .. Len(u) PROVE u[i] = t[i]
      <4>1. i \in 1 .. b - a + 1 /\ a + i - 1 \in 1 .. b
        BY <1>0, <2>3, <2>8, <3>3
      <4>2. QED
        BY <2>6, <2>8, <3>3, <4>1
    <3>5. Len(u) = Len(t)
      BY <2>6, <2>8, <3>3
    <3>6. u \in Seq(Characters) /\ t \in Seq(Characters)
      BY <2>6, <3>3 DEF Text
    <3>7. QED
      BY <3>2, <3>4, <3>5, <3>6, SeqEqual
  <2>11. Names!LettersOf(SubSeq(r, a, Len(r))) = Names!LettersOf(r)
    <3>1. /\ a \in 1 .. Len(r) + 1
          /\ \A i \in 1 .. a - 1 : i \in 1 .. b /\ i \in 1 .. Len(s) /\ ~(a <= i)
      BY <1>0, <2>3, <2>8
    <3>2. \A i \in 1 .. a - 1 : r[i] \notin Letters
      BY <1>1, <2>2, <2>8, <3>1
    <3>3. QED
      BY <2>8, <3>1, <3>2, CutOffLeft
  <2>12. Trimmed(t)
    <3>1. /\ 1 \in 1 .. b - a + 1 /\ b - a + 1 \in 1 .. b - a + 1
          /\ a + 1 - 1 = a /\ a + (b - a + 1) - 1 = b
      BY <1>0, <2>3
    <3>2. t[1] = s[a] /\ t[Len(t)] = s[b]
      BY <2>6, <3>1
    <3>3. QED
      BY <2>3, <3>2 DEF Trimmed
  <2>13. Len(t) <= Len(s)
    BY <1>0, <2>3, <2>6
  <2>14. Names!Trim(s) = t
    BY <1>3, <2>1, <2>4 DEF Names!Trim
  <2>15. QED
    BY <2>6, <2>9, <2>10, <2>11, <2>12, <2>13, <2>14
<1>4. QED
  BY <1>2, <1>3

\* A slug is clean and trimmed, fits, and has the first letters of its title,
\* or all of them.
LEMMA SlugKeeps ==
    ASSUME NEW title \in Text, NEW max \in Nat
    PROVE  LET slug == Names!slugifyTitle(title, max)
           IN  /\ slug \in Text
               /\ Clean(slug) /\ Trimmed(slug)
               /\ Len(slug) <= max
               /\ Names!IsPrefix(Names!LettersOf(slug), Names!LettersOf(title))
               /\ Len(title) <= max => Names!LettersOf(slug) = Names!LettersOf(title)
<1>1. PICK slug : slug = Names!slugifyTitle(title, max)
  OBVIOUS
<1>2. PICK t : t = Names!Trim(Names!Hyphenated(title))
  OBVIOUS
<1>3. /\ t \in Text /\ Clean(t) /\ Trimmed(t) /\ Len(t) <= Len(title)
      /\ Names!LettersOf(t) = Names!LettersOf(title)
  <2>1. PICK h : h = Names!Hyphenated(title)
    OBVIOUS
  <2>2. /\ h \in Text /\ Clean(h) /\ Len(h) <= Len(title)
        /\ Names!LettersOf(h) = Names!LettersOf(title)
    BY <2>1, HyphenatedIsClean
  <2>3. /\ t \in Text /\ Clean(t) /\ Trimmed(t) /\ Len(t) <= Len(h)
        /\ Names!LettersOf(t) = Names!LettersOf(h)
    BY <1>2, <2>1, <2>2, TrimKeeps
  <2>4. Len(t) \in Nat /\ Len(h) \in Nat /\ Len(title) \in Nat
    BY <2>2, <2>3 DEF Text
  <2>5. QED
    BY <2>2, <2>3, <2>4
<1>4. Len(t) \in Nat /\ Len(title) \in Nat
  BY <1>3 DEF Text
<1>5. CASE ~(Len(t) > max)
  <2>1. slug = t
    BY <1>1, <1>2, <1>5 DEF Names!slugifyTitle
  <2>2. Names!IsPrefix(Names!LettersOf(t), Names!LettersOf(t))
    <3>1. Names!LettersOf(t) \in Text
      BY <1>3, LettersOfText
    <3>2. QED
      BY <3>1 DEF Names!IsPrefix, Text
  <2>3. QED
    BY <1>1, <1>3, <1>4, <1>5, <2>1, <2>2
<1>6. CASE Len(t) > max
  <2>1. PICK c : c = SubSeq(t, 1, max)
    OBVIOUS
  <2>2. slug = Names!TrimRight(c)
    BY <1>1, <1>2, <1>6, <2>1 DEF Names!slugifyTitle, Names!Cut
  <2>3. 1 \in 1 .. Len(t) + 1 /\ max \in 0 .. Len(t) /\ 1 <= max + 1 /\ max - 1 + 1 = max
        /\ \A i \in 1 .. max : 1 + i - 1 = i
    BY <1>4, <1>6
  <2>4. c \in Text /\ Len(c) = max /\ \A i \in 1 .. max : c[i] = t[i]
    <3>1. /\ SubSeq(t, 1, max) \in Text
          /\ Len(SubSeq(t, 1, max)) = max - 1 + 1
          /\ \A i \in 1 .. max - 1 + 1 : SubSeq(t, 1, max)[i] = t[1 + i - 1]
      BY <1>3, <2>3, Piece
    <3>2. QED
      BY <2>1, <2>3, <3>1
  <2>5. PICK k \in 0 .. max : /\ slug = SubSeq(t, 1, k)
                              /\ k # 0 => t[k] # Names!Hyphen
    <3>1. CASE Names!Kept(c) = {}
      <4>1. slug = <<>>
        BY <2>2, <3>1 DEF Names!TrimRight
      <4>2. SubSeq(t, 1, 0) = <<>> /\ 0 \in 0 .. max
        BY <1>3, SubSeqEmpty
      <4>3. QED
        BY <4>1, <4>2
    <3>2. CASE Names!Kept(c) # {}
      <4>1. PICK k : k = Names!Max(Names!Kept(c))
        OBVIOUS
      <4>2. k \in Names!Kept(c)
        BY <2>4, <3>2, <4>1, EndsOfKept
      <4>3. k \in 1 .. max /\ c[k] # Names!Hyphen
        BY <2>4, <4>2 DEF Names!Kept
      <4>4. slug = SubSeq(c, 1, k)
        BY <2>2, <3>2, <4>1 DEF Names!TrimRight
      <4>5. 1 \in 1 .. Len(c) + 1 /\ k \in 0 .. Len(c) /\ 1 <= k + 1 /\ k - 1 + 1 = k
            /\ k \in 0 .. Len(t) /\ \A i \in 1 .. k : 1 + i - 1 = i /\ i \in 1 .. max
        BY <1>4, <1>6, <2>4, <4>3
      <4>6. PICK u, v : u = SubSeq(c, 1, k) /\ v = SubSeq(t, 1, k)
        OBVIOUS
      <4>7. u \in Text /\ Len(u) = k - 1 + 1 /\ \A i \in 1 .. k - 1 + 1 : u[i] = c[1 + i - 1]
        BY <2>4, <4>5, <4>6, Piece
      <4>8. v \in Text /\ Len(v) = k - 1 + 1 /\ \A i \in 1 .. k - 1 + 1 : v[i] = t[1 + i - 1]
        BY <1>3, <2>3, <4>5, <4>6, Piece
      <4>9. u = v
        <5>1. Len(u) = Len(v) /\ Len(u) = k
          BY <4>5, <4>7, <4>8
        <5>2. \A i \in 1 .. Len(u) : u[i] = v[i]
          BY <2>4, <4>5, <4>7, <4>8, <5>1
        <5>3. u \in Seq(Characters) /\ v \in Seq(Characters)
          BY <4>7, <4>8 DEF Text
        <5>4. QED
          BY <5>1, <5>2, <5>3, SeqEqual
      <4>10. slug = SubSeq(t, 1, k) /\ t[k] # Names!Hyphen /\ k \in 0 .. max
        BY <2>4, <4>3, <4>4, <4>6, <4>9
      <4>11. QED
        BY <4>10
    <3>3. QED
      BY <3>1, <3>2
  <2>6. k \in 0 .. Len(t) /\ 1 <= k + 1 /\ k - 1 + 1 = k /\ \A i \in 1 .. k : 1 + i - 1 = i
    BY <1>4, <1>6
  <2>7. slug \in Text /\ Len(slug) = k /\ Clean(slug) /\ \A i \in 1 .. k : slug[i] = t[i]
    <3>1. /\ SubSeq(t, 1, k) \in Text
          /\ Len(SubSeq(t, 1, k)) = k - 1 + 1
          /\ \A i \in 1 .. k - 1 + 1 : SubSeq(t, 1, k)[i] = t[1 + i - 1]
          /\ Clean(SubSeq(t, 1, k))
      BY <1>3, <2>3, <2>6, Piece
    <3>2. QED
      BY <2>5, <2>6, <3>1
  <2>8. Trimmed(slug)
    <3>1. ASSUME slug # <<>> PROVE slug[1] # Names!Hyphen /\ slug[Len(slug)] # Names!Hyphen
      <4>1. k # 0
        BY <2>7, <3>1 DEF Text
      <4>2. 1 \in 1 .. k /\ k \in 1 .. k
        BY <4>1
      <4>3. t # <<>>
        BY <1>3, <1>4, <1>6
      <4>4. slug[1] = t[1] /\ slug[Len(slug)] = t[k]
        BY <2>7, <4>2
      <4>5. QED
        BY <1>3, <2>5, <4>1, <4>3, <4>4 DEF Trimmed
    <3>2. QED
      BY <3>1 DEF Trimmed
  <2>9. Names!IsPrefix(Names!LettersOf(slug), Names!LettersOf(t))
    BY <1>3, <2>5, <2>6, CutOff
  <2>10. Len(slug) <= max /\ ~(Len(title) <= max)
    BY <1>3, <1>4, <1>6, <2>7
  <2>11. QED
    BY <1>1, <1>3, <2>7, <2>8, <2>9, <2>10
<1>7. QED
  BY <1>4, <1>5, <1>6

\* A cut keeps the beginning, as long as it may be.
LEMMA CutKeeps ==
    ASSUME NEW s \in Text, NEW n \in Nat
    PROVE  LET c == Names!Cut(s, n)
           IN  /\ c \in Text /\ Len(c) <= n /\ Len(c) <= Len(s)
               /\ n <= Len(s) => Len(c) = n
               /\ \A i \in 1 .. Len(c) : c[i] = s[i]
<1>1. PICK c : c = Names!Cut(s, n)
  OBVIOUS
<1>2. Len(s) \in Nat
  BY DEF Text
<1>3. CASE Len(s) > n
  <2>1. c = SubSeq(s, 1, n)
    BY <1>1, <1>3 DEF Names!Cut
  <2>2. 1 \in 1 .. Len(s) + 1 /\ n \in 0 .. Len(s) /\ 1 <= n + 1 /\ n - 1 + 1 = n
        /\ \A i \in 1 .. n : 1 + i - 1 = i
    BY <1>2, <1>3
  <2>3. c \in Text /\ Len(c) = n - 1 + 1 /\ \A i \in 1 .. n - 1 + 1 : c[i] = s[1 + i - 1]
    BY <2>1, <2>2, Piece
  <2>4. QED
    BY <1>1, <1>2, <1>3, <2>2, <2>3
<1>4. CASE ~(Len(s) > n)
  <2>1. c = s
    BY <1>1, <1>4 DEF Names!Cut
  <2>2. QED
    BY <1>1, <1>2, <1>4, <2>1
<1>5. QED
  BY <1>3, <1>4

\* Where two texts stand in their concatenation.
LEMMA ConcatKeeps ==
    ASSUME NEW s \in Text, NEW t \in Text
    PROVE  /\ s \o t \in Text /\ Len(s \o t) = Len(s) + Len(t)
           /\ Len(s) \in Nat /\ Len(t) \in Nat
           /\ \A i \in 1 .. Len(s) : (s \o t)[i] = s[i]
           /\ \A i \in 1 .. Len(t) : (s \o t)[Len(s) + i] = t[i]
<1>1. Len(s) \in Nat /\ Len(t) \in Nat
  BY DEF Text
<1>2. /\ s \o t \in Text /\ Len(s \o t) = Len(s) + Len(t)
      /\ \A i \in 1 .. Len(s) + Len(t) : (s \o t)[i] = IF i <= Len(s) THEN s[i] ELSE t[i - Len(s)]
  BY ConcatProperties DEF Text
<1>3. ASSUME NEW i \in 1 .. Len(s) PROVE (s \o t)[i] = s[i]
  BY <1>1, <1>2
<1>4. ASSUME NEW i \in 1 .. Len(t) PROVE (s \o t)[Len(s) + i] = t[i]
  <2>1. PICK j \in 1 .. Len(s) + Len(t) : j = Len(s) + i
    BY <1>1
  <2>2. ~(j <= Len(s)) /\ j - Len(s) = i
    BY <1>1, <2>1
  <2>3. QED
    BY <1>2, <2>1, <2>2
<1>5. QED
  BY <1>1, <1>2, <1>3, <1>4

\* A concatenation ends with its second part.
LEMMA SuffixOfConcat ==
    ASSUME NEW p \in Text, NEW x \in Text
    PROVE  Names!IsSuffix(x, p \o x)
<1>1. PICK w : w = p \o x
  OBVIOUS
<1>2. /\ w \in Text /\ Len(w) = Len(p) + Len(x) /\ Len(p) \in Nat /\ Len(x) \in Nat
      /\ \A i \in 1 .. Len(x) : w[Len(p) + i] = x[i]
  BY <1>1, ConcatKeeps
<1>3. PICK a, b : a = Names!Reverse(x) /\ b = Names!Reverse(w)
  OBVIOUS
<1>4. a \in Text /\ Len(a) = Len(x) /\ \A i \in 1 .. Len(x) : a[i] = x[(Len(x) - i) + 1]
  BY <1>2, <1>3 DEF Names!Reverse, Text
<1>5. b \in Text /\ Len(b) = Len(w) /\ \A i \in 1 .. Len(w) : b[i] = w[(Len(w) - i) + 1]
  BY <1>2, <1>3 DEF Names!Reverse, Text
<1>6. ASSUME NEW i \in 1 .. Len(x) PROVE a[i] = b[i]
  <2>1. PICK j \in 1 .. Len(x) : j = (Len(x) - i) + 1
    <3>1. PICK m \in Nat : m = Len(x)
      BY <1>2
    <3>2. (m - i) + 1 \in 1 .. m
      BY <3>1
    <3>3. QED
      BY <3>1, <3>2
  <2>2. i \in 1 .. Len(w) /\ (Len(w) - i) + 1 = Len(p) + j
    BY <1>2, <2>1
  <2>3. QED
    BY <1>2, <1>4, <1>5, <2>1, <2>2
<1>7. Len(a) <= Len(b)
  BY <1>2, <1>4, <1>5
<1>8. SubSeq(a, 1, Len(a)) = SubSeq(b, 1, Len(a))
  <2>1. PICK n \in Nat : n = Len(a)
    BY <1>2, <1>4
  <2>2. /\ 1 \in 1 .. Len(a) + 1 /\ 1 \in 1 .. Len(b) + 1 /\ n \in 0 .. Len(a) /\ n \in 0 .. Len(b)
        /\ 1 <= n + 1 /\ n - 1 + 1 = n /\ \A i \in 1 .. n : 1 + i - 1 = i
    BY <1>2, <1>4, <1>5, <1>7, <2>1
  <2>3. PICK u, v : u = SubSeq(a, 1, n) /\ v = SubSeq(b, 1, n)
    OBVIOUS
  <2>4. u \in Text /\ Len(u) = n - 1 + 1 /\ \A i \in 1 .. n - 1 + 1 : u[i] = a[1 + i - 1]
    BY <1>4, <2>2, <2>3, Piece
  <2>5. v \in Text /\ Len(v) = n - 1 + 1 /\ \A i \in 1 .. n - 1 + 1 : v[i] = b[1 + i - 1]
    BY <1>5, <2>2, <2>3, Piece
  <2>6. Len(u) = Len(v) /\ \A i \in 1 .. Len(u) : u[i] = v[i]
    BY <1>4, <1>6, <2>1, <2>2, <2>4, <2>5
  <2>7. u \in Seq(Characters) /\ v \in Seq(Characters)
    BY <2>4, <2>5 DEF Text
  <2>8. QED
    BY <2>1, <2>3, <2>6, <2>7, SeqEqual
<1>9. QED
  BY <1>1, <1>3, <1>7, <1>8 DEF Names!IsSuffix, Names!IsPrefix

\* A name begins with what tells the head, and ends with its suffix.
LEMMA NameParts ==
    ASSUME NEW n \in Namings
    PROVE  LET b == Names!base(n, n.sha)
               x == Names!suffixPart(n)
               c == Names!computeTaskFilename(n, n.sha)
           IN  /\ b \in Text /\ x \in Text
               /\ Len(b) = Len(n.base) + 1 + ShaLen
               /\ \A i \in 1 .. ShaLen : b[Len(n.base) + 1 + i] = Names!Cut(n.sha, ShaLen)[i]
               /\ Len(x) <= n.maxTitle => Len(c) <= n.maxTitle /\ Names!IsSuffix(x, c)
               /\ Len(b) + Len(x) <= n.maxTitle => \A i \in 1 .. Len(b) : c[i] = b[i]
<1>1. PICK b, x, c, t : /\ b = Names!base(n, n.sha) /\ x = Names!suffixPart(n)
                        /\ c = Names!computeTaskFilename(n, n.sha)
                        /\ t = Names!titleWithSlug(n, n.sha)
  OBVIOUS
<1>2. n \in Names!Naming /\ Len(n.sha) >= ShaLen /\ ShaLen \in Nat
  BY NamesParameters DEF Names!Parameters
<1>3. /\ n.base \in Text /\ n.sha \in Text /\ n.title \in Text /\ n.suffix \in Text
      /\ n.maxSlug \in Nat /\ n.maxTitle \in Nat
  BY <1>2 DEF Names!Naming, Text
<1>4. Names!Separator \in Text /\ Len(Names!Separator) = 1
  BY HyphenIsOne DEF Names!Separator, Text
<1>5. PICK h : h = Names!Cut(n.sha, ShaLen)
  OBVIOUS
<1>6. h \in Text /\ Len(h) = ShaLen
  <2>1. Len(n.sha) \in Nat
    BY <1>3 DEF Text
  <2>2. ShaLen <= Len(n.sha)
    BY <1>2, <2>1
  <2>3. QED
    BY <1>2, <1>3, <1>5, <2>2, CutKeeps
<1>7. /\ b \in Text /\ Len(b) = Len(n.base) + 1 + ShaLen
      /\ \A i \in 1 .. ShaLen : b[Len(n.base) + 1 + i] = h[i]
  <2>1. PICK f : f = n.base \o Names!Separator
    OBVIOUS
  <2>2. f \in Text /\ Len(f) = Len(n.base) + 1 /\ Len(n.base) \in Nat
    <3>1. PICK d : d = n.base
      OBVIOUS
    <3>2. PICK e : e = Names!Separator
      OBVIOUS
    <3>3. d \o e \in Text /\ Len(d \o e) = Len(d) + Len(e) /\ Len(d) \in Nat
      BY <1>3, <1>4, <3>1, <3>2, ConcatKeeps
    <3>4. QED
      BY <1>4, <2>1, <3>1, <3>2, <3>3
  <2>3. b = f \o h
    BY <1>1, <1>5, <2>1 DEF Names!base
  <2>4. /\ f \o h \in Text /\ Len(f \o h) = Len(f) + Len(h)
        /\ \A i \in 1 .. Len(h) : (f \o h)[Len(f) + i] = h[i]
    BY <1>6, <2>2, ConcatKeeps
  <2>5. QED
    BY <1>6, <2>2, <2>3, <2>4
<1>8. x \in Text
  <2>1. Names!Separator \o n.suffix \in Text /\ <<>> \in Text
    BY <1>3, <1>4 DEF Text
  <2>2. QED
    BY <1>1, <2>1 DEF Names!suffixPart
<1>9. t \in Text /\ Len(b) <= Len(t) /\ \A i \in 1 .. Len(b) : t[i] = b[i]
  <2>1. PICK slug : slug = Names!slugifyTitle(n.title, n.maxSlug)
    OBVIOUS
  <2>2. slug \in Text
    BY <1>3, <2>1, SlugKeeps
  <2>3. Len(b) \in Nat
    BY <1>7 DEF Text
  <2>4. CASE slug = <<>>
    <3>1. t = b
      BY <1>1, <2>1, <2>4 DEF Names!titleWithSlug
    <3>2. QED
      BY <1>7, <2>3, <3>1
  <2>5. CASE slug # <<>>
    <3>1. t = b \o Names!Separator \o slug
      BY <1>1, <2>1, <2>5 DEF Names!titleWithSlug
    <3>2. PICK d : d = b \o Names!Separator
      OBVIOUS
    <3>3. d \in Text /\ Len(d) = Len(b) + 1 /\ \A i \in 1 .. Len(b) : d[i] = b[i]
      <4>1. PICK e : e = Names!Separator
        OBVIOUS
      <4>2. /\ b \o e \in Text /\ Len(b \o e) = Len(b) + Len(e)
            /\ \A i \in 1 .. Len(b) : (b \o e)[i] = b[i]
        BY <1>4, <1>7, <4>1, ConcatKeeps
      <4>3. QED
        BY <1>4, <3>2, <4>1, <4>2
    <3>4. t \in Text /\ Len(t) = Len(d) + Len(slug) /\ Len(slug) \in Nat
          /\ \A i \in 1 .. Len(d) : t[i] = d[i]
      BY <2>2, <3>1, <3>2, <3>3, ConcatKeeps
    <3>5. QED
      BY <2>3, <3>3, <3>4
  <2>6. QED
    BY <2>4, <2>5
<1>10. /\ Len(x) \in Nat /\ Len(t) \in Nat /\ Len(b) \in Nat
  BY <1>7, <1>8, <1>9 DEF Text
<1>11. PICK p : /\ p \in Text /\ c = p \o x
                /\ Len(x) <= n.maxTitle => Len(p) + Len(x) <= n.maxTitle
                /\ Len(b) + Len(x) <= n.maxTitle
                      => Len(b) <= Len(p) /\ \A i \in 1 .. Len(b) : p[i] = t[i]
  <2>1. c = Names!truncated(t, x, n.maxTitle)
    BY <1>1 DEF Names!computeTaskFilename
  <2>2. CASE Len(t) + Len(x) <= n.maxTitle
    <3>1. c = t \o x
      BY <2>1, <2>2 DEF Names!truncated
    <3>2. QED
      BY <1>9, <2>2, <3>1
  <2>3. CASE ~(Len(t) + Len(x) <= n.maxTitle) /\ n.maxTitle < Len(x)
    <3>1. c = Names!Cut(t, 0) \o x
      BY <2>1, <2>3 DEF Names!truncated
    <3>2. Names!Cut(t, 0) \in Text
      BY <1>9, CutKeeps
    <3>3. ~(Len(x) <= n.maxTitle) /\ ~(Len(b) + Len(x) <= n.maxTitle)
      BY <1>3, <1>10, <2>3
    <3>4. QED
      BY <3>1, <3>2, <3>3
  <2>4. CASE ~(Len(t) + Len(x) <= n.maxTitle) /\ ~(n.maxTitle < Len(x))
    <3>1. PICK k \in Nat : k = n.maxTitle - Len(x)
      BY <1>3, <1>10, <2>4
    <3>2. PICK p : p = Names!Cut(t, k)
      OBVIOUS
    <3>3. c = p \o x
      BY <2>1, <2>4, <3>1, <3>2 DEF Names!truncated
    <3>4. k <= Len(t)
      BY <1>3, <1>10, <2>4, <3>1
    <3>5. p \in Text /\ Len(p) = k /\ \A i \in 1 .. Len(p) : p[i] = t[i]
      BY <1>9, <3>2, <3>4, CutKeeps
    <3>6. Len(p) + Len(x) <= n.maxTitle
      BY <1>3, <1>10, <3>1, <3>5
    <3>7. Len(b) + Len(x) <= n.maxTitle => Len(b) <= Len(p)
      BY <1>3, <1>10, <3>1, <3>5
    <3>8. Len(b) <= Len(p) => \A i \in 1 .. Len(b) : p[i] = t[i]
      BY <1>10, <3>1, <3>5
    <3>9. QED
      BY <3>3, <3>5, <3>6, <3>7, <3>8
  <2>5. QED
    BY <2>2, <2>3, <2>4
<1>12. /\ c \in Text /\ Len(c) = Len(p) + Len(x) /\ Len(p) \in Nat
       /\ \A i \in 1 .. Len(p) : c[i] = p[i]
  BY <1>8, <1>11, ConcatKeeps
<1>13. Names!IsSuffix(x, c)
  BY <1>8, <1>11, SuffixOfConcat
<1>14. ASSUME Len(b) + Len(x) <= n.maxTitle, NEW i \in 1 .. Len(b) PROVE c[i] = b[i]
  BY <1>9, <1>10, <1>11, <1>12, <1>14
<1>15. QED
  BY <1>1, <1>5, <1>7, <1>8, <1>11, <1>12, <1>13, <1>14

-----------------------------------------------------------------------------
NamesInv ==
    /\ naming \in Namings
    /\ name = <<>> \/ name = Names!computeTaskFilename(naming, naming.sha)

\* A name starts in the invariant,
LEMMA NamesInit == Names!Init => NamesInv
BY DEF Names!Init, NamesInv

\* and computing it does not lead out of it,
LEMMA NamesNext ==
    ASSUME NamesInv, Names!Next
    PROVE  NamesInv'
BY DEF Names!Next, Names!Compute, NamesInv

\* where slugs are clean,
LEMMA NamesSlug ==
    ASSUME NamesInv
    PROVE  Names!SlugIsClean
<1>1. naming \in Names!Naming /\ Names!Hyphen \notin Letters
  BY NamesParameters DEF NamesInv, Names!Parameters
<1>2. naming.title \in Text /\ naming.maxSlug \in Nat
  BY <1>1 DEF Names!Naming, Text
<1>3. PICK slug : slug = Names!Slug
  OBVIOUS
<1>4. /\ slug \in Text
      /\ Clean(slug) /\ Trimmed(slug)
      /\ Len(slug) <= naming.maxSlug
      /\ Names!IsPrefix(Names!LettersOf(slug), Names!LettersOf(naming.title))
      /\ Len(naming.title) <= naming.maxSlug
            => Names!LettersOf(slug) = Names!LettersOf(naming.title)
  BY <1>2, <1>3, SlugKeeps DEF Names!Slug
<1>5. ASSUME NEW i \in 1 .. Len(slug), slug[i] \notin Letters
      PROVE  slug[i] = Names!Hyphen /\ i \notin {1, Len(slug)} /\ slug[i + 1] # Names!Hyphen
  <2>1. slug[i] = Names!Hyphen
    BY <1>4, <1>5 DEF Clean
  <2>2. slug # <<>> /\ Len(slug) \in Nat
    BY <1>4 DEF Text
  <2>3. i \notin {1, Len(slug)}
    BY <1>4, <2>1, <2>2 DEF Trimmed
  <2>4. i \in 1 .. Len(slug) - 1
    BY <2>2, <2>3
  <2>5. QED
    BY <1>4, <2>1, <2>3, <2>4 DEF Clean
<1>6. QED
  BY <1>3, <1>4, <1>5 DEF Names!SlugIsClean

\* names keep to their maximum and their suffix,
LEMMA NamesKeepTheirMaximum ==
    ASSUME NamesInv
    PROVE  Names!NameFits
<1>1. ASSUME name # <<>>, Len(Names!suffixPart(naming)) <= naming.maxTitle
      PROVE  Len(name) <= naming.maxTitle /\ Names!IsSuffix(Names!suffixPart(naming), name)
  <2>1. naming \in Namings /\ name = Names!computeTaskFilename(naming, naming.sha)
    BY <1>1 DEF NamesInv
  <2>2. QED
    BY <1>1, <2>1, NameParts
<1>2. QED
  BY <1>1 DEF Names!NameFits

\* and two heads have two names.
LEMMA NamesOfTwoHeads ==
    ASSUME NamesInv
    PROVE  Names!HeadsHaveTheirNames
<1> SUFFICES ASSUME name # <<>>,
                    Len(Names!base(naming, naming.sha)) + Len(Names!suffixPart(naming))
                        <= naming.maxTitle,
                    NEW n \in Namings, [n EXCEPT !.sha = naming.sha] = naming,
                    Names!computeTaskFilename(n, n.sha) = name
             PROVE  Names!Cut(n.sha, ShaLen) = Names!Cut(naming.sha, ShaLen)
  BY DEF Names!HeadsHaveTheirNames
<1>1. naming \in Namings /\ name = Names!computeTaskFilename(naming, naming.sha)
  BY DEF NamesInv
<1>2. n \in Names!Naming /\ naming \in Names!Naming /\ ShaLen \in Nat
      /\ Len(n.sha) >= ShaLen /\ Len(naming.sha) >= ShaLen
  BY <1>1, NamesParameters DEF Names!Parameters
<1>3. /\ n.base = naming.base /\ n.suffix = naming.suffix /\ n.maxTitle = naming.maxTitle
      /\ n.base \in Text /\ n.sha \in Text /\ naming.sha \in Text
  BY <1>2 DEF Names!Naming, Text
<1>4. PICK b, d, x, l : /\ b = Names!base(naming, naming.sha) /\ d = Names!base(n, n.sha)
                        /\ x = Names!suffixPart(naming) /\ l = Len(naming.base)
  OBVIOUS
<1>5. x = Names!suffixPart(n) /\ l \in Nat
  BY <1>3, <1>4 DEF Names!suffixPart, Text
<1>6. PICK h, k : h = Names!Cut(naming.sha, ShaLen) /\ k = Names!Cut(n.sha, ShaLen)
  OBVIOUS
<1>7. /\ Len(b) = l + 1 + ShaLen
      /\ \A i \in 1 .. ShaLen : b[l + 1 + i] = h[i]
      /\ Len(b) + Len(x) <= naming.maxTitle
      /\ \A i \in 1 .. Len(b) : name[i] = b[i]
  BY <1>1, <1>4, <1>6, NameParts
<1>8. /\ Len(d) = l + 1 + ShaLen
      /\ \A i \in 1 .. ShaLen : d[l + 1 + i] = k[i]
      /\ Len(d) + Len(x) <= n.maxTitle => \A i \in 1 .. Len(d) : name[i] = d[i]
  BY <1>3, <1>4, <1>5, <1>6, NameParts
<1>9. \A i \in 1 .. Len(d) : name[i] = d[i]
  BY <1>3, <1>7, <1>8
<1>10. ASSUME NEW i \in 1 .. ShaLen PROVE h[i] = k[i]
  <2>1. l + 1 + i \in 1 .. Len(b) /\ l + 1 + i \in 1 .. Len(d)
    BY <1>2, <1>5, <1>7, <1>8
  <2>2. QED
    BY <1>7, <1>8, <1>9, <2>1
<1>11. h \in Text /\ k \in Text /\ Len(h) = ShaLen /\ Len(k) = ShaLen
  <2>1. Len(n.sha) \in Nat /\ Len(naming.sha) \in Nat
    BY <1>3 DEF Text
  <2>2. ShaLen <= Len(n.sha) /\ ShaLen <= Len(naming.sha)
    BY <1>2, <2>1
  <2>3. QED
    BY <1>2, <1>3, <1>6, <2>2, CutKeeps
<1>12. h = k
  BY <1>10, <1>11, SeqEqual DEF Text
<1>13. QED
  BY <1>6, <1>12

-----------------------------------------------------------------------------
(***************************************************************************)
(* Routing: a map in use is what Parse makes of the setting as it stands.  *)
(***************************************************************************)

InUse(parts) == {i \in DOMAIN parts : parts[i].kind # "blank"}

RoutingInv ==
    /\ raw \in Seq(Parts) /\ Len(raw) <= MaxParts
    /\ routes # Unset => routes = Routing!Parse(raw)

\* A map that Parse accepts is the setting without its blank parts, and no other
\* part than an entry is in it.
LEMMA Accepted ==
    ASSUME NEW parts \in Seq(Parts), Len(parts) <= MaxParts, Routing!Parse(parts) # Invalid
    PROVE  /\ \A i \in InUse(parts) : parts[i].kind = "entry"
           /\ IF InUse(parts) = {} THEN Routing!Parse(parts) = Unset
              ELSE /\ Routing!Parse(parts) = [i \in InUse(parts) |-> parts[i]]
                   /\ Routing!Parse(parts) # Unset
<1>1. Routing!Parse(parts) =
        IF \E i \in InUse(parts) : parts[i].kind # "entry" THEN Invalid
        ELSE IF InUse(parts) = {} THEN Unset
        ELSE [i \in InUse(parts) |-> parts[i]]
  BY DEF Routing!Parse, Routing!IsBlank, Routing!Restrict, InUse
<1>2. [i \in InUse(parts) |-> parts[i]] \in [InUse(parts) -> Parts]
  BY DEF InUse
<1>3. InUse(parts) \in SUBSET (1 .. MaxParts)
  <2>1. ASSUME NEW i \in 1 .. Len(parts) PROVE i \in 1 .. MaxParts
    BY RoutingParameters DEF Routing!Parameters
  <2>2. QED
    BY <2>1 DEF InUse
<1>4. [i \in InUse(parts) |-> parts[i]] # Unset
  BY <1>2, <1>3, RoutingParameters DEF Routing!Parameters
<1>5. QED
  BY <1>1, <1>4

\* A map starts in its invariant,
LEMMA RoutingInit == Routing!Init => RoutingInv
<1>1. \A n \in 0 .. MaxParts : [1 .. n -> Parts] \subseteq {s \in Seq(Parts) : Len(s) <= MaxParts}
  BY RoutingParameters DEF Routing!Parameters
<1>2. QED
  BY <1>1 DEF Routing!Init, Routing!BoundedSeq, Routing!SeqOf, RoutingInv

\* and neither loading nor appending leads out of it,
LEMMA RoutingNext == RoutingInv /\ [Routing!Next]_routingVars => RoutingInv'
<1> SUFFICES ASSUME RoutingInv, [Routing!Next]_routingVars PROVE RoutingInv'
  OBVIOUS
<1>1. CASE Routing!Load
  BY <1>1 DEF Routing!Load, RoutingInv
<1>2. CASE Routing!AppendPart
  <2>1. PICK p \in Parts : raw' = Append(raw, p) /\ routes' = Routing!Parse(raw')
    BY <1>2 DEF Routing!AppendPart
  <2>2. raw' \in Seq(Parts) /\ Len(raw') = Len(raw) + 1
    BY <2>1 DEF RoutingInv
  <2>3. Len(raw') <= MaxParts
    BY <1>2, <2>2, RoutingParameters DEF Routing!AppendPart, RoutingInv, Routing!Parameters
  <2>4. QED
    BY <2>1, <2>2, <2>3 DEF RoutingInv
<1>3. CASE UNCHANGED routingVars
  BY <1>3 DEF routingVars, RoutingInv
<1>4. QED
  BY <1>1, <1>2, <1>3 DEF Routing!Next

\* where no route is lost.
LEMMA RoutingSafe == RoutingInv => Routing!NoRouteLost
<1> SUFFICES ASSUME RoutingInv, routes \notin {Unset, Invalid},
                    NEW i \in 1 .. Len(raw), NEW repo \in Repos,
                    raw[i].kind # "blank", repo \in raw[i].glob
             PROVE  i \in Routing!Matching(routes, repo)
  BY DEF Routing!NoRouteLost, Routing!Routed, Routing!IsBlank
<1>1. i \in InUse(raw)
  BY DEF InUse, RoutingInv
<1>2. routes = [k \in InUse(raw) |-> raw[k]]
  BY <1>1, Accepted DEF RoutingInv
<1>3. QED
  BY <1>1, <1>2 DEF Routing!Matching

\* What is appended comes after every match there is.
LEMMA RoutingKeeps == RoutingInv /\ [Routing!Next]_routingVars => Routing!KeepsRoutes
<1> SUFFICES ASSUME RoutingInv, [Routing!Next]_routingVars,
                    routes \notin {Unset, Invalid}, routes' # Invalid,
                    NEW repo \in Repos, Routing!Matching(routes, repo) # {}
             PROVE  Routing!targetVault(routes', "other", repo)
                      = Routing!targetVault(routes, "other", repo)
  BY DEF Routing!KeepsRoutes, Routing!Routed
<1>1. CASE Routing!AppendPart
  <2>1. PICK p \in Parts : raw' = Append(raw, p) /\ routes' = Routing!Parse(raw')
    BY <1>1 DEF Routing!AppendPart
  <2>2. /\ raw \in Seq(Parts) /\ raw' \in Seq(Parts) /\ Len(raw') = Len(raw) + 1
        /\ Len(raw') <= MaxParts /\ Len(raw) <= MaxParts
        /\ \A i \in 1 .. Len(raw) : raw'[i] = raw[i]
    BY <1>1, <2>1, RoutingNext DEF RoutingInv
  <2>3. routes = [i \in InUse(raw) |-> raw[i]] /\ InUse(raw) # {}
    BY <2>2, Accepted DEF RoutingInv
  <2>4. /\ InUse(raw) \subseteq 1 .. Len(raw)
        /\ InUse(raw) \subseteq InUse(raw')
        /\ InUse(raw') \subseteq InUse(raw) \cup {Len(raw) + 1}
    BY <2>2 DEF InUse
  <2>5. routes' = [i \in InUse(raw') |-> raw'[i]] /\ routes' # Unset
    BY <2>1, <2>2, <2>3, <2>4, Accepted
  <2> DEFINE before == Routing!Matching(routes, repo)
             after == Routing!Matching(routes', repo)
  <2>6. /\ before \subseteq 1 .. Len(raw)
        /\ before \subseteq after
        /\ after \subseteq before \cup {Len(raw) + 1}
        /\ \A i \in before : routes'[i] = routes[i]
    BY <2>2, <2>3, <2>4, <2>5 DEF Routing!Matching
  <2>7. PICK m \in before : \A i \in before : m <= i
    <3>1. before \subseteq Nat
      BY <2>2, <2>6
    <3>2. QED
      BY <3>1, LeastOf
  <2>8. \A i \in after : m <= i
    BY <2>2, <2>6, <2>7
  <2>9. Routing!Min(before) = m /\ Routing!Min(after) = m
    <3>1. \A x \in before : (\A y \in before : x <= y) => x = m
      BY <2>2, <2>6, <2>7
    <3>2. \A x \in after : (\A y \in after : x <= y) => x = m
      BY <2>2, <2>6, <2>7, <2>8
    <3>3. QED
      BY <2>6, <2>7, <2>8, <3>1, <3>2 DEF Routing!Min
  <2>10. after # {} /\ routes'[m].vault = routes[m].vault
    BY <2>6, <2>7
  <2>11. QED
    BY <2>5, <2>9, <2>10 DEF Routing!targetVault, Routing!VaultFor
<1>2. CASE Routing!Load
  BY <1>2 DEF Routing!Load
<1>3. CASE UNCHANGED routingVars
  BY <1>3 DEF routingVars
<1>4. QED
  BY <1>1, <1>2, <1>3 DEF Routing!Next

-----------------------------------------------------------------------------
(***************************************************************************)
(* Components: in the part that was picked, its invariant holds; no other  *)
(* part ever moves.                                                        *)
(***************************************************************************)
PartsInv ==
    /\ part = "gate" => GateInv
    /\ part = "fetch" => FetchInv
    /\ part = "transport" => TransportInv
    /\ part = "memdb" => MemInv
    /\ part = "names" => NamesInv
    /\ part = "routing" => RoutingInv

\* A step of Components is a step of the part that was picked.
LEMMA PartsStep ==
    ASSUME [Next]_vars
    PROVE  /\ part' = part
           /\ part = "gate" => [Gate!Next]_gateVars
           /\ part = "fetch" => [Fetch!Next]_fetchVars
           /\ part = "transport" => [Transport!Next]_transportVars
           /\ part = "memdb" => [MemDB!Next]_memVars
           /\ part = "names" => [Names!Next]_nameVars
           /\ part = "routing" => [Routing!Next]_routingVars
<1>1. CASE UNCHANGED vars
  BY <1>1 DEF vars, gateVars, gateRest, fetchVars, transportVars, memVars, nameVars,
     routingVars
<1>2. CASE Next
  BY <1>2 DEF Next, GateStep, FetchStep, TransportStep, MemDBStep, NamesStep, RoutingStep
<1>3. QED
  BY <1>1, <1>2

\* The invariants of the parts make an inductive one of Components.
LEMMA PartsAlways == Spec => []PartsInv
<1>1. Init => PartsInv
  BY GateInit, FetchInit, TransportInit, MemDBInit, NamesInit, RoutingInit
     DEF Init, PartsInv
<1>2. ASSUME PartsInv, [Next]_vars PROVE PartsInv'
  <2>1. part = "gate" => GateInv'
    BY <1>2, PartsStep, GateNext DEF PartsInv
  <2>2. part = "fetch" => FetchInv'
    BY <1>2, PartsStep, FetchNext DEF PartsInv
  <2>3. part = "transport" => TransportInv'
    BY <1>2, PartsStep, TransportNext DEF PartsInv
  <2>4. part = "memdb" => MemInv'
    BY <1>2, PartsStep, MemDBNext DEF PartsInv
  <2>5. part = "names" => NamesInv'
    <3>1. CASE Names!Next
      BY <1>2, <3>1, NamesNext DEF PartsInv
    <3>2. CASE UNCHANGED nameVars
      BY <1>2, <3>2 DEF PartsInv, NamesInv, nameVars
    <3>3. QED
      BY <1>2, <3>1, <3>2, PartsStep
  <2>6. part = "routing" => RoutingInv'
    BY <1>2, PartsStep, RoutingNext DEF PartsInv
  <2>7. part' = part
    BY <1>2, PartsStep
  <2>8. QED
    BY <2>1, <2>2, <2>3, <2>4, <2>5, <2>6, <2>7 DEF PartsInv
<1>3. QED
  BY <1>1, <1>2, PTL DEF Spec

\* However heads move on and requests fail during Evaluate, an answer without an
\* error is the one that its reads give together at one moment of the call, for
\* specs of any content and any number of pushes (candidate.go).
THEOREM GateAnswersHold == Spec => []GateAnswersAtOneMoment
<1>1. PartsInv => GateAnswersAtOneMoment
  BY DEF PartsInv, GateInv, GateAnswersAtOneMoment
<1>2. QED
  BY <1>1, PartsAlways, PTL

\* Evaluate returns an error only behind a failed request, the frontmatter of a
\* spec of the diff that does not parse, or an empty frontmatter that the code
\* reads on behind, whatever else the files hold.
THEOREM GateErrorsAreCaused == Spec => []GateErrorsHaveACause
<1>1. PartsInv => GateErrorsHaveACause
  BY DEF PartsInv, GateInv, GateErrorsHaveACause
<1>2. QED
  BY <1>1, PartsAlways, PTL

\* Paging through a listing that changes under it, for any page size, misses no
\* more of the entries that stayed than entries left their places (fetchAllPRs).
THEOREM PagesMissAFew == Spec => []FetchMissesBounded
<1>1. PartsInv => FetchMissesBounded
  BY FetchSafe DEF PartsInv, FetchMissesBounded
<1>2. QED
  BY <1>1, PartsAlways, PTL

\* Peeking at a response to log it takes no byte from the caller, adds none and
\* keeps the error at its end, for any body and any peek size (non2xx_log.go).
THEOREM BodiesAreWhole == Spec => []TransportSameBody
<1>1. PartsInv => TransportSameBody
  BY TransportSafe DEF PartsInv, TransportSameBody
<1>2. QED
  BY <1>1, PartsAlways, PTL

\* However the consumers of any number of partitions interleave with Close, each
\* goes on from the offset it stored last (memdb.go).
THEOREM NothingIsForgotten == Spec => []MemDBNothingForgotten
<1>1. PartsInv => MemDBNothingForgotten
  BY MemDBSafe DEF PartsInv, MemDBNothingForgotten
<1>2. QED
  BY <1>1, PartsAlways, PTL

\* No step of another consumer changes what a View is reading: the lock keeps
\* writers out while a reader is in (memdb.go).
THEOREM ViewsAreStable == Spec => MemDBViewIsStable
<1>1. ASSUME PartsInv, [Next]_vars
      PROVE  part = "memdb" => MemDB!KeepsViews
  BY <1>1, PartsStep, MemDBKeeps DEF PartsInv
<1>2. QED
  BY <1>1, PartsAlways, PTL DEF Spec, MemDBViewIsStable

\* However transactions of any number of consumers interleave, fail, panic or run
\* into Close, the store is one counter for each partition (memdb.go): a counter
\* moves only by one, only at the end of a command of its own partition, and a
\* consumer is delivered the command at the counter.
THEOREM StoreIsAtomic == Spec => MemDBImplementsOffsets
<1>1. ASSUME Init PROVE Offsets!Init
  <2>1. CASE part = "memdb"
    <3>1. offsets = NoBucket /\ at = [p \in Partitions |-> "start"]
      BY <1>1, <2>1 DEF Init, MemDB!Init
    <3>2. StoreOpen
      BY <3>1, MemDBParameters DEF StoreOpen, MemDB!Parameters
    <3>3. StoredOffsets = [p \in Partitions |-> 0]
      BY <3>1 DEF StoredOffsets, MemDB!Get
    <3>4. HeldOffsets = [p \in Partitions |-> {}]
      BY <3>1 DEF HeldOffsets
    <3>5. QED
      BY <3>2, <3>3, <3>4 DEF Offsets!Init, Offsets!Oldest
  <2>2. CASE part # "memdb"
    BY <2>2 DEF Offsets!Init, Offsets!Oldest, StoreOpen, StoredOffsets, HeldOffsets
  <2>3. QED
    BY <2>1, <2>2
<1>2. ASSUME PartsInv, [Next]_vars
      PROVE  [Offsets!Next]_<<StoreOpen, StoredOffsets, HeldOffsets>>
  <2>1. CASE part = "memdb"
    BY <1>2, <2>1, PartsStep, MemDBSteps DEF PartsInv
  <2>2. CASE part # "memdb"
    <3>1. part' = part
      BY <1>2, PartsStep
    <3>2. UNCHANGED <<StoreOpen, StoredOffsets, HeldOffsets>>
      BY <2>2, <3>1 DEF StoreOpen, StoredOffsets, HeldOffsets
    <3>3. QED
      BY <3>2
  <2>3. QED
    BY <2>1, <2>2
<1>3. QED
  BY <1>1, <1>2, PartsAlways, PTL DEF Spec, MemDBImplementsOffsets, Offsets!Spec

\* For every title and every maximum, a slug is letters with single hyphens
\* between them, never one at an end, holds the first letters of the title in
\* their order, and all of them if they fit (slugifyTitle).
THEOREM SlugsAreClean == Spec => []NamesSlugIsClean
<1>1. PartsInv => NamesSlugIsClean
  BY NamesSlug DEF PartsInv, NamesSlugIsClean
<1>2. QED
  BY <1>1, PartsAlways, PTL

\* For every title, SHA, suffix and cap, a name keeps to its cap and ends with
\* the whole suffix, unless the suffix alone exceeds it (computeTaskFilename).
THEOREM NamesAreInTheirMaximum == Spec => []NamesFit
<1>1. PartsInv => NamesFit
  BY NamesKeepTheirMaximum DEF PartsInv, NamesFit
<1>2. QED
  BY <1>1, PartsAlways, PTL

\* Two heads of a pull request whose short SHAs differ have two file names,
\* whatever is cut of the slug, as long as the cap leaves room for the rest.
THEOREM HeadsAreToldApart == Spec => []NamesTellHeadsApart
<1>1. PartsInv => NamesTellHeadsApart
  BY NamesOfTwoHeads DEF PartsInv, NamesTellHeadsApart
<1>2. QED
  BY <1>1, PartsAlways, PTL

\* A vault map in use routes by every part of the setting that is not blank,
\* however long the setting (ParseVaultMap).
THEOREM NoRouteIsLost == Spec => []RoutingNoRouteLost
<1>1. PartsInv => RoutingNoRouteLost
  BY RoutingSafe DEF PartsInv, RoutingNoRouteLost
<1>2. QED
  BY <1>1, PartsAlways, PTL

\* What is appended to a setting reroutes no repository that had a route: the
\* first match wins (targetVault).
THEOREM RoutesStay == Spec => RoutingRoutesStay
<1>1. ASSUME PartsInv, [Next]_vars
      PROVE  part = "routing" => Routing!KeepsRoutes
  BY <1>1, PartsStep, RoutingKeeps DEF PartsInv
<1>2. QED
  BY <1>1, PartsAlways, PTL DEF Spec, RoutingRoutesStay
=============================================================================
