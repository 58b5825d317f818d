-------------------------------- MODULE Gate --------------------------------
(***************************************************************************)
(* One call of darkfactory.Evaluate (pkg/darkfactory/candidate.go), read   *)
(* by read, while the pull request moves on.  Watcher and Trigger take the *)
(* gate as one step, Candidate!Evaluate; here its requests can fail one by *)
(* one, specs are files with a frontmatter, and the list of the diff's     *)
(* files - the only read without a SHA - may belong to a later head.       *)
(*                                                                         *)
(* A file is a sequence of lines, and a line one of these:                 *)
(*   "---"        exactly the fence        "----"   begins with the fence  *)
(*   "approved"   the key, with a value    "approved:"  the key, blank     *)
(*   "completed"  the key, with a value    "text"   no YAML mapping        *)
(***************************************************************************)
EXTENDS Sequences, FiniteSetsExt

CONSTANTS
    Files,      \* the paths a diff can hold
    Specs,      \* those under specs/in-progress/ that end in .md
    Contents,   \* what a file can hold: sequences of lines
    Absent,     \* the file does not exist at the SHA
    MaxHead     \* bound: the heads of the pull request are 1..MaxHead

VARIABLES
    input,      \* in.IsDraft, in.State and the content pinned by in.HeadSHA = 1
    diff,       \* the files of the diff, at each head
    head,       \* the current head
    call        \* the call: where it is, what is left to read, its result

gateVars == <<input, diff, head, call>>

Line == {"---", "----", "approved", "approved:", "completed", "text"}

Parameters == (\A c \in Contents : c \in Seq(Line)) /\ Absent \notin Contents

C == INSTANCE Candidate

-----------------------------------------------------------------------------
(***************************************************************************)
(* Frontmatter.                                                            *)
(***************************************************************************)

Fence(line) == line \in {"---", "----"}

\* "\n---" is searched for behind the opening line, so that the line right
\* after it cannot close the block.
Closers(lines) == {i \in 3 .. Len(lines) : Fence(lines[i])}

\* Mutation of Block: a block that is never closed counts.
BlockToTheEnd(lines) ==
    IF lines = <<>> \/ Head(lines) # "---" THEN {}
    ELSE 2 .. (IF Closers(lines) = {} THEN Len(lines) ELSE Min(Closers(lines)) - 1)

\* The numbers of the lines in the block.
Block(lines) ==
    IF lines = <<>> \/ Head(lines) # "---" \/ Closers(lines) = {} THEN {}
    ELSE 2 .. Min(Closers(lines)) - 1

parseFrontmatter(lines) == {lines[i] : i \in Block(lines)}

Key(line) == IF line = "approved:" THEN "approved" ELSE line

\* No YAML mapping: a line that is no key, or one key twice.  "----" right
\* after the opening line is a text; "---" there starts the document.
Unparsable(lines) ==
    \/ \E i \in Block(lines) : lines[i] \in {"text", "----"}
    \/ \E i, j \in Block(lines) : i # j /\ Key(lines[i]) = Key(lines[j])

specApprovedNotCompleted(lines) ==
    /\ "approved" \in parseFrontmatter(lines)
    /\ "completed" \notin parseFrontmatter(lines)

-----------------------------------------------------------------------------
(***************************************************************************)
(* The call.                                                               *)
(***************************************************************************)

Result(verdict, matched, queued) ==
    [verdict |-> verdict, matched |-> matched, queued |-> queued]

skip(reason) == Result(reason, {}, FALSE)

Return(result) == call' = [call EXCEPT !.pc = "done", !.todo = {}, !.result = result]

At(pc) == call.pc = pc /\ UNCHANGED <<input, diff>>

SkipUnread ==
    /\ At("begin")
    /\ ~input.draft \/ ~input.open
    /\ Return(skip(IF ~input.draft THEN "not_draft" ELSE "not_open"))
    /\ UNCHANGED head

ReadConfig ==
    /\ At("begin")
    /\ input.draft
    /\ input.open
    /\ IF input.config THEN call' = [call EXCEPT !.pc = "list"]
       ELSE Return(skip("no_dark_factory_yaml"))
    /\ UNCHANGED head

ListPRFiles ==
    /\ At("list")
    /\ call' = [call EXCEPT !.pc = "specs", !.todo = diff[head] \cap Specs]
    /\ UNCHANGED head

\* A spec that is absent at the SHA is ignored: it was moved or deleted.
ReadSpec(f) ==
    LET lines == input.files[f]
    IN  /\ At("specs")
        /\ f \in call.todo
        /\ IF lines # Absent /\ Unparsable(lines) THEN Return(skip("error"))
           ELSE call' = [call EXCEPT
                           !.todo = call.todo \ {f},
                           !.matched = IF lines # Absent /\ specApprovedNotCompleted(lines)
                                       THEN call.matched \cup {f} ELSE call.matched]
        /\ UNCHANGED head

SpecsRead ==
    /\ At("specs")
    /\ call.todo = {}
    /\ IF call.matched = {} THEN Return(skip("no_spec_in_diff"))
       ELSE call' = [call EXCEPT !.pc = "prompts"]
    /\ UNCHANGED head

\* hasQueuedPrompts: a directory that does not exist holds none.
ReadPrompts ==
    /\ At("prompts")
    /\ Return(Result(C!Keep, call.matched, input.queued))
    /\ UNCHANGED head

Reading ==
    \/ call.pc = "begin" /\ input.draft /\ input.open
    \/ call.pc \in {"list", "prompts"}
    \/ call.pc = "specs" /\ call.todo # {}

\* Mutation of ReadFails: a spec that cannot be read is left out.
ReadFailsIgnored ==
    /\ Reading
    /\ call' = [call EXCEPT !.failed = TRUE,
                            !.pc = IF call.pc = "specs" THEN "specs" ELSE "done",
                            !.todo = {}]
    /\ UNCHANGED <<input, diff, head>>

\* Any error of a request but a 404 ends the call.
ReadFails ==
    /\ Reading
    /\ call' = [call EXCEPT !.failed = TRUE, !.pc = "done", !.todo = {},
                            !.result = skip("error")]
    /\ UNCHANGED <<input, diff, head>>

Push ==
    /\ head < MaxHead
    /\ call.pc # "done"
    /\ head' = head + 1
    /\ UNCHANGED <<input, diff, call>>

Init ==
    /\ input \in [draft : BOOLEAN, open : BOOLEAN, config : BOOLEAN,
                  queued : BOOLEAN, files : [Specs -> Contents \cup {Absent}]]
    /\ diff \in [1 .. MaxHead -> SUBSET Files]
    /\ head = 1
    /\ call = [pc |-> "begin", todo |-> {}, matched |-> {}, failed |-> FALSE,
               result |-> skip("error")]

Next ==
    \/ SkipUnread \/ ReadConfig \/ ListPRFiles
    \/ \E f \in Specs : ReadSpec(f)
    \/ SpecsRead \/ ReadPrompts \/ ReadFails \/ Push

-----------------------------------------------------------------------------
(***************************************************************************)
(* Properties.                                                             *)
(***************************************************************************)

\* What a frontmatter is: the lines between the opening fence, which is the
\* first line, and the next fence.
InBlock(lines, i) ==
    /\ Head(lines) = "---"
    /\ \A j \in 2 .. i : ~Fence(lines[j])
    /\ \E j \in (i + 1) .. Len(lines) : Fence(lines[j])

BlockOf(f) ==
    IF input.files[f] = Absent THEN {}
    ELSE {i \in 2 .. Len(input.files[f]) : InBlock(input.files[f], i)}

BlockHas(f, line) == \E i \in BlockOf(f) : input.files[f][i] = line

\* The block is no YAML mapping.
Broken(f) ==
    \/ BlockHas(f, "text")
    \/ \E i, j \in BlockOf(f) : i # j /\ Key(input.files[f][i]) = Key(input.files[f][j])

\* An empty frontmatter, and a fence further down.  The search for the closing
\* fence begins a line late (candidate.go:228-229), so the code reads on to
\* that fence and takes what is above it for the block, against the comment on
\* parseFrontmatter (candidate.go:221-222).
ReadsOn(lines) ==
    /\ Len(lines) > 2
    /\ Head(lines) = "---"
    /\ Fence(lines[2])
    /\ \E j \in 3 .. Len(lines) : Fence(lines[j])

ReadsOnIn(f) == input.files[f] # Absent /\ ReadsOn(input.files[f])

\* The result the gate of Candidate gives if the diff is the one of head h:
\* what counts of a spec is its frontmatter, unless the code reads on.
ApprovedInDiff(h) ==
    {f \in diff[h] \cap Specs :
        \/ BlockHas(f, "approved") /\ ~BlockHas(f, "completed")
        \/ ReadsOnIn(f) /\ specApprovedNotCompleted(input.files[f])}

AtomicResult(h) ==
    LET matched == ApprovedInDiff(h)
        details == [draft |-> input.draft, open |-> input.open,
                    commit |-> [config |-> input.config, stage |-> "approved"]]
        verdict == C!Evaluate(details, matched # {})
    IN  IF verdict = C!Keep THEN Result(verdict, matched, input.queued)
        ELSE skip(verdict)

\* A call that returns without an error answers as if all its reads had
\* happened at one moment of the call: a failed read, or a head that moved,
\* never turns a candidate into no_spec_in_diff, which would drop the marker of
\* its queued phase (watcher.go:224-230, candidate.go:115-117).
AnswersAtOneMoment ==
    call.pc = "done" /\ call.result.verdict # "error"
        => /\ ~call.failed
           /\ \E h \in 1 .. head : call.result = AtomicResult(h)

\* An error has a cause: a request failed, or a spec of the diff has a
\* frontmatter that does not parse.  Text behind the frontmatter, or in a file
\* that has none, is held against a pull request in one case only: the
\* frontmatter is empty and the code reads on (candidate.go:221-242).
ErrorsHaveACause ==
    call.pc = "done" /\ call.result.verdict = "error"
        => \/ call.failed
           \/ \E h \in 1 .. head : \E f \in diff[h] \cap Specs : Broken(f) \/ ReadsOnIn(f)
=============================================================================
