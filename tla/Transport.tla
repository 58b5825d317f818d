------------------------------ MODULE Transport -----------------------------
(***************************************************************************)
(* The logging transport of pkg/non2xx_log.go: of a response outside       *)
(* 200-299 it reads a prefix of the body for the log line, and hands the   *)
(* caller a body that replays the prefix before the rest.  The bytes of a  *)
(* body are numbered, so that their order and number can be compared.      *)
(***************************************************************************)
EXTENDS Sequences, Naturals

CONSTANTS
    Bodies,      \* the lengths a response body can have
    PeekBytes    \* non2xxPeekBytes

VARIABLES
    response,    \* the response of the inner transport
    pos,         \* how much of the original body was read
    prefix,      \* what the transport has read of it
    rest,        \* what the caller reads after the prefix
    peeking,     \* logNon2xxResponse is reading
    broken,      \* the original body has returned its error
    got,         \* what the caller has read
    ended        \* how the caller's reading ended

Parameters == Bodies \subseteq Nat /\ PeekBytes \in Nat

transportVars == <<response, pos, prefix, rest, peeking, broken, got, ended>>

Bytes(first, last) == [i \in 1 .. (last + 1 - first) |-> first + i - 1]

\* One Read of the original body: some bytes, and perhaps, at the end, what
\* the body ends with.  n is how many bytes the reader's buffer has.
Reads(n) ==
    {r \in [bytes : 0 .. n, status : {"more", response.end}] :
        /\ pos + r.bytes <= response.length
        /\ r.status = "more" => r.bytes > 0
        /\ r.status # "more" => pos + r.bytes = response.length}

\* Mutation of Rest: the error was read and is gone.
RestForgetsError(status) == "body"

\* What follows the prefix: the original body, or the error it failed with.
Rest(status) == IF status = "error" THEN "errReader" ELSE "body"

\* io.ReadAll(io.LimitReader(...)): until the body ends or the limit is reached.
Peek ==
    /\ peeking
    /\ Len(prefix) < PeekBytes
    /\ \E r \in Reads(PeekBytes - Len(prefix)) :
        /\ prefix' = prefix \o Bytes(pos + 1, pos + r.bytes)
        /\ pos' = pos + r.bytes
        /\ rest' = Rest(r.status)
        /\ peeking' = (r.status = "more")
        /\ broken' = (r.status = "error")
    /\ UNCHANGED <<response, got, ended>>

PeekFull ==
    /\ peeking
    /\ Len(prefix) = PeekBytes
    /\ peeking' = FALSE
    /\ UNCHANGED <<response, pos, prefix, rest, broken, got, ended>>

Open == ~peeking /\ ended = "no"

\* io.MultiReader: the prefix first.
ReadPrefix ==
    /\ Open
    /\ prefix # <<>>
    /\ \E n \in 1 .. Len(prefix) :
        /\ got' = got \o SubSeq(prefix, 1, n)
        /\ prefix' = SubSeq(prefix, n + 1, Len(prefix))
    /\ UNCHANGED <<response, pos, rest, peeking, broken, ended>>

\* A body that has failed once may answer anything to another Read.
ReadRest ==
    /\ Open
    /\ prefix = <<>>
    /\ \/ /\ rest = "errReader"
          /\ ended' = "error"
          /\ UNCHANGED <<pos, got>>
       \/ /\ rest = "body"
          /\ \E r \in Reads(response.length + 1) :
              /\ got' = got \o Bytes(pos + 1, pos + r.bytes)
              /\ pos' = pos + r.bytes
              /\ ended' \in (IF r.status = "more" THEN {"no"}
                             ELSE IF broken THEN {"eof", "error"}
                             ELSE {r.status})
    /\ UNCHANGED <<response, prefix, rest, peeking, broken>>

\* peekedBody.Close closes the original body.
Close ==
    /\ Open
    /\ ended' = "closed"
    /\ UNCHANGED <<response, pos, prefix, rest, peeking, broken, got>>

Init ==
    /\ response \in [length : Bodies, end : {"eof", "error"}, success : BOOLEAN]
    /\ pos = 0
    /\ prefix = <<>>
    /\ rest = "body"
    /\ peeking = ~response.success
    /\ broken = FALSE
    /\ got = <<>>
    /\ ended = "no"

Next == Peek \/ PeekFull \/ ReadPrefix \/ ReadRest \/ Close

-----------------------------------------------------------------------------
\* The caller sees the body the server sent: the same bytes in the same order,
\* and when they end, the same end.  An error met while peeking comes after the
\* bytes that were read before it, and is not lost (non2xx_log.go:41-44).
SameBody ==
    /\ got = Bytes(1, Len(got))
    /\ ended \in {"eof", "error"} => Len(got) = response.length /\ ended = response.end
=============================================================================
