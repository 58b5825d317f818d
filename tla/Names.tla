-------------------------------- MODULE Names -------------------------------
(***************************************************************************)
(* The name of a task's file, pkg/filename.go: a title made of provider,   *)
(* repository, number and SHA, a slug of the pull request's title, and a   *)
(* suffix, cut to a maximum.  A string is a sequence of characters; a      *)
(* letter stands for any of [a-z0-9].                                      *)
(***************************************************************************)
EXTENDS SequencesExt

CONSTANTS
    Characters, \* those of titles, SHAs and names
    Letters,    \* those a slug keeps
    ShaLen,     \* how much of the SHA the name shows
    Namings     \* the inputs: [base, sha, title, maxSlug, maxTitle, suffix]

VARIABLES
    naming,     \* the pull request and the caps of this call
    name        \* its result, <<>> before

nameVars == <<naming, name>>

Hyphen == "-"
Space == " "

Naming == [base : Seq(Characters), sha : Seq(Characters), title : Seq(Characters),
           maxSlug : Nat, maxTitle : Nat, suffix : Seq(Characters)]

\* A commit's SHA is never shorter than what the name shows of it.
Parameters ==
    /\ Letters \cup {Hyphen, Space} \subseteq Characters
    /\ Hyphen \notin Letters
    /\ ShaLen \in Nat
    /\ \A n \in Namings : n \in Naming /\ Len(n.sha) >= ShaLen

-----------------------------------------------------------------------------
Separator == <<Space>>    \* " - "

Kept(s) == {i \in 1 .. Len(s) : s[i] # Hyphen}

TrimRight(s) == IF Kept(s) = {} THEN <<>> ELSE SubSeq(s, 1, Max(Kept(s)))

Trim(s) == IF Kept(s) = {} THEN <<>> ELSE SubSeq(s, Min(Kept(s)), Max(Kept(s)))

Cut(s, n) == IF Len(s) > n THEN SubSeq(s, 1, n) ELSE s

\* The letters, and one hyphen for every gap between them.
Hyphenated(title) ==
    LET written[n \in 0 .. Len(title)] ==
            IF n = 0 THEN <<>>
            ELSE LET s == written[n - 1]
                 IN  IF title[n] \in Letters THEN Append(s, title[n])
                     ELSE IF s # <<>> /\ Last(s) = Hyphen THEN s
                     ELSE Append(s, Hyphen)
    IN  written[Len(title)]

\* Mutation of slugifyTitle: the hyphen a cut leaves behind stays.
slugifyUntrimmed(title, maxSlug) == Cut(Trim(Hyphenated(title)), maxSlug)

slugifyTitle(title, maxSlug) ==
    LET slug == Trim(Hyphenated(title))
    IN  IF Len(slug) > maxSlug THEN TrimRight(Cut(slug, maxSlug)) ELSE slug

base(n, sha) == n.base \o Separator \o Cut(sha, ShaLen)

suffixPart(n) == IF n.suffix = <<>> THEN <<>> ELSE Separator \o n.suffix

\* Mutation of titleWithSlug: the SHA comes last, and is cut first.
titleShaLast(n, sha) ==
    n.base \o Separator \o slugifyTitle(n.title, n.maxSlug) \o Separator \o Cut(sha, ShaLen)

titleWithSlug(n, sha) ==
    LET slug == slugifyTitle(n.title, n.maxSlug)
    IN  IF slug = <<>> THEN base(n, sha) ELSE base(n, sha) \o Separator \o slug

\* Mutation of truncated: the suffix is cut off with the rest.
truncatedAtTheEnd(t, suffix, maxTitle) == Cut(t \o suffix, maxTitle)

\* Only what stands before the suffix is cut, the slug first.
truncated(t, suffix, maxTitle) ==
    IF Len(t) + Len(suffix) <= maxTitle THEN t \o suffix
    ELSE Cut(t, IF maxTitle < Len(suffix) THEN 0 ELSE maxTitle - Len(suffix)) \o suffix

computeTaskFilename(n, sha) ==
    truncated(titleWithSlug(n, sha), suffixPart(n), n.maxTitle)

Compute ==
    /\ name = <<>>
    /\ name' = computeTaskFilename(naming, naming.sha)
    /\ UNCHANGED naming

Init == naming \in Namings /\ name = <<>>

Next == Compute

-----------------------------------------------------------------------------
(***************************************************************************)
(* Properties.                                                             *)
(***************************************************************************)
Slug == slugifyTitle(naming.title, naming.maxSlug)

LettersOf(s) ==
    LET found[n \in 0 .. Len(s)] ==
            IF n = 0 THEN <<>>
            ELSE IF s[n] \in Letters THEN Append(found[n - 1], s[n])
            ELSE found[n - 1]
    IN  found[Len(s)]

\* A slug is letters with single hyphens between them, never at an end, not
\* even where it was cut; it holds the title's letters in their order, and all
\* of them if they fit (filename.go:84-92).
SlugIsClean ==
    /\ Len(Slug) <= naming.maxSlug
    /\ \A i \in 1 .. Len(Slug) :
        Slug[i] \notin Letters =>
            /\ Slug[i] = Hyphen
            /\ i \notin {1, Len(Slug)}
            /\ Slug[i + 1] # Hyphen
    /\ IsPrefix(LettersOf(Slug), LettersOf(naming.title))
    /\ Len(naming.title) <= naming.maxSlug => LettersOf(Slug) = LettersOf(naming.title)

\* A name keeps to the maximum and ends with the whole suffix, as long as the
\* suffix alone does not exceed it (main.go:114, filename.go:34-36).
NameFits ==
    name # <<>> /\ Len(suffixPart(naming)) <= naming.maxTitle =>
        /\ Len(name) <= naming.maxTitle
        /\ IsSuffix(suffixPart(naming), name)

\* Tasks for two heads of a pull request have different files, as long as the
\* cap leaves room for everything but the slug.
HeadsHaveTheirNames ==
    LET room == Len(base(naming, naming.sha)) + Len(suffixPart(naming))
    IN  name # <<>> /\ room <= naming.maxTitle =>
            \A n \in Namings :
                /\ [n EXCEPT !.sha = naming.sha] = naming
                /\ Cut(n.sha, ShaLen) # Cut(naming.sha, ShaLen)
                => computeTaskFilename(n, n.sha) # name
=============================================================================
