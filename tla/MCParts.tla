------------------------------ MODULE MCParts -------------------------------
(***************************************************************************)
(* The parts of Components, each in a small instance.                      *)
(***************************************************************************)
EXTENDS Components, SequencesExt

\* Gate: two specs and another file.  The contents: no frontmatter, one that
\* is never closed, approved, completed, approved twice, and empty blocks with
\* a fence further down, which the code takes for the closing one.
SomeFiles == {"s1", "s2", "other"}
SomeSpecs == {"s1", "s2"}
SomeContents ==
    {<<"text">>, <<"---", "approved", "text">>,
     <<"---", "approved", "---", "text", "----">>,
     <<"---", "approved", "completed", "----", "text">>,
     <<"---", "approved", "approved:", "---">>,
     <<"---", "---", "text", "---">>,
     <<"---", "---", "approved", "---">>}

\* Fetch, Transport and MemDB.
SomeEntries == 1 .. 5
SomeBodies == 0 .. 5
SomePartitions == {"p1", "p2"}

\* Names: titles of up to four characters, and caps around their lengths.
SomeCharacters == {"a", "b", "?", "B", "s", "1", "2", "3", "4", "-", " "}
SomeLetters == {"a", "b"}
SomeNamings ==
    [base : {<<"B">>}, sha : {<<"1", "2", "3">>, <<"1", "4", "3">>},
     title : BoundedSeq({"a", "b", "?"}, 4), maxSlug : 1 .. 3,
     maxTitle : 2 .. 9, suffix : {<<>>, <<"s">>, <<"s", "s", "s">>}]

\* Routing: overlapping globs, and parts that are none.
SomeRepos == {"r1", "r2"}
SomeParts ==
    [kind : {"entry"}, glob : {{"r1"}, {"r1", "r2"}}, vault : {"v", "w"}]
    \cup [kind : {"blank", "noEquals"}, glob : {{"r2"}}, vault : {"v"}]
=============================================================================
