------------------------------- MODULE Routing ------------------------------
(***************************************************************************)
(* Which vault a command targets: pkg/vaultmap and targetVault of          *)
(* pkg/watcher.go.  REPO_VAULT_MAP is the sequence of its comma-separated  *)
(* parts.  How a glob matches is external (repoallowlist): a glob is the   *)
(* set of the repositories that it covers.                                 *)
(***************************************************************************)
EXTENDS SequencesExt

CONSTANTS
    Repos,         \* repository keys
    Parts,         \* the parts REPO_VAULT_MAP can have
    MaxParts,      \* bound on their number
    Unset,         \* no resolver, no vault: the controller's default applies
    Invalid        \* Parse returns an error

VARIABLES
    raw,           \* REPO_VAULT_MAP
    routes         \* what Parse made of it

routingVars == <<raw, routes>>

Parameters ==
    /\ MaxParts \in Nat
    /\ Unset # Invalid
    /\ \A S \in SUBSET (1 .. MaxParts) :
        Unset \notin [S -> Parts] /\ Invalid \notin [S -> Parts]

-----------------------------------------------------------------------------
DefaultVault == "openclaw"

\* kind: "blank", or what is wrong with the part - "noEquals", "negated",
\* "badSlug", "badGlob" - or "entry".
IsBlank(part) == part.kind = "blank"

\* Mutation of Parse: entries that are not valid are left out.
ParseLenient(parts) ==
    LET entries == {i \in DOMAIN parts : parts[i].kind = "entry"}
    IN  IF entries = {} THEN Unset ELSE Restrict(parts, entries)

\* The entries keep the numbers of their parts: only their order counts.
Parse(parts) ==
    LET used == {i \in DOMAIN parts : ~IsBlank(parts[i])}
    IN  IF \E i \in used : parts[i].kind # "entry" THEN Invalid
        ELSE IF used = {} THEN Unset
        ELSE Restrict(parts, used)

Matching(entries, repo) == {i \in DOMAIN entries : repo \in entries[i].glob}

\* Mutation of VaultFor: the last match wins.
VaultForLast(entries, repo) ==
    IF Matching(entries, repo) = {} THEN DefaultVault
    ELSE entries[Max(Matching(entries, repo))].vault

VaultFor(entries, repo) ==
    IF Matching(entries, repo) = {} THEN DefaultVault
    ELSE entries[Min(Matching(entries, repo))].vault

\* A map wins over TARGET_VAULT, also for a repository it does not mention.
targetVault(resolver, targetVaultSetting, repo) ==
    IF resolver # Unset THEN VaultFor(resolver, repo) ELSE targetVaultSetting

Load ==
    /\ routes = Unset
    /\ Parse(raw) # Unset
    /\ routes' = Parse(raw)
    /\ UNCHANGED raw

\* The operator appends a part to the map and restarts the watcher.
AppendPart ==
    /\ routes \notin {Unset, Invalid}
    /\ Len(raw) < MaxParts
    /\ \E part \in Parts :
        /\ raw' = Append(raw, part)
        /\ routes' = Parse(Append(raw, part))

Init ==
    /\ raw \in BoundedSeq(Parts, MaxParts)
    /\ routes = Unset

Next == Load \/ AppendPart

-----------------------------------------------------------------------------
(***************************************************************************)
(* Properties.                                                             *)
(***************************************************************************)

Routed(entries, repo) == Matching(entries, repo) # {}

\* Adding to the end of a map reroutes no repository that it routes already,
\* whatever is added: either the whole map is refused or every route stays
\* (vaultmap.go:53-56, "the first match wins").
KeepsRoutes ==
    routes \notin {Unset, Invalid} /\ routes' # Invalid =>
        \A repo \in Repos : Routed(routes, repo) =>
            targetVault(routes', "other", repo) = targetVault(routes, "other", repo)

RoutesStay == [][KeepsRoutes]_routingVars

\* A map that is in use has lost nothing of what was written: a part that is not
\* an entry refuses the map instead of sending its repositories to the default
\* vault (vaultmap.go:48-52).
NoRouteLost ==
    routes \notin {Unset, Invalid} =>
        \A i \in 1 .. Len(raw) : \A repo \in Repos :
            ~IsBlank(raw[i]) /\ repo \in raw[i].glob => Routed(routes, repo)
=============================================================================
