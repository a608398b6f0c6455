------------------------------ MODULE HookSearch ------------------------------
(***************************************************************************)
(* One search of the hook backend (crates/hook): the built-in search asks  *)
(* the user's site templates one after the other and then the engines, the *)
(* override runs the user's command.  Either fills one list of magnets     *)
(* under one result budget.                                                *)
(*                                                                         *)
(* A page is what the extraction finds on it: a sequence of magnet texts   *)
(* without outer white space, in document order (anchors first, then bare  *)
(* tokens).  A request that fails and one that finds nothing are the same  *)
(* empty page.  Titles and sizes are left out, and so is time.             *)
(***************************************************************************)
EXTENDS Naturals, Sequences, SequencesExt

CONSTANTS
    Magnets,        \* magnet texts
    Hash,           \* their info hashes (magnet_key)
    Sites,          \* the templates: [extract, pages]; pages is max_pages
    Engines,        \* how many engines there are (ENGINES)
    Budgets,        \* max_results of requests
    MaxResults,     \* max_results of the configuration
    MaxPage         \* bound: hits on one page

ASSUME HookAssumption ==
    /\ Sites \in Seq([extract : {"table", "detail", "regex", "blank"}, pages : Nat])
    /\ Engines \in Nat
    /\ Budgets \subseteq Nat /\ MaxResults \in Nat /\ MaxPage \in Nat

VARIABLES
    pc,
    command,        \* whether a command is configured
    budget,
    site, engine,   \* the next to ask
    hits,           \* builtin_search's list, or the command's parsed output
    out,            \* generic_search's list
    offered         \* observes: the distinct torrents of all pages so far,
                    \* or the command's output

hookVars == <<pc, command, budget, site, engine, hits, out, offered>>

AtMost(n, m) == IF n < m THEN n ELSE m
AtLeast(n, m) == IF n > m THEN n ELSE m

\* The caller's limit, bounded by the configured one; either is at least one.
BudgetOf(n) == AtMost(AtLeast(n, 1), AtLeast(MaxResults, 1))

HookInit ==
    /\ command \in BOOLEAN /\ pc = IF command THEN "command" ELSE "sites"
    /\ budget \in {BudgetOf(n) : n \in Budgets}
    /\ site = 1 /\ engine = 1
    /\ hits = <<>> /\ out = <<>> /\ offered = <<>>

Pages == UNION {[1 .. n -> Magnets] : n \in 0 .. MaxPage}

-----------------------------------------------------------------------------
(* Lists without duplicates. *)

\* A list taking what is on a page, one after the other: those whose key it does
\* not have yet, as long as it is shorter than most.
Keep(list, m, key, most) ==
    IF Len(list) = most \/ \E i \in DOMAIN list : key[list[i]] = key[m] THEN list ELSE Append(list, m)

Fill(list, page, key, most) ==
    LET filled[n \in 0 .. Len(page)] == IF n = 0 THEN list ELSE Keep(filled[n - 1], page[n], key, most)
    IN filled[Len(page)]

\* Room for everything.
Room(list, page) == Len(list) + Len(page)

\* Magnets that differ in text have different keys.
SameText == [m \in Magnets |-> m]

\* note_hits: a magnet is kept unless its torrent has been seen.
Note(list, page) == Fill(list, page, Hash, Room(list, page))

\* Mutant: the same torrent is taken again under another link.
TakeText(list, page) == Fill(list, page, SameText, budget)

\* builtin_search: the same, until the budget is reached.
Take(list, page) == Fill(list, page, Hash, budget)

Cut(list, n) == SubSeq(list, 1, AtMost(n, Len(list)))

-----------------------------------------------------------------------------
(* The built-in search. *)

\* A detail template follows up to ten links and takes one magnet of each.
Links(s) == AtMost(AtLeast(s.pages, 1), 10)

\* What may be found on a template's pages.
Findable(s) ==
    CASE s.extract = "blank" -> {<<>>}
      [] s.extract = "detail" -> {p \in Pages : Len(p) <= Links(s)}
      [] OTHER -> Pages

AskSite ==
    /\ pc = "sites" /\ site <= Len(Sites) /\ Len(hits) < budget
    /\ \E page \in Findable(Sites[site]) :
          /\ hits' = Take(hits, Note(<<>>, page))
          /\ offered' = Note(offered, page)
    /\ site' = site + 1
    /\ UNCHANGED <<pc, command, budget, engine, out>>

LeaveSites ==
    /\ pc = "sites" /\ (site > Len(Sites) \/ Len(hits) >= budget)
    /\ pc' = IF Len(hits) < budget THEN "engines" ELSE "done"
    /\ UNCHANGED <<command, budget, site, engine, hits, out, offered>>

\* Mutant: the engines are asked for what is still missing only.
EnoughMissing == Len(out) >= budget - Len(hits)

\* generic_search is asked for the whole budget, since some of what it finds may
\* be known from the sites.
Enough == Len(out) >= budget

AskEngine ==
    /\ pc = "engines" /\ engine <= Engines /\ (engine = 1 \/ ~Enough)
    /\ \E page \in Pages : out' = Note(out, page) /\ offered' = Note(offered, page)
    /\ engine' = engine + 1
    /\ UNCHANGED <<pc, command, budget, site, hits>>

Merge ==
    /\ pc = "engines" /\ (engine > Engines \/ (engine > 1 /\ Enough))
    /\ hits' = Cut(Take(hits, Cut(out, budget)), budget)
    /\ pc' = "done"
    /\ UNCHANGED <<command, budget, site, engine, out, offered>>

-----------------------------------------------------------------------------
(* The command. *)

\* Mutant: the list is cut before duplicates are dropped.
ParsedEarly(lines) == Note(<<>>, Cut(lines, budget))

\* parse_output: magnets that are textually different, up to the budget.
Parsed(lines) == Cut(Fill(<<>>, lines, SameText, Len(lines)), budget)

\* A command that cannot be started fails the search, one that takes too long or
\* exits with an error counts as finding nothing (or what it has printed).
RunCommand ==
    /\ pc = "command"
    /\ \/ \E lines \in Pages :
            hits' = Parsed(lines) /\ offered' = lines /\ pc' = "done"
       \/ pc' = "failed" /\ UNCHANGED <<hits, offered>>
    /\ UNCHANGED <<command, budget, site, engine, out>>

HookNext == AskSite \/ LeaveSites \/ AskEngine \/ Merge \/ RunCommand

HookSpec == HookInit /\ [][HookNext]_hookVars

-----------------------------------------------------------------------------
(* Properties. *)

\* Type invariant, with the budget kept.
HookTypeOK ==
    /\ pc \in {"sites", "engines", "command", "done", "failed"} /\ command \in BOOLEAN
    /\ budget \in 1 .. AtLeast(MaxResults, 1)
    /\ site \in 1 .. Len(Sites) + 1 /\ engine \in 1 .. Engines + 1
    /\ hits \in Seq(Magnets) /\ Len(hits) <= budget
    /\ out \in Seq(Magnets) /\ offered \in Seq(Magnets)

\* What the built-in search returns is the first distinct torrents it was offered,
\* sites before engines, up to the budget: breaking off in the middle of a page,
\* cutting the engines' list and dropping duplicates in two places lose nothing
\* that would have fitted.  And a source is left out only when the budget is full
\* without it.
FirstDistinct ==
    pc = "done" /\ ~command =>
        /\ hits = Cut(offered, budget)
        /\ Len(hits) < budget => site > Len(Sites) /\ engine > Engines

\* Of the command's output no line is lost unless an equal one is returned or the
\* budget is full.
OutputIsKept ==
    pc = "done" /\ command =>
        Len(hits) = budget \/ \A i \in DOMAIN offered : Contains(hits, offered[i])
=============================================================================
