--------------------------- MODULE ArtifactPages ---------------------------
(***************************************************************************)
(* Listings of the index while scans and dedup go on: the pages of         *)
(* /metadata and of the searches of the web interface, cut out of a query  *)
(* by offset and limit and asked for one after the other; the search       *)
(* grouped by build-id; and the browse tree, made of two queries.          *)
(* An artifact is a row of table artifacts, named by its primary key       *)
(* (build_id, type). Rows are inserted and updated, never deleted.         *)
(* Readers change nothing, so one reader at a time is enough.              *)
(***************************************************************************)
EXTENDS Integers, FiniteSets

CONSTANTS
  Artifacts,   \* the primary keys
  KeyRank,     \* [Artifacts -> Nat], their rank by (build_id, type)
  BuildOf,     \* [Artifacts -> Nat], the rank of the build_id
  TypeRank,    \* [Artifacts -> {0, 1}], the rank of the type: debuginfo or executable
  Plain,       \* the executables that are not named *.debug
  NoCommit,    \* the artifacts without a commit, while dedup_files knows theirs
  Paths,       \* ranks of the paths a file may have
  NoPath,      \* the path of an artifact that is not in the table
  PageLimits,  \* the limits clients ask for
  RawCap,      \* the most rows search_buildid_for_ui returns
  MaxMoves     \* bound: how often a row gets another path, or dedup_files loses one

ASSUME PagesAssumption ==
  /\ IsFiniteSet(Artifacts)
  /\ KeyRank \in [Artifacts -> Nat]
  /\ \A a, b \in Artifacts : KeyRank[a] = KeyRank[b] => a = b
  /\ BuildOf \in [Artifacts -> Nat] /\ TypeRank \in [Artifacts -> {0, 1}]
  /\ \A a, b \in Artifacts : BuildOf[a] = BuildOf[b] /\ TypeRank[a] = TypeRank[b] => a = b
  /\ Paths \subseteq Nat /\ NoPath \notin Paths
  /\ PageLimits \subseteq Nat \ {0}
  /\ RawCap \in Nat \ {0} /\ MaxMoves \in Nat

VARIABLES
  place,   \* artifacts.file_path
  packed,  \* the paths with a row in dedup_files that is not in error
  moves,   \* what has happened of MaxMoves
  page,    \* the client that pages through a search
  tree,    \* the request for the browse tree
  groups   \* the last answer of the search grouped by build-id

tableVars == <<place, packed, moves>>
pagesVars == <<place, packed, moves, page, tree, groups>>

Present == {a \in Artifacts : place[a] # NoPath}

\* A client: the key of its search, what it looks for, and how far it is. The rest is
\* history: what it has been shown, the rows that were there when it began (without those
\* that moved, if it searches by path), and whether rows moved or shared path and type.
Page == [step : {"idle", "reading", "done"}, key : {"buildid", "glob", "path"},
         ids : SUBSET Artifacts, paths : SUBSET Paths, limit : PageLimits \cup {0},
         offset : Nat, seen : SUBSET Artifacts, standing : SUBSET Artifacts,
         disturbed : BOOLEAN]
NoPage == [step |-> "idle", key |-> "buildid", ids |-> {}, paths |-> {}, limit |-> 0,
           offset |-> 0, seen |-> {}, standing |-> {}, disturbed |-> FALSE]

\* A browse request; a query matches by path, or by commit.
Tree == [step : {"idle", "dedup", "done"}, paths : SUBSET Paths, commit : BOOLEAN,
         indexed : SUBSET Paths, skip : SUBSET Paths, found : SUBSET Paths,
         standing : SUBSET Paths]
NoTree == [step |-> "idle", paths |-> {}, commit |-> FALSE, indexed |-> {}, skip |-> {},
           found |-> {}, standing |-> {}]

\* The builds an answer of the grouped search shows without all their rows.
NoGroups == [limit |-> 0, shown |-> {}, torn |-> {}]

PagesInit ==
  /\ place = [a \in Artifacts |-> NoPath]
  /\ packed = {} /\ moves = 0
  /\ page = NoPage /\ tree = NoTree /\ groups = NoGroups

Quiet == page.step = "idle" /\ tree.step = "idle" /\ groups = NoGroups

------------------------------------------------------------------------------
\* Cutting a page out of an ordered list

Least(m, n) == IF m <= n THEN m ELSE n

\* ORDER BY build_id, type is total; ORDER BY file_path, type leaves rows that share both
\* in any order, which may differ from one query to the next.
ByKey(a, b) == KeyRank[a] < KeyRank[b]
ByPath(a, b) == place[a] < place[b] \/ (place[a] = place[b] /\ TypeRank[a] < TypeRank[b])

\* Mutant: /metadata sorted as the other searches are.
BeforeByPath(key, a, b) == ByPath(a, b)

Before(key, a, b) == IF key = "path" THEN ByPath(a, b) ELSE ByKey(a, b)

\* S may come first in the list of the rows M.
Heads(key, S, M) == \A a \in S, b \in M \ S : ~Before(key, b, a)

\* The rows before offset, and then at most limit rows.
IsPage(key, M, offset, limit, D, S) ==
  /\ D \subseteq M /\ S \subseteq M \ D
  /\ Cardinality(D) = Least(offset, Cardinality(M))
  /\ Cardinality(S) = Least(limit, Cardinality(M) - Cardinality(D))
  /\ Heads(key, D, M) /\ Heads(key, D \cup S, M)

------------------------------------------------------------------------------
\* Paging: search_metadata, list_artifact_records_page, search_path_for_ui,
\* search_name_for_ui

Matches == {a \in Present : IF page.key = "buildid" THEN a \in page.ids
                                                    ELSE place[a] \in page.paths}

StartPages(key, ids, paths, l) ==
  /\ Quiet
  /\ key = "buildid" => paths = {}
  /\ key # "buildid" => ids = {}
  /\ page' = [NoPage EXCEPT !.step = "reading", !.key = key, !.ids = ids, !.paths = paths,
                !.limit = l,
                !.standing = {a \in Present : a \in ids \/ place[a] \in paths}]
  /\ UNCHANGED <<tableVars, tree, groups>>

Ties == \E a, b \in Matches : a # b /\ place[a] = place[b] /\ TypeRank[a] = TypeRank[b]

\* Mutant: the row that is fetched to see whether more follow is counted as shown.
FollowingFetched(S) ==
  page.offset + Least(Cardinality(S) + 1, Cardinality(Matches) - page.offset)

Following(S) == page.offset + Cardinality(S)

\* One request; the client asks again with next_offset until it is told complete. A
\* request that times out (status 504) leaves the client where it was.
NextPage(D, S) ==
  /\ page.step = "reading"
  /\ IsPage(page.key, Matches, page.offset, page.limit, D, S)
  /\ page' = [page EXCEPT !.seen = @ \cup S, !.offset = Following(S),
                !.step = IF Following(S) >= Cardinality(Matches) THEN "done" ELSE "reading",
                !.disturbed = @ \/ (page.key = "path" /\ Ties)]
  /\ UNCHANGED <<tableVars, tree, groups>>

EndPages ==
  /\ page.step = "done"
  /\ page' = NoPage
  /\ UNCHANGED <<tableVars, tree, groups>>

------------------------------------------------------------------------------
\* search_buildid_grouped: rows by build-id, grouped, at most limit groups

\* Mutant: as many rows are fetched as there are groups to show.
RawLimitOfGroups(l) == Least(l, RawCap)

RawLimit(l) == Least(4 * l, RawCap)

\* S may come first in the list of the rows M sorted by build-id alone.
HeadsByBuild(S, M) == \A a \in S, b \in M \ S : BuildOf[a] <= BuildOf[b]

FirstGroups(S, l) ==
  {a \in S : Cardinality({BuildOf[b] : b \in {c \in S : BuildOf[c] < BuildOf[a]}}) < l}

SearchGrouped(ids, l, S) ==
  LET M == Present \cap ids
      shown == FirstGroups(S, l)
  IN
  /\ Quiet
  /\ S \subseteq M
  /\ Cardinality(S) = Least(RawLimit(l), Cardinality(M))
  /\ HeadsByBuild(S, M)
  /\ groups' = [limit |-> l, shown |-> shown,
                torn |-> {a \in shown : \E b \in M \ shown : BuildOf[b] = BuildOf[a]}]
  /\ UNCHANGED <<tableVars, page, tree>>

EndGrouped ==
  /\ groups # NoGroups
  /\ groups' = NoGroups
  /\ UNCHANGED <<tableVars, page, tree>>

------------------------------------------------------------------------------
\* browse_files_for_ui: the artifacts, then the files dedup knows and the index does not

TreeMatches(t, p, withCommit) == p \in t.paths \/ (t.commit /\ withCommit)

Listed(t) == {a \in Present \ Plain : TreeMatches(t, place[a], a \notin NoCommit)}

\* Mutant: a path is taken for listed before its artifact is matched with the query.
SkippedUnmatched(t) == {place[a] : a \in Present \ Plain}

Skipped(t) == {place[a] : a \in Listed(t)}

StartTree(paths, commit) ==
  LET t == [NoTree EXCEPT !.paths = paths, !.commit = commit] IN
  /\ Quiet
  /\ tree' = [t EXCEPT !.step = "dedup",
                !.indexed = {place[a] : a \in Listed(t)},
                !.skip = Skipped(t),
                !.standing = {p \in packed : TreeMatches(t, p, TRUE)}]
  /\ UNCHANGED <<tableVars, page, groups>>

ReadPacked ==
  /\ tree.step = "dedup"
  /\ tree' = [tree EXCEPT !.step = "done",
                !.found = {p \in packed \ tree.skip : TreeMatches(tree, p, TRUE)}]
  /\ UNCHANGED <<tableVars, page, groups>>

EndTree ==
  /\ tree.step = "done"
  /\ tree' = NoTree
  /\ UNCHANGED <<tableVars, page, groups>>

------------------------------------------------------------------------------
\* What scans and dedup do to the tables meanwhile

InsertArtifact(a, p) ==
  /\ place[a] = NoPath
  /\ place' = [place EXCEPT ![a] = p]
  /\ UNCHANGED <<packed, moves, page, tree, groups>>

\* upsert_artifact: a copy that is at least as new takes the row to its path.
MoveArtifact(a, p) ==
  /\ place[a] \notin {NoPath, p}
  /\ moves < MaxMoves
  /\ moves' = moves + 1
  /\ place' = [place EXCEPT ![a] = p]
  /\ page' = IF page.step = "reading"
               THEN [page EXCEPT !.disturbed = TRUE,
                       !.standing = IF page.key = "buildid" THEN @ ELSE @ \ {a}]
               ELSE page
  /\ UNCHANGED <<packed, tree, groups>>

\* upsert_dedup_file.
AddPacked(p) ==
  /\ p \notin packed
  /\ packed' = packed \cup {p}
  /\ UNCHANGED <<place, moves, page, tree, groups>>

\* The row is marked with an error, or a rollback takes it away.
DropPacked(p) ==
  /\ p \in packed
  /\ moves < MaxMoves
  /\ moves' = moves + 1
  /\ packed' = packed \ {p}
  /\ tree' = IF tree.step = "dedup" THEN [tree EXCEPT !.standing = @ \ {p}] ELSE tree
  /\ UNCHANGED <<place, page, groups>>

TableStep ==
  \/ \E a \in Artifacts, p \in Paths : InsertArtifact(a, p) \/ MoveArtifact(a, p)
  \/ \E p \in Paths : AddPacked(p) \/ DropPacked(p)

ReaderStep ==
  \/ \E key \in {"buildid", "glob", "path"}, l \in PageLimits :
       \E ids \in SUBSET Artifacts, paths \in SUBSET Paths : StartPages(key, ids, paths, l)
  \/ \E D \in SUBSET Artifacts : \E S \in SUBSET (Artifacts \ D) : NextPage(D, S)
  \/ \E l \in PageLimits : \E ids, S \in SUBSET Artifacts : SearchGrouped(ids, l, S)
  \/ \E paths \in SUBSET Paths, commit \in BOOLEAN : StartTree(paths, commit)
  \/ EndPages \/ EndGrouped \/ ReadPacked \/ EndTree

PagesNext == TableStep \/ ReaderStep

PagesSpec == PagesInit /\ [][PagesNext]_pagesVars

------------------------------------------------------------------------------
\* Properties

\* Every variable has its type (the rows, and what a client is told in an answer).
PagesTypeOK ==
  /\ place \in [Artifacts -> Paths \cup {NoPath}]
  /\ packed \in SUBSET Paths
  /\ moves \in 0..MaxMoves
  /\ page \in Page
  /\ tree \in Tree
  /\ groups \in [limit : PageLimits \cup {0}, shown : SUBSET Artifacts, torn : SUBSET Artifacts]

\* A client that follows next_offset of /metadata?key=buildid to the end has seen every
\* matching row that was there when it began, whatever scans insert or move meanwhile:
\* the rows are sorted by a key that does not change (search_metadata).
BuildidPagesAll ==
  page.step = "done" /\ page.key = "buildid" => page.standing \subseteq page.seen

\* The searches by path and name can lose a row that did not move only when another row
\* moved while the client was paging, or when rows share their path and their type.
MissNeedsMove ==
  page.step = "done" /\ ~page.disturbed => page.standing \subseteq page.seen

\* The browse tree shows every file that dedup knew all the time and the query matches,
\* although artifacts and dedup files come from two queries (browse_files_for_ui).
TreeShowsAll == tree.step = "done" => tree.standing \subseteq tree.indexed \cup tree.found

\* A build-id that the grouped search shows is shown with its executable and its debuginfo,
\* as long as the cap on rows leaves room for both of each group asked for.
GroupsAreWhole == 2 * groups.limit <= RawCap => groups.torn = {}
=============================================================================
