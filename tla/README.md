# filtrx in TLA+

`filtrx` is a Go library that turns filter structs and condition trees into SQL
and lists the result page by page, by offset or by keyset (seek). It holds no
server and no threads of its own; what makes it hard is that it writes several
statements for one answer, that the table changes between them and between
pages, that the same order and the same condition are rendered in different
places and must agree, and that a filter which comes out wrong is not an error
but a different set of rows.

This directory holds TLA+ modules translated from the Go source, configurations
that model-check them with TLC, and proofs checked with TLAPS.

## The system

| Part | Source | State | Operations | What makes it correct |
|---|---|---|---|---|
| Query building | `query.go`, `mutate.go` | `Query`: source, condition, grouping, order, paging, seek, dialect, soft-delete scope, consent, deferred error | `From`, `For`, `Where`, `Cond`, `OrderBy*`, `Sort`, `GroupBy`, `Having`, `Page`, `Seek`, `On`, `SoftDelete`, `WithDeleted`, `OnlyDeleted`, `Unfiltered` | a statement run from it applies what was asked last, whatever the order of the calls |
| Condition trees | `cond.go`, `exists.go`, `fulltext.go` | none; a render pass has text, arguments and a counter | constructors, `And`, `Or`, `Build`, `buildAt` | the text means the tree; each placeholder gets its argument |
| Filter compilation | `plan.go`, `holders.go`, `opt.go` | `planCache`, shared by all goroutines | `compileFilter`, `planFor`, `plan.build` | unset fields say nothing, set ones all count, an illegal type is an error |
| SELECT and COUNT | `query.go`, `keyset.go` | none | `buildSelect`, `buildKeysetSelect`, `count` and the clauses they share | argument numbering runs on from clause to clause |
| Offset listing | `paginate.go`, `query.go` | a call: count, window, rows, total | `Paginate`, `List` | the page is the one the arguments describe, `PageInfo` fits it |
| Keyset paging | `keyset.go`, `dialect.go` | a call: cursor, rows, cursors, total; between calls the client's cursors | `Seek`, `List`, cursor encoding | no standing row is skipped, the end is the end, walking terminates |
| Relay connection | `connection.go` | none beyond the keyset result | `ListConnection` | its flags deny no page and invent none |
| Mutations | `mutate.go` | the table, through one statement | `Delete`, `Update`, `Count` | exactly the rows asked for; never all without consent |
| Dialects | `dialect.go` | none | placeholders, quoting, NULL ordering, full text | the three dialects mean the same |
| Sources and joins | `source.go` | the cached source of a filter type | marker parsing, `FROM` | a joined source is never mutated |
| Request binding | `bind.go` | the destination struct | `Bind`, `BindPage`, `BindSeek` | every condition a request states is asked, and no other; a value that does not parse is an error |
| Cursor encoding | `keyset.go` | the client's cursors | `encodeCursor`, `decodeCursor` | a cursor binds the row it was made of, or is refused |
| Errors | `errors.go` | none | `ErrCompile`, `ErrQuery` | |
| Examples | `examples/` | a database handle | an HTTP server over the library | |

How they interact: `Where` compiles a struct to a condition tree and stores it in
the `Query`; every statement starts from `effectiveCond()`, that tree with the
soft-delete scope; `Build` renders it; `List` sends a COUNT, a SELECT or both,
and in Seek mode adds the seek predicate to the tree and the order to the
statement. The only shared mutable state is the database - and, between
goroutines, the plan cache. The behaviours that are hard are listed with their
lines in `PROJECT.json` under `hazards`: concurrent writers between the two
statements of a call and between the pages of a walk, lost answers and retries,
NULLs in ordering columns, arithmetic at the ends of a table, a query reused
after a failed call, a condition that says nothing.

## The modules

```
SqlLogic ─┬─ KeysetOrder ─┬─ Keyset ──┬─ KeysetWalk ── MCKeysetWalk
          │               │           └─ Connection ─┬─ MCKeyset
          │               │                          └─ KeysetProofs
          │               ├─ Pager  (abstract; Keyset instantiates it)
          │               ├─ KeysetCases ─┬─ MCKeysetCases
          │               │               └─ KeysetCasesProofs
          │               └─ KeysetOrderProofs
          ├─ Cursors      (with KeysetOrder, in KeysetCases)
          └─ SqlTokens ─┬─ CondTrees ── Rendering ─┬─ RenderedText ── Mutations ── MutationsProofs
                        │                          ├─ Statements ─┬─ MCStatements
                        │                          │              └─ StatementsProofs
                        │                          └─ RenderingProofs (in both proofs)
                        └─ SqlText ── Conditions (with CondTrees)
                                          ├─ ConditionCases (with RenderedText) ── MCConditions
                                          └─ Filters ── Binding (with Mutations) ── MCMutations
PageRequests      (in KeysetWalk, OffsetServer and Binding)
Paginate ── OffsetList ── OffsetServer ─┬─ MCOffsetList
                                        └─ OffsetProofs
PlanCache ─┬─ MCPlanCache
           └─ PlanCacheProofs
```

`SqlLogic`, `SqlTokens` and `SqlText` are the contract with the database:
three-valued logic, where each database sorts NULL, what a comparison says, how a
text of tokens is parsed (AND before OR, parentheses, EXISTS) and how parameters are
numbered. They model no code of the repository; the generated SQL is read against
them.

**KeysetOrder** has an ordering as a sequence of terms and a key as the tuple of a
row's values. `Precedes` is what an `OrderBy` list declares, with no SQL in it.
`OrderClause` is `orderClause`, with MySQL's `ISNULL()` emulation; `KeyLT` is the
order a database makes of it. `KeysetCond`, `NullEq`, `AfterCompare` are
`keysetCond`, `nullEq`, `afterCompare`: an operand is a truth value computed by
`SqlLogic`, so the predicate is evaluated, not printed.

**Cursors** is `encodeCursor` and `decodeCursor`: a key value as the caller's struct
holds it (plain, behind a pointer, in a `driver.Valuer`), the tagged element it
becomes, what JSON makes of it (`Carried`: a NaN has no text, a string that is not
UTF-8 comes back changed), the digits `UseNumber` keeps (`Number`), and the checks of
tag, JSON type and width on the way back. A value is its place in the column's order. **KeysetCases** puts the two
together over every ordering and pair of keys.

**Keyset** is one client calling `List` in Seek mode. The variables `pc`, `seek`,
`snap`, `res` are the call: `Seek` builds the request and makes the checks that
precede any SQL, `RunSelect` is `runKeyset` up to the cursors (size+1 rows past
the cursor, reversed order for a backward page, trimming, restoring the order),
`RunCount` the COUNT of `IncludeTotal`, `Fail` an error of either, `Return` the
`PageInfo`. The SELECT may answer anything a database may
(`Answers`): an order that does not tell two rows apart leaves the choice open.
`Insert`, `Delete` and `Move` are other sessions and interleave anywhere. The
table is the set of keys of the rows that match the filter and scope, so a row
edited out of the filter is a `Delete`. `owed`, `frontier` and `pending` are
history: the rows that were there when the walk's first page was read, have not
been written since and have not been returned; and the furthest row returned.
The client may ask from either cursor it was last shown, or from the start, any
time - that includes repeating a failed call and walking back and forth. The
checks on the query's shape (no OrderBy, a relevance term, a column with no
field) are the assumption on `Orders`, not actions: they refuse the query before
anything happens. Its columns hold integers and NULL; the other types are in
`Cursors`.

**Pager** is what keyset paging promises, without SQL: look at the table at one
instant, take the window of the declared order next to the row asked from, say
whether more follow. `Keyset!P` is the refinement mapping: cursors decode to
rows, the call in flight to what was asked and got.

**Connection** is `ListConnection`: the same call, whose page is given as edges and
two flags. What it returns is a function of request and page, so it adds no state;
its properties are about the step that reads the page.

**KeysetWalk** adds the client the API is meant for (ask past `EndCursor` while
`Truncated`), with fairness. It asks by query string, through `BindSeek` and the
handler `ArticleFeed` of the examples.

**Paginate** is `Paginate` as operators over a wrapping `int`. `FetchesNothing`
is the nil paginator, `Window` what the closure captures, `Resolve` the closure.

**OffsetList** is `List` without Seek: `Panic` for the arguments `Paginate` panics on,
`PreCount`, `Select` (with the window
total read in the same statement), `Recount` for an empty page, `Fail` - which may
leave part of the rows in the caller's slice -, and writers in between. A row is
its position in the order. **OffsetServer** is the handler `listArticles` of the
examples around it: each call's arguments come from a query string.

**PageRequests** is `BindPage` and `BindSeek`: first values, `strconv` as given
functions, and what is absent. **Binding** is `Bind`: a filter struct with the fields
set that a query string has values for, under `name_op` or the bare name.

**CondTrees** has the condition trees and their constructors. Operators that bind one
value are written alike, so `=`, `<>`, `>` stand for them.

**Rendering** is the render pass, one token of text a step. `builder` is the Go builder
(text, arguments, last placeholder), `now` the tree whose `write` is called, `stack`
the groups and subqueries being written around it, each with the child it is at: the
Go call stack. `VisitLeaf`, `VisitRaw`, `VisitGroup`, `VisitExists` are the four
`write` methods up to their first child, `Join` and `Close` the rest of the loop over
the children. A pass has no end of its own: what calls it goes on when it is
`Rendered`.

**RenderedText** is such a pass beside a parser that reads
each token as it is written and keeps the operands of every parenthesis open; its
state `read` is history. `Meaning` is what each tree says of each row, tied to the
trees by `MeaningAssumption`. `PassSpec` is one pass by itself; a statement begins one
with `PassFrom` and takes its steps with `PassNext`.

**Conditions** has no code in it: `Means` is what a tree means, by recursion over it.
**ConditionCases** reads the text a pass has written as a whole, as the databases
would, and compares it with that.

**Filters** compiles a filter, given as its fields with their roles and values,
to a tree (`PlanBuild`); the parsing of tags is a `legal` flag per type.
`FilterMeans` is its meaning. `Compiled`, and `CompiledRequest` in `Binding`, are what a
`Query` sees of a filter or a request: the tree, the source, whether it is an error;
and, for the properties, what it asks for.

**PlanCache** is `compileFilter`, `planFor`, `buildPlan` and `plan.build` run by
goroutines over the cache, without values: a goroutine is a stack of frames, and the
cache's `Load` and `Store` are steps with anything in between. `Filters` says what a
plan computes, `PlanCache` which plan a call gets.

**Statements** is one `Query` through the fluent calls that build it, `Sort` with its
deferred error among them, and `List`, `Seek` and `Count` writing their statements from
it: WHERE as a pass of `Rendering`, then HAVING as a second one that starts where
the arguments end, the terms of ORDER BY, and LIMIT. Only what binds an argument is kept.

**Mutations** is one `Query` used through its fluent calls in any order, its filter
set in code, by `For`, or bound from a request, with
`Delete`, `Update` and `Count` run from it. `Call` makes the checks before any SQL
and begins the WHERE clause; `WriteWhere` is a step of its pass; `RefuseWhole` is the
guard on a text that came out empty; `Rewrite` is the second pass of an `Update`, which
numbers on from the assignments; `Delete`, `Update` and `Count` send the statement, with
the rows the database found by reading its text. A statement can fail, or run and
lose its answer. Other sessions write between all of these. The filters and requests are
constants - what each compiles to and what it asks for - which `MCMutations` computes by
`Filters` and `Binding`; `asked` is history: what the last of them asked for.

`PROJECT.json` gives the source lines of every definition.

## What is checked

| Run | What is asked | Bounds |
|---|---|---|
| `keyset` | type invariant; no standing row skipped; not Truncated means complete; the inductive invariant; `Keyset` implements `Pager`; the Relay flags deny no page and invent none | a nullable column of one value before an id of two: two rows, four keys; NULLs last ascending and first descending; MySQL; sizes 0 (refused), 1 and 2; with and without total |
| `keyset_walk` | the client's walk ends and skips nothing; in one snapshot the total covers the page | three ids, three rows, six keys; NULLs first, then the id descending; PostgreSQL; a request with a size of 1, one without; totals on, snapshot on |
| `keyset_cases` | ORDER BY, its reversal and the seek predicate agree with the declared order; a row's cursor binds the row's values; a page from it is what lies past the row, also after the order of a column or its NULLs have been turned round | every ordering of one or two terms, three dialects; a first column of each of eight types, plain, and of three behind a pointer and in a Valuer, of one to three values and NULL |
| `offset` | the page is the one described; `PageInfo` and totals fit it | up to three rows; query strings with every choice of -1, 0, 1, 2, 4 or nothing for the four numbers, with and without total, and two that do not parse; with and without a snapshot |
| `conditions` | text means tree, by a parser of the whole and by one that reads along; placeholders and arguments go together at every token; clauses bind in order | two constructor calls around eight seeds, in three dialects, on twelve rows, numbered from 0 and from 2 |
| `statements` | each argument reaches its placeholder; a query is ordered by every term asked for or refused | five conditions in WHERE and HAVING (none, silent, one argument, several, a fragment short of one), a cursor's predicate, four windows, up to three order terms, three sort parameters, three dialects |
| `mutations` | type invariant; the query says what was asked last, each filter what it asks; the rows touched are the rows asked for; no whole-table change without consent | two rows with NULL in either column; three filters, five requests, four trees, three assignments; MySQL beside the PostgreSQL a query starts with |
| `plan_cache` | a kept outcome is right; Exists types are kept first; a call gets its type's outcome; every call returns | two goroutines, seven types, four of them passed to `Where`, groups nested to four frames |
| `offset_last`, `offset_panic`, `offset_reuse`, `mutations_group` | statements of the docs that the code does not keep | as `offset` and `mutations` |

Why the bounds are enough to see something: two rows and pages of one or two give a
full page, a truncated page and an empty one in either direction, and let a writer
insert or move a row before, at and behind the cursor; the walk has a third row, so
that pages follow one another; two terms give a prefix that is equal and one that is
not, with NULL in the prefix; the numbers of `offset` fall before, at, within and
past a table of three. `plan_cache` has two goroutines because a race is between
two, and one type of each kind the compiler tells apart: with an Exists, with a
group of itself, with a group over a type that fails by itself or through its
Exists; a group has one element there, as a second would repeat the first's steps.
What the small numbers cannot show - longer orderings, larger pages and tables,
more goroutines and types - is what the proofs are for. `MaxInt` is 7 in the offset
runs and 1 in `keyset_cases`, so that the ends of an `int` are few steps away; the
offsets passed stay below it. `MaxTerms`, `MaxDepth` and `MaxHeld` bound order
terms, nested frames and the rows a reused slice holds. Deadlock is checked
everywhere but in `conditions`, where a run is one render pass and ends with it.

Every property is also run against a mutated definition - the operators marked
*Slip* in the modules, each a plausible bug in the code - and must fail there.

Fairness is assumed in two places. In `KeysetWalk`, `WF` of asking and of returning
is the client's loop and Go running a goroutine that can run. `SF` of the two
statements says that one that is retried for ever is not refused for ever; `WF` would
not do, as a failure disables it. Nothing is assumed of the writers, which may be
idle or never stop. The walk still ends because ids are finitely many and the
cursor moves strictly on. In `PlanCache`, `WF` of a goroutine's own steps is Go's
scheduler; nothing makes a goroutine start another call.

### What the docs say and the code does not do

With a run each:

- `offset_last`: a `Last` page under `Before` or `After` is not measured from the
  end of the range (`paginate.go:93` against `paginate.go:28`). `PageIsDescribed`
  says where it is.
- `offset_panic`: `BindPage` passes on arguments that `Paginate` panics on
  (`paginate.go:61-85`), while `bind.go:59-60` calls its result safe to pass straight
  to `Query.Page`.
- `offset_reuse`: a slice that already holds rows loses fetched rows when the
  page is truncated (`query.go:364`); Seek mode does it right (`keyset.go:200`).
- `mutations_group`: a group whose element type cannot be compiled is dropped
  without an error and the rest of the filter runs (`plan.go:239`).

Without a run, and left out of what the properties claim:

- a `Last` request with `Before` does not count, so `Total` is 0 (`paginate.go:94`
  against `paginate.go:7-8`);
- an `After` of the largest `int` wraps (`paginate.go:87`);
- a NULL key column scanned into a `[]byte` is encoded as empty bytes and not as
  NULL, because `toCursorElem` tests for `[]byte` before it tests for nil
  (`keyset.go:376`); under NULLS LAST the next page starts over at the first of the
  rows with NULL, and a walk through them does not end. The comment of
  `encodeCursor` names the forms of NULL it knows and a nil slice is not among them;
- a string key that is not UTF-8 and a time whose zone has seconds come back from a
  cursor changed (`keyset.go:363`, `keyset.go:375`);
- a repeated bare name binds equality with its first value, where `bind.go:22-24` says
  it binds IN;
- the size 0 that `BindSeek` leaves for an absent parameter is one `Seek` refuses
  (`bind.go:89-91`); `ArticleFeed` sets a default;
- a soft-delete scope makes the guard of `Delete` see a filter, so an all-unset
  struct deletes every live row (`mutate.go:45`; the comment of `Unfiltered` and
  `softdelete_test.go:98` differ on it);
- a raw fragment with its own `OR` is joined without parentheses (`cond.go:202`);
  `And()` of nothing leaves a dangling connective (`cond.go:168`).

## What is proved

For every value of the constants that meets the modules' assumptions: any dialect,
orderings of any length whose last term has no NULLs, any integers as values, any
page size, any finite table, any number of writes and failures, any goroutines.

`KeysetOrderProofs`, from `NullIsNoValue` alone: the declared order is a strict total
order (`PrecedesIrreflexive`, `PrecedesTransitive`, `PrecedesTotal`); ORDER BY
sorts by it in every dialect (`KeyLTDeclared`) and the reversed ORDER BY
backward (`ReverseOrderDeclared`); the seek predicate cuts by it
(`KeysetCondDeclared`). The argument goes term by term - one term's sort, its
comparison and its reversal are case analyses over direction, placement and NULL -
and then along the prefix of equal columns.

`KeysetCasesProofs`: the five properties of `keyset_cases` for any `MaxTerms`, column
types and values. `CasesInv` says that both keys are rows of the ordering; the three
orders then follow from `KeysetOrderProofs`. `CursorsBindTheirRow` is `CursorBinds`, which
rests on `ElemOf`, what one value encodes to and decodes from; `CursorsSeekPastTheirRow`
puts that row's values into `KeysetCondDeclared`, for the ordering of the next page.
`ErrorsAreNoValues` is assumed: an error is told apart from a value, as Go's second
result does.

`KeysetProofs`, from `KeysetAssumption` and the order theorems:

- `TypeCorrect`: `Spec => []TypeOK`.
- `WalkInvariant`: `Spec => []WalkInv`. `NothingSkipped` is not inductive: what a
  `Return` leaves owed was decided by an earlier `RunSelect`, and rows written in
  between must have been taken off; and what a page may skip depends on the cursor it
  started from. `WalkInv` adds `CursorsBehind` - no cursor the client or the
  request holds is ahead of the furthest row - and `PageInFlight` - the page
  waiting to be returned moves the frontier past every row it does not owe. With
  `TypeOK` it is inductive.
- `WalkSkipsNothing` (`[]NothingSkipped`) and `WalkEndsComplete`
  (`[]ExhaustedMeansAllSeen`) follow.
- `KeysetImplementsPager`: every step of `Keyset` is a step of `Pager` or a stutter.
  `RunSelect` maps to `Look`: its answer is sorted by `KeyLT` and cut by
  `KeysetCond`, which the order theorems turn into `Precedes`.
- `TotalCovers`: in one snapshot the total covers the page, by the cardinality of
  the rows of a page that has none twice.

`KeysetProofs` also has `ConnectionDeniesNoPage` and `ConnectionInventsNoPage`, from the
page being the window of the declared order next to the cursor. The flag against
the paging direction says only that there was a cursor, so it can be up when the
rows there are gone: `NoPageInvented` claims nothing of it once the row the cursor
came from is deleted or moved.

`PlanCacheProofs`: `PlanCacheTypes`, `CacheSound`, `ExistsFirst`, `RepliesSound`. The
inductive invariant says of every frame on every goroutine's stack what it has found
and of every pair of frames what the upper was called for; each of these facts about
the cache is that an entry is kept and right, and no `Store` of another goroutine
undoes that.

`OffsetProofs`: `OffsetTypes` without further assumptions, and under `Countable`
`OffsetPages`, `OffsetInfos` and `OffsetTotals`. `Countable` - numbers an `int` can hold
with one to spare - is exactly what keeps `After` from wrapping (`paginate.go:87`). The
invariant `PageInv` relates a page in flight to the table it was read from
(`Taken`), a count to the table it was taken of (`Measured`), and a reply to both
(`Replied`); under it the page is the described window by arithmetic on the cases
of `Paginate`.

`RenderingProofs` has the lemmas about the pass alone, from `RenderingAssumption`
(trees are made of trees of the set, fields and values): it is well typed
(`RenderingTypeOK`), and `Numbered(start)` - as many marks as arguments, the i-th
numbered start + i and written for the i-th argument - holds when it begins
(`PassBegins`) and is kept by every step (`WriteStep`). `Continued` puts a numbered
clause behind a statement: the whole is numbered from 1 again.

`StatementsProofs`, from `StatementsAssumption`: `StatementArguments`
(`[]ArgumentsReachTheirPlaceholders`) and `OrderAsAsked` (`[]OrderIsAsked`), for any
conditions, order terms, sort requests and limits. The first is about finished
statements only and so says nothing of the clauses on the way; `StatementOK` adds that
what is sent is numbered from 0, and that the builder of the clause being written is
numbered from the arguments sent - the start each clause was given is what a clause
before it ended at.

`MutationsProofs`, of the pass, from `ReadingAssumption` and `MeaningAssumption`:

- `PassPlaceholders`: `PassSpec => []PlaceholdersFollowArguments`, for every tree.
- `PassReadsAsTree`: `PassSpec => []TextReadsAsTree`, for trees of any depth and width
  whose parts are `Plain`. The property speaks of the end of the pass; the invariant
  `PassOK` says what the parser holds at every token. Its levels are one more than the
  stack; the level of a group has as operands exactly the meanings of the children
  already written (`StackOK`), in `ands` for an And and in `ors` but the last for an
  Or; and the top awaits an operand while a tree is to be written and a connective
  when one has been (`TopOK`). A `Close` then gives the level below the group's meaning
  as one operand, which is why a child of an And can be an Or. There is no induction
  over trees in it: the meaning of a tree is used of its children alone, as
  `MeaningAssumption` states it.

`MeaningAssumption` constrains the constant `Meaning` by the equations of SQL for each
kind of tree; `MCMeaning` is computed by them and TLC checks that it meets the
assumption. `Plain` leaves out a group of no children, a comparison with another
number of values than its operator takes, and a raw fragment that is more than one
predicate (the run reads those that are a parenthesised text by `TextMeansTree`).

And of the statements over the pass, from `MutationsAssumption` as well:

- `MutationsTypes`: `Spec => []TypeOK`, in which the table keeps its key, whatever runs.
- `MutationsSayWhatIsAsked` (`[]QuerySaysWhatIsAsked`): after any calls in any order the
  query holds the condition asked for last and nothing of the ones before, or is refused.
- `MutationsTouchWhatIsMeant` (`StatementsTouchWhatIsMeant`): the rows touched are the rows
  asked for, in every dialect, for any trees, rows, assignments and writes of others.
- `MutationsWholeTable` (`WholeTableNeedsConsent`): without a condition and a scope, no row
  is touched unless `Unfiltered` was called.

The action properties speak of the step that sends a statement, and what that step
does was settled by a pass long before. The invariant `MutationOK` carries it there:
`PassOK`, that the text so far is read as the tree so far; `StatementOK`, that this tree
is the effective condition of the query as it is now, and that its placeholders start
where the assignments end; and `ShapeOK`, about trees that say nothing. The guard of
`Delete` and `Update` looks at the text, the properties at what was asked; they agree
because a tree that says nothing (a *silence*: an empty fragment, `And()` of nothing, groups
of these) writes no text or one that no database reads, and so does one whose first part
is such a tree - a silence within the soft-delete scope. `DeadEnd` is the inductive form of
that: no operand has been read and none is written before a connective is. With the
text read as the effective condition, `FoundIsMeant` gives the rows. `SentInPlace` puts the
WHERE marks behind those of the assignments, and `SentAsMeant` gives each its value, in
PostgreSQL by number and elsewhere by place.

The last three have one hypothesis, `CompiledAsAsked`: each filter and request, by itself,
compiles to a tree that says what it asks for and is silent when it asks for nothing.
This is what `Filters` and `Binding` compute, by recursion, so it cannot be proved here;
the run `mutations` checks it, as `QuerySaysWhatIsAsked` one `Where` after the start is just
that for each filter, and `mutations_group` shows the filter that does not meet it
(`plan.go:239`). What the theorems add is everything a query can do with such filters.
Nothing is said of a condition that is neither silent nor `Plain`, as in the run.

Only model-checked:

- liveness (`WalkEnds`, `CallsReturn`), which needs ENABLED;
- `TextMeansTree` and `ClausesBindInOrder`, which are about recursive operators (`Means`,
  `Eval` and the reading of parameters): induction over trees and texts is out of the
  prover's reach. `PassReadsAsTree` and `PassPlaceholders` prove what they say of the
  `Plain` trees, by a parser that reads along; the silent trees, the fragments that are
  a parenthesised text and the parser of the whole rest on TLC;
- what `Filters` and `Binding` compile a filter or a request to (`CompiledAsAsked`), which
  is recursive too.

## What is abstracted or left out

- SQL text is a sequence of tokens; identifiers are not quoted, column and table
  names not parsed. Full-text matching and JSON operators are comparisons that bind
  one value. A subquery's correlation is the row's `kids`.
- The base64 token around a cursor's JSON, and the wire names and JSON words of
  fields, are taken as given. `Bind` is modelled for integer columns; `parseScalar`
  on other types reads one raw value as another `strconv` function does.
- `Row` scanning into fields, projections (`Select`) and contexts are left out: they
  do not change which rows come back. A context that is cancelled is a `Fail`.
- Isolation is either none between statements or one snapshot for all of them; a
  single statement is atomic.
- When others write between the two statements of a call that keeps no snapshot,
  nothing is claimed of a total from a COUNT of its own beside the page, nor of where a
  `Last` page lies: the two statements see two tables. The steps are in the models, and
  what still holds then (`InfoFitsPage`, `NothingSkipped`, the window total) is checked
  with them.
- A cursor used under another sort is covered where the columns stay
  (`CursorSeeksPastItsRow`); the code cannot see that they changed.
- A `Query` is used by one goroutine, as the docs of fluent builders assume.
- The tag parsing of `buildPlan` (operators, column names, JSON operators), the
  rendering of joins and the text of errors are not modelled: they are pure functions
  from tags to text with no state, and tests reach them. Of the examples, the
  handlers that run a fixed query or plain SQL are left out.

## Plan

1. *Done.* KeysetOrder, Keyset, Pager, KeysetWalk and their proofs; Paginate and
   OffsetList; Conditions, Filters, Statements, Mutations.
2. *Done.* Connection and PlanCache with their proofs; PageRequests, OffsetServer and
   Binding, and the examples' handlers over them; Cursors; the proofs of OffsetList
   and KeysetCases.
3. *Done.* The render pass step by step (Rendering, RenderedText), Statements over it,
   and their proofs.
4. *Done.* Mutations over the pass, with filters as constants, and the proofs of its
   properties.
5. Left: a proof that `Keyset` over cursors of any type implements `Pager` (now proved
   in two parts, `KeysetImplementsPager` for integers and NULL and `CursorsSeekPastTheirRow`
   for one page over the other types); raw fragments that are a text of their own in `Plain`; `After` at
   the largest `int` as a finding with a run of its own.
