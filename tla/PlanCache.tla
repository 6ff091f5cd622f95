------------------------------ MODULE PlanCache ------------------------------
(***************************************************************************)
(* The plan cache (plan.go): goroutines that compile filter structs, each  *)
(* with the plan of its type, made on first use and kept for good.         *)
(*                                                                         *)
(* planCache is a sync.Map, so the Load and the Store of planFor are steps *)
(* of their own and nothing is locked between them: two goroutines may     *)
(* make the plan of one type at once, each store it, and a third use it    *)
(* meanwhile.  A plan that could not be made is kept as well, as its error. *)
(* A plan is determined by its type, so the model keeps only which it is.  *)
(*                                                                         *)
(* A goroutine's calls are a stack of frames: planFor looks a type up,     *)
(* goes through its fields and stores; build goes through them again.      *)
(***************************************************************************)
EXTENDS Naturals, Sequences

CONSTANTS
    Types,      \* the struct types used as filters, or within them
    Fields,     \* the fields of each, in order
    Roots,      \* the types whose values are passed to Where
    Callers,    \* the goroutines
    MaxDepth    \* bound: the frames above which no group element is built

\* What a field is to the compiler: a marker for the table or a join, a field
\* it rejects, a group or an Exists over another type, or any other.
Kinds == {"plain", "bad", "table", "join", "group", "exists"}
Field(kind, of) == [kind |-> kind, of |-> of]

ASSUME PlanCacheAssumption ==
    /\ Fields \in [Types -> Seq([kind : Kinds, of : Types])]
    /\ Roots \subseteq Types /\ MaxDepth \in Nat

VARIABLES
    cache,      \* planCache: the outcome kept for a type, or "absent"
    stack,      \* each goroutine's frames, the last the running one
    result,     \* what planFor returned to the running frame, or "none"
    skipped,    \* history: the types of the fields left out of the condition
    reply       \* what the goroutine's last call returned

vars == <<cache, stack, result, skipped, reply>>

Frame(at, type, i, ok) == [at |-> at, type |-> type, i |-> i, ok |-> ok]
Silence == [type |-> "none", ok |-> FALSE, skipped |-> {}]

-----------------------------------------------------------------------------
(* Frames.                                                                 *)

Idle(c)  == stack[c] = << >>
Top(c)   == stack[c][Len(stack[c])]
Below(c) == SubSeq(stack[c], 1, Len(stack[c]) - 1)
Calling(t) == Frame("load", t, 1, FALSE)

\* The running frame is at the given place, and has no call to hear from.
Runs(c, at)     == ~Idle(c) /\ Top(c).at = at /\ result[c] = "none"
\* The running frame hears from the planFor it called.
Hears(c, at, r) == ~Idle(c) /\ Top(c).at = at /\ result[c] = r

Become(c, f)  == stack' = [stack EXCEPT ![c] = Append(Below(c), f)]
Push(c, f)    == stack' = [stack EXCEPT ![c] = Append(@, f)]
\* The running frame goes on to its next field and calls with a frame f.
Descend(c, f) == stack' = [stack EXCEPT
                    ![c] = Append(Append(Below(c), [Top(c) EXCEPT !.i = @ + 1]), f)]
Pop(c)        == stack' = [stack EXCEPT ![c] = Below(c)]
NextField(c)  == Become(c, [Top(c) EXCEPT !.i = @ + 1])
Stores(c, ok) == Become(c, Frame("store", Top(c).type, 1, ok))

Here(c) == Fields[Top(c).type][Top(c).i]
AtField(c, kinds) == /\ Top(c).i \in DOMAIN Fields[Top(c).type]
                     /\ Here(c).kind \in kinds
AtEnd(c) == Top(c).i \notin DOMAIN Fields[Top(c).type]
Marked(t, kind, n) == \E j \in DOMAIN Fields[t] : j < n /\ Fields[t][j].kind = kind

-----------------------------------------------------------------------------
(* compileFilter.                                                          *)

Compile(c, t) ==
    /\ Idle(c)
    /\ stack' = [stack EXCEPT ![c] = <<Frame("called", t, 1, FALSE), Calling(t)>>]
    /\ reply' = [reply EXCEPT ![c] = Silence]
    /\ UNCHANGED <<cache, result, skipped>>

\* The plan is there: its build starts, from the first field.
Built(c) ==
    /\ Hears(c, "called", "ok")
    /\ Push(c, Frame("build", Top(c).type, 1, TRUE))
    /\ result' = [result EXCEPT ![c] = "none"]
    /\ UNCHANGED <<cache, skipped, reply>>

Returns(c, ok) ==
    /\ stack' = [stack EXCEPT ![c] = << >>]
    /\ reply' = [reply EXCEPT ![c] = [type |-> Top(c).type, ok |-> ok,
                                      skipped |-> skipped[c]]]
    /\ skipped' = [skipped EXCEPT ![c] = {}]
    /\ UNCHANGED cache
\* Slip: what planFor returned is left for the next call to find.
RefuseUnread(c) ==
    /\ Hears(c, "called", "error") /\ Returns(c, FALSE)
    /\ UNCHANGED result
Refuse(c) ==
    /\ Hears(c, "called", "error") /\ Returns(c, FALSE)
    /\ result' = [result EXCEPT ![c] = "none"]
Answer(c) == Runs(c, "called") /\ Returns(c, TRUE) /\ UNCHANGED result

-----------------------------------------------------------------------------
(* planFor.                                                                *)

\* Slip: a plan is kept as soon as it is begun, for others not to make it too.
LoadPublished(c) ==
    /\ Runs(c, "load")
    /\ \/ /\ cache[Top(c).type] # "absent" /\ UNCHANGED cache
          /\ result' = [result EXCEPT ![c] = cache[Top(c).type]]
          /\ Pop(c)
       \/ /\ cache[Top(c).type] = "absent" /\ UNCHANGED result
          /\ cache' = [cache EXCEPT ![Top(c).type] = "ok"]
          /\ Become(c, Frame("fields", Top(c).type, 1, FALSE))
    /\ UNCHANGED <<skipped, reply>>
\* A hit returns what is kept, plan or error; a miss makes the plan.
Load(c) ==
    /\ Runs(c, "load")
    /\ \/ /\ cache[Top(c).type] # "absent"
          /\ result' = [result EXCEPT ![c] = cache[Top(c).type]]
          /\ Pop(c)
       \/ /\ cache[Top(c).type] = "absent" /\ UNCHANGED result
          /\ Become(c, Frame("fields", Top(c).type, 1, FALSE))
    /\ UNCHANGED <<cache, skipped, reply>>

Store(c) ==
    /\ Runs(c, "store")
    /\ LET outcome == IF Top(c).ok THEN "ok" ELSE "error"
       IN  /\ cache' = [cache EXCEPT ![Top(c).type] = outcome]
           /\ result' = [result EXCEPT ![c] = outcome]
    /\ Pop(c)
    /\ UNCHANGED <<skipped, reply>>

\* buildPlan, one field: a filter field is taken as it is, a group too, whose
\* type is compiled only when a value is built.
TakeField(c) ==
    /\ Runs(c, "fields")
    /\ \/ AtField(c, {"plain", "group", "join"})
       \/ AtField(c, {"table"}) /\ ~Marked(Top(c).type, "table", Top(c).i)
    /\ NextField(c)
    /\ UNCHANGED <<cache, result, skipped, reply>>
RejectField(c) ==
    /\ Runs(c, "fields")
    /\ \/ AtField(c, {"bad"})
       \/ AtField(c, {"table"}) /\ Marked(Top(c).type, "table", Top(c).i)
    /\ Stores(c, FALSE)
    /\ UNCHANGED <<cache, result, skipped, reply>>

\* Slip: an Exists is taken as a group is, its type left for later.
TakeExistsLazily(c) ==
    /\ Runs(c, "fields") /\ AtField(c, {"exists"})
    /\ NextField(c)
    /\ UNCHANGED <<cache, result, skipped, reply>>
\* existsStep: the type of an Exists is compiled, and kept, before its parent.
TakeExists(c) ==
    /\ Runs(c, "fields") /\ AtField(c, {"exists"})
    /\ Push(c, Calling(Here(c).of))
    /\ UNCHANGED <<cache, result, skipped, reply>>
ExistsHears(c) ==
    /\ \/ Hears(c, "fields", "ok") /\ NextField(c)
       \/ Hears(c, "fields", "error") /\ Stores(c, FALSE)
    /\ result' = [result EXCEPT ![c] = "none"]
    /\ UNCHANGED <<cache, skipped, reply>>

\* Joins need a table.
Finish(c) ==
    /\ Runs(c, "fields") /\ AtEnd(c)
    /\ Stores(c, Marked(Top(c).type, "join", Top(c).i)
                 => Marked(Top(c).type, "table", Top(c).i))
    /\ UNCHANGED <<cache, result, skipped, reply>>

-----------------------------------------------------------------------------
(* plan.build.                                                             *)

\* A field with nothing in it but values, or an Exists that is not set.
BuildField(c) ==
    /\ Runs(c, "build")
    /\ AtField(c, Kinds \ {"group"})
    /\ NextField(c)
    /\ UNCHANGED <<cache, result, skipped, reply>>

\* The plan of a group's type is asked for even when the group is empty.
BuildNested(c) ==
    /\ Runs(c, "build") /\ AtField(c, {"group", "exists"})
    /\ Push(c, Calling(Here(c).of))
    /\ UNCHANGED <<cache, result, skipped, reply>>

Depth(c) == Len(stack[c])
\* An Exists has its subquery built; a group its elements, none or one here:
\* a second would do what the first did, with every plan it needs kept by then.
NestedHearsPlan(c) ==
    /\ Hears(c, "build", "ok")
    /\ \/ Descend(c, Frame("build", Here(c).of, 1, TRUE))
          /\ (Here(c).kind = "group" => Depth(c) <= MaxDepth)
       \/ Here(c).kind = "group" /\ NextField(c)
    /\ result' = [result EXCEPT ![c] = "none"]
    /\ UNCHANGED <<cache, skipped, reply>>
\* Slip: a plan that failed is asked for again.
NestedRetried(c) ==
    /\ Hears(c, "build", "error")
    /\ result' = [result EXCEPT ![c] = "none"]
    /\ UNCHANGED <<cache, stack, skipped, reply>>
\* A type with no plan is passed over, and its field adds no condition.
NestedHearsError(c) ==
    /\ Hears(c, "build", "error")
    /\ NextField(c)
    /\ skipped' = [skipped EXCEPT ![c] = @ \cup {Here(c).of}]
    /\ result' = [result EXCEPT ![c] = "none"]
    /\ UNCHANGED <<cache, reply>>

BuildEnds(c) ==
    /\ Runs(c, "build") /\ AtEnd(c)
    /\ Pop(c)
    /\ UNCHANGED <<cache, result, skipped, reply>>

-----------------------------------------------------------------------------
Init ==
    /\ cache = [t \in Types |-> "absent"]
    /\ stack = [c \in Callers |-> << >>]
    /\ result = [c \in Callers |-> "none"]
    /\ skipped = [c \in Callers |-> {}]
    /\ reply = [c \in Callers |-> Silence]

Planning(c) == \/ Load(c) \/ Store(c) \/ TakeField(c) \/ RejectField(c)
               \/ TakeExists(c) \/ ExistsHears(c) \/ Finish(c)
Building(c) == \/ Built(c) \/ Refuse(c) \/ Answer(c) \/ BuildField(c)
               \/ BuildNested(c) \/ NestedHearsPlan(c) \/ NestedHearsError(c)
               \/ BuildEnds(c)
Goroutine(c) == Planning(c) \/ Building(c)

Next == \E c \in Callers : Goroutine(c) \/ \E t \in Roots : Compile(c, t)

Spec == Init /\ [][Next]_vars

\* A goroutine that can run is run, in the end; none has to make a call.
FairSpec == Spec /\ \A c \in Callers : WF_vars(Goroutine(c))

-----------------------------------------------------------------------------
(* Properties.                                                             *)

\* A type the compiler accepts: no field it rejects, one table at most and one
\* if there are joins, and every Exists over such a type.
AloneLegal(t) ==
    /\ \A i \in DOMAIN Fields[t] : Fields[t][i].kind # "bad"
    /\ \A i, j \in DOMAIN Fields[t] :
          Fields[t][i].kind = "table" /\ Fields[t][j].kind = "table" => i = j
    /\ (\E i \in DOMAIN Fields[t] : Fields[t][i].kind = "join")
          => \E i \in DOMAIN Fields[t] : Fields[t][i].kind = "table"
Nested(t, kind) == {Fields[t][i].of : i \in {i \in DOMAIN Fields[t] :
                                                Fields[t][i].kind = kind}}
Compiles(S) == \A t \in S : AloneLegal(t) /\ Nested(t, "exists") \subseteq S
Legal == UNION {IF Compiles(S) THEN S ELSE {} : S \in SUBSET Types}

Frames == [at : {"called", "load", "fields", "store", "build"}, type : Types,
           i : Nat \ {0}, ok : BOOLEAN]
\* Types; a goroutine between calls has nothing of the last one left over.
TypeOK ==
    /\ cache \in [Types -> {"absent", "ok", "error"}]
    /\ stack \in [Callers -> Seq(Frames)]
    /\ result \in [Callers -> {"none", "ok", "error"}]
    /\ skipped \in [Callers -> SUBSET Types]
    /\ reply \in [Callers -> [type : Types \cup {"none"}, ok : BOOLEAN,
                              skipped : SUBSET Types]]
    /\ \A c \in Callers : Idle(c) => result[c] = "none"

\* What is kept for a type is right, whichever goroutine stored it, how many
\* made it at once, and whatever each of them read on the way: a plan for a
\* type that compiles, an error for one that does not (planFor).
CacheIsSound ==
    \A t \in Types : /\ cache[t] = "ok" => t \in Legal
                     /\ cache[t] = "error" => t \notin Legal

\* No plan is kept before the plans of its Exists types are, so a build, in any
\* goroutine, finds them ("validated at plan time", plan.go): an Exists that is
\* set is in the condition.
ExistsKeptFirst ==
    \A t \in Types : cache[t] = "ok" =>
        \A u \in Nested(t, "exists") : cache[u] = "ok"

\* A call returns an error exactly when the type is not one that compiles, and
\* leaves out of the condition only fields over such types, whether it is the
\* first to compile the type, races with another or finds it kept.
RepliesFit ==
    \A c \in Callers : reply[c] # Silence =>
        /\ reply[c].ok <=> reply[c].type \in Legal
        /\ reply[c].skipped \cap Legal = {}

\* Every call returns: no goroutine waits on another, and a type with a group
\* of itself is compiled once.
CallsReturn == \A c \in Callers : ~Idle(c) ~> Idle(c)
=============================================================================
