--------------------------- MODULE PlanCacheProofs ---------------------------
(***************************************************************************)
(* What PlanCache's runs check on a small set of types, proved for any     *)
(* types, fields and goroutines.                                           *)
(*                                                                         *)
(* The inductive invariant says of each goroutine's stack what its frames  *)
(* have found so far and what each waits for; every such fact about the    *)
(* cache is that an entry is kept, and a Store never changes a kept entry, *)
(* because the one it writes is right and the one it finds was.            *)
(***************************************************************************)
EXTENDS PlanCache, SequenceTheorems, TLAPS

\* What a frame that waits for planFor has called it for.
Wants(f, t) ==
    \/ f.at = "called" /\ t = f.type
    \/ /\ f.at = "fields" /\ f.i \in DOMAIN Fields[f.type]
       /\ Fields[f.type][f.i].kind = "exists" /\ t = Fields[f.type][f.i].of
    \/ /\ f.at = "build" /\ f.i \in DOMAIN Fields[f.type]
       /\ t = Fields[f.type][f.i].of

\* The fields before the n-th are legal so far, those that are Exists kept in C.
PassedBefore(t, n, C) ==
    \A j \in DOMAIN Fields[t] : j < n =>
        /\ Fields[t][j].kind # "bad"
        /\ Fields[t][j].kind = "exists" => C[Fields[t][j].of] = "ok"
        /\ \A k \in DOMAIN Fields[t] :
              k < n /\ Fields[t][j].kind = "table" /\ Fields[t][k].kind = "table"
              => j = k
Passed(t, C) == AloneLegal(t) /\ \A u \in Nested(t, "exists") : C[u] = "ok"

FrameFits(f, C) ==
    /\ f.at = "fields" => PassedBefore(f.type, f.i, C)
    /\ f.at = "store" /\ f.ok => Passed(f.type, C)
    /\ f.at = "store" /\ ~f.ok => f.type \notin Legal

\* A frame g and the frame f it was called from.
PairFits(f, g, C) ==
    /\ g.at # "called"
    /\ g.at \in {"load", "fields", "store"} => Wants(f, g.type)
    /\ g.at = "build" /\ f.at = "called" => C[f.type] = "ok"

TopFits(f, C, r) ==
    /\ r = "none" /\ f.at = "called" => C[f.type] = "ok"
    /\ r # "none" => \E t \in Types : Wants(f, t) /\ C[t] = r

StackFits(s, C, r) ==
    IF s = << >> THEN r = "none"
    ELSE /\ s[1].at = "called"
         /\ \A j \in 1..Len(s) : FrameFits(s[j], C)
         /\ \A j \in 2..Len(s) : PairFits(s[j - 1], s[j], C)
         /\ TopFits(s[Len(s)], C, r)

\* The entries kept are right, and whole down to their Exists types.
CacheFits(C) == \A t \in Types : /\ C[t] = "ok" => Passed(t, C)
                                 /\ C[t] = "error" => t \notin Legal

Outcomes == {"absent", "ok", "error"}
Results  == {"none", "ok", "error"}

Inv ==
    /\ TypeOK
    /\ CacheFits(cache)
    /\ \A c \in Callers : StackFits(stack[c], cache, result[c])
    /\ \A c \in Callers : skipped[c] \cap Legal = {}
    /\ RepliesFit

-----------------------------------------------------------------------------
(* Sequences, and the types of the fields.                                 *)

LEMMA ElementIn ==
    ASSUME NEW S, NEW s \in Seq(S), NEW j \in DOMAIN s
    PROVE  s[j] \in S /\ j \in Nat /\ j >= 1
OBVIOUS

\* A non-empty sequence without its last element.
LEMMA Front ==
    ASSUME NEW S, NEW s \in Seq(S), Len(s) > 0
    PROVE  /\ SubSeq(s, 1, Len(s) - 1) \in Seq(S)
           /\ Len(SubSeq(s, 1, Len(s) - 1)) = Len(s) - 1
           /\ \A j \in 1..Len(s) - 1 : SubSeq(s, 1, Len(s) - 1)[j] = s[j]
<1> DEFINE n == Len(s) - 1
           b == SubSeq(s, 1, n)
<1>1. n \in Nat /\ \A j \in 1..n : s[j] \in S
  OBVIOUS
<1> HIDE DEF n
<1>2. /\ b \in Seq(S)
      /\ Len(b) = IF 1 <= n THEN n - 1 + 1 ELSE 0
      /\ \A j \in 1..n - 1 + 1 : b[j] = s[1 + j - 1]
  BY <1>1, SubSeqProperties
<1> HIDE DEF b
<1>3. Len(b) = n /\ \A j \in 1..n : b[j] = s[j]
  BY <1>1, <1>2
<1> QED
  BY <1>2, <1>3 DEF n, b

\* A field is over a type, and is of a kind.
LEMMA FieldTypes ==
    ASSUME NEW t \in Types, NEW j \in DOMAIN Fields[t]
    PROVE  /\ Fields[t][j].of \in Types /\ Fields[t][j].kind \in Kinds
           /\ j \in Nat /\ j >= 1
<1>1. Fields[t] \in Seq([kind : Kinds, of : Types])
  BY PlanCacheAssumption
<1>2. Fields[t][j] \in [kind : Kinds, of : Types] /\ j \in Nat /\ j >= 1
  BY <1>1, ElementIn
<1> QED
  BY <1>2

LEMMA NestedTypes ==
    ASSUME NEW t \in Types, NEW kind
    PROVE  Nested(t, kind) \subseteq Types
BY FieldTypes DEF Nested

-----------------------------------------------------------------------------
(* Legal types.                                                            *)

\* A type with a field over a type that is not accepted is not accepted.
LEMMA LegalStep ==
    ASSUME NEW t \in Legal
    PROVE  AloneLegal(t) /\ Nested(t, "exists") \subseteq Legal
<1>1. PICK S \in SUBSET Types : Compiles(S) /\ t \in S
  BY DEF Legal
<1>2. S \subseteq Legal
  BY <1>1 DEF Legal
<1> QED
  BY <1>1, <1>2 DEF Compiles

\* The types kept with a plan are accepted ones: they support each other.
LEMMA KeptIsLegal ==
    ASSUME NEW C, CacheFits(C), NEW t \in Types, Passed(t, C)
    PROVE  t \in Legal
<1> DEFINE S == {u \in Types : C[u] = "ok"} \cup {t}
<1>1. ASSUME NEW u \in S
      PROVE  AloneLegal(u) /\ Nested(u, "exists") \subseteq S
  <2>1. Passed(u, C)
    BY <1>1 DEF CacheFits
  <2>2. u \in Types
    BY <1>1
  <2>3. Nested(u, "exists") \subseteq Types
    BY <2>2, NestedTypes
  <2> QED
    BY <2>1, <2>3 DEF Passed
<1>2. Compiles(S)
  BY <1>1 DEF Compiles
<1>3. S \in SUBSET Types
  OBVIOUS
<1> QED
  BY <1>2, <1>3 DEF Legal

\* Whatever keeps the entries of C keeps what the stacks know of it.
LEMMA KeepsFit ==
    ASSUME NEW C, NEW D, NEW s \in Seq(Frames), NEW r \in Results,
           \A t \in Types : C[t] \in {"ok", "error"} => D[t] = C[t],
           StackFits(s, C, r)
    PROVE  StackFits(s, D, r)
<1>1. CASE s = << >>
  BY <1>1 DEF StackFits
<1>2. CASE s # << >>
  <2>1. \A j \in 1..Len(s) : s[j] \in Frames
    OBVIOUS
  <2>2. ASSUME NEW t \in Types, NEW j \in DOMAIN Fields[t]
        PROVE  Fields[t][j].of \in Types
    BY <2>2, FieldTypes
  <2>3. ASSUME NEW t \in Types, Passed(t, C)
        PROVE  Passed(t, D)
    <3>1. Nested(t, "exists") \subseteq Types
      BY NestedTypes
    <3> QED
      BY <2>3, <3>1 DEF Passed
  <2>4. ASSUME NEW f \in Frames, FrameFits(f, C)
        PROVE  FrameFits(f, D)
    <3>1. f.type \in Types
      BY DEF Frames
    <3> QED
      BY <2>2, <2>3, <2>4, <3>1 DEF FrameFits, PassedBefore
  <2>5. ASSUME NEW f \in Frames, NEW g \in Frames, PairFits(f, g, C)
        PROVE  PairFits(f, g, D)
    BY <2>5 DEF PairFits, Frames
  <2>6. ASSUME NEW f \in Frames, TopFits(f, C, r)
        PROVE  TopFits(f, D, r)
    BY <2>6 DEF TopFits, Frames, Results
  <2>7. Len(s) \in 1..Len(s) /\ \A j \in 2..Len(s) : j - 1 \in 1..Len(s)
    BY <1>2
  <2> QED
    BY <1>2, <2>1, <2>4, <2>5, <2>6, <2>7 DEF StackFits
<1> QED
  BY <1>1, <1>2

-----------------------------------------------------------------------------
(* Steps of a stack.                                                       *)

\* The top frame replaced.
LEMMA BecomeFits ==
    ASSUME NEW C, NEW s \in Seq(Frames), s # << >>, NEW r, NEW q,
           StackFits(s, C, r), NEW f \in Frames,
           FrameFits(f, C), TopFits(f, C, q),
           ~(Len(s) > 1) => f.at = "called",
           Len(s) > 1 => PairFits(s[Len(s) - 1], f, C)
    PROVE  LET w == Append(SubSeq(s, 1, Len(s) - 1), f)
           IN  /\ w \in Seq(Frames) /\ w # << >> /\ Len(w) = Len(s)
               /\ w[Len(w)] = f /\ StackFits(w, C, q)
<1> DEFINE b == SubSeq(s, 1, Len(s) - 1)
           w == Append(b, f)
<1>1. Len(s) \in Nat \ {0}
  OBVIOUS
<1>2. b \in Seq(Frames) /\ Len(b) = Len(s) - 1 /\ \A j \in 1..Len(s) - 1 : b[j] = s[j]
  BY <1>1, Front
<1>3. w \in Seq(Frames) /\ Len(w) = Len(s) /\ w[Len(s)] = f
      /\ \A j \in 1..Len(s) - 1 : w[j] = s[j]
  BY <1>1, <1>2
<1>4. w # << >>
  BY <1>1, <1>3
<1> HIDE DEF w
<1>5. w[1].at = "called"
  BY <1>1, <1>3 DEF StackFits
<1>6. \A j \in 1..Len(w) : FrameFits(w[j], C)
  BY <1>1, <1>3 DEF StackFits
<1>7. ASSUME NEW j \in 2..Len(w)
      PROVE  PairFits(w[j - 1], w[j], C)
  <2>1. CASE j <= Len(s) - 1
    BY <1>1, <1>3, <2>1 DEF StackFits
  <2>2. CASE ~(j <= Len(s) - 1)
    <3>1. Len(s) > 1 /\ j = Len(s)
      BY <1>1, <1>3, <2>2
    <3>2. w[j - 1] = s[Len(s) - 1] /\ w[j] = f
      BY <1>1, <1>3, <3>1
    <3> QED
      BY <3>1, <3>2
  <2> QED
    BY <2>1, <2>2
<1>8. StackFits(w, C, q)
  BY <1>3, <1>4, <1>5, <1>6, <1>7 DEF StackFits
<1> QED
  BY <1>3, <1>4, <1>8 DEF w

\* A frame called.
LEMMA PushFits ==
    ASSUME NEW C, NEW s \in Seq(Frames), s # << >>, NEW r, NEW q,
           StackFits(s, C, r), NEW f \in Frames,
           FrameFits(f, C), TopFits(f, C, q), PairFits(s[Len(s)], f, C)
    PROVE  Append(s, f) \in Seq(Frames) /\ StackFits(Append(s, f), C, q)
<1> DEFINE w == Append(s, f)
<1>1. Len(s) \in Nat \ {0}
  OBVIOUS
<1>2. w \in Seq(Frames) /\ Len(w) = Len(s) + 1 /\ w[Len(s) + 1] = f
      /\ \A j \in 1..Len(s) : w[j] = s[j]
  BY <1>1
<1>3. w # << >>
  BY <1>1, <1>2
<1> HIDE DEF w
<1>4. w[1].at = "called"
  BY <1>1, <1>2 DEF StackFits
<1>5. \A j \in 1..Len(w) : FrameFits(w[j], C)
  BY <1>1, <1>2 DEF StackFits
<1>6. \A j \in 2..Len(w) : PairFits(w[j - 1], w[j], C)
  BY <1>1, <1>2 DEF StackFits
<1>7. StackFits(w, C, q)
  BY <1>2, <1>3, <1>4, <1>5, <1>6 DEF StackFits
<1> QED
  BY <1>2, <1>7 DEF w

\* A frame that returns.
LEMMA PopFits ==
    ASSUME NEW C, NEW s \in Seq(Frames), Len(s) > 1, NEW r, NEW q,
           StackFits(s, C, r), TopFits(s[Len(s) - 1], C, q)
    PROVE  LET w == SubSeq(s, 1, Len(s) - 1)
           IN  w \in Seq(Frames) /\ StackFits(w, C, q)
<1> DEFINE w == SubSeq(s, 1, Len(s) - 1)
<1>1. Len(s) \in Nat /\ s # << >>
  OBVIOUS
<1>2. w \in Seq(Frames) /\ Len(w) = Len(s) - 1 /\ \A j \in 1..Len(s) - 1 : w[j] = s[j]
  BY <1>1, Front
<1> HIDE DEF w
<1>3. w # << >>
  BY <1>1, <1>2, Len(s) > 1
<1>4. StackFits(w, C, q)
  BY <1>1, <1>2, <1>3 DEF StackFits
<1> QED
  BY <1>2, <1>4 DEF w
-----------------------------------------------------------------------------
(* The invariant.                                                          *)

THEOREM InitInv == Init => Inv
<1> SUFFICES ASSUME Init PROVE Inv
  OBVIOUS
<1>1. TypeOK
  BY DEF Init, TypeOK, Idle, Silence
<1>2. CacheFits(cache)
  BY DEF Init, CacheFits
<1>3. \A c \in Callers : StackFits(stack[c], cache, result[c])
  BY DEF Init, StackFits
<1>4. RepliesFit
  BY DEF Init, RepliesFit
<1> QED
  BY <1>1, <1>2, <1>3, <1>4 DEF Inv, Init

\* What the invariant says of the running frame.
LEMMA TopFacts ==
    ASSUME Inv, NEW c \in Callers, ~Idle(c)
    PROVE  /\ stack[c] \in Seq(Frames) /\ stack[c] # << >>
           /\ result[c] \in Results
           /\ Top(c) \in Frames
           /\ StackFits(stack[c], cache, result[c])
           /\ FrameFits(Top(c), cache) /\ TopFits(Top(c), cache, result[c])
           /\ Len(stack[c]) > 1 <=> Top(c).at # "called"
           /\ Len(stack[c]) > 1 =>
                 /\ stack[c][Len(stack[c]) - 1] \in Frames
                 /\ PairFits(stack[c][Len(stack[c]) - 1], Top(c), cache)
<1>1. stack[c] \in Seq(Frames) /\ result[c] \in Results
  BY DEF Inv, TypeOK, Results
<1>2. stack[c] # << >> /\ Len(stack[c]) \in Nat /\ Len(stack[c]) >= 1
  BY <1>1 DEF Idle
<1>3. StackFits(stack[c], cache, result[c])
  BY DEF Inv
<1>4. Top(c) \in Frames
  BY <1>1, <1>2 DEF Top
<1>5. FrameFits(Top(c), cache) /\ TopFits(Top(c), cache, result[c])
  BY <1>2, <1>3 DEF StackFits, Top
<1>6. Len(stack[c]) > 1 =>
          /\ stack[c][Len(stack[c]) - 1] \in Frames
          /\ PairFits(stack[c][Len(stack[c]) - 1], Top(c), cache)
  BY <1>1, <1>2, <1>3 DEF StackFits, Top
<1>7. Len(stack[c]) > 1 <=> Top(c).at # "called"
  <2>1. CASE Len(stack[c]) > 1
    BY <1>6, <2>1 DEF PairFits
  <2>2. CASE ~(Len(stack[c]) > 1)
    <3>1. stack[c][1].at = "called" /\ Top(c) = stack[c][1]
      BY <1>2, <1>3, <2>2 DEF StackFits, Top
    <3> QED
      BY <2>2, <3>1
  <2> QED
    BY <2>1, <2>2
<1> QED
  BY <1>1, <1>2, <1>3, <1>4, <1>5, <1>6, <1>7

\* What a step of one goroutine has to show of its own stack: the others' are
\* untouched, and the cache, but for Store, is.
LEMMA StackStep ==
    ASSUME Inv, NEW c \in Callers, NEW s \in Seq(Frames), NEW r \in Results,
           UNCHANGED cache,
           stack' = [stack EXCEPT ![c] = s], result' = [result EXCEPT ![c] = r],
           StackFits(s, cache, r),
           skipped' \in [Callers -> SUBSET Types],
           \A d \in Callers : skipped'[d] \cap Legal = {},
           reply' \in [Callers -> [type : Types \cup {"none"}, ok : BOOLEAN,
                                  skipped : SUBSET Types]],
           RepliesFit'
    PROVE  Inv'
<1>1. \A d \in Callers : StackFits(stack'[d], cache', result'[d])
  BY DEF Inv, TypeOK
<1>2. stack' \in [Callers -> Seq(Frames)] /\ result' \in [Callers -> Results]
  <2>1. stack \in [Callers -> Seq(Frames)] /\ result \in [Callers -> Results]
    BY DEF Inv, TypeOK, Results
  <2> QED
    BY <2>1
<1>3. \A d \in Callers : Idle(d)' => result'[d] = "none"
  BY <1>1 DEF Idle, StackFits
<1>4. TypeOK'
  BY <1>2, <1>3 DEF Inv, TypeOK, Results
<1> QED
  BY <1>1, <1>4 DEF Inv

\* The usual step: nothing is left out, and no call returns.
LEMMA PlainStep ==
    ASSUME Inv, NEW c \in Callers, NEW s \in Seq(Frames), NEW r \in Results,
           UNCHANGED <<cache, skipped, reply>>,
           stack' = [stack EXCEPT ![c] = s], result' = [result EXCEPT ![c] = r],
           StackFits(s, cache, r)
    PROVE  Inv'
<1>1. /\ skipped' \in [Callers -> SUBSET Types]
      /\ \A d \in Callers : skipped'[d] \cap Legal = {}
      /\ reply' \in [Callers -> [type : Types \cup {"none"}, ok : BOOLEAN,
                                skipped : SUBSET Types]]
  BY DEF Inv, TypeOK
<1>2. RepliesFit'
  BY DEF Inv, RepliesFit
<1> QED
  BY <1>1, <1>2, StackStep

\* The running frame is replaced by f, or calls with f.
LEMMA BecomeStep ==
    ASSUME Inv, NEW c \in Callers, ~Idle(c), NEW f \in Frames, NEW r \in Results,
           Become(c, f), result' = [result EXCEPT ![c] = r],
           UNCHANGED <<cache, skipped, reply>>,
           FrameFits(f, cache), TopFits(f, cache, r),
           f.at = "called" <=> Top(c).at = "called",
           f.type = Top(c).type,
           f.at = "build" <=> Top(c).at = "build"
    PROVE  Inv'
<1> DEFINE s == stack[c]
           w == Append(SubSeq(s, 1, Len(s) - 1), f)
<1>1. w \in Seq(Frames) /\ StackFits(w, cache, r)
  <2>1. Len(s) > 1 => PairFits(s[Len(s) - 1], f, cache)
    BY TopFacts DEF PairFits, Frames
  <2> QED
    BY <2>1, TopFacts, BecomeFits
<1>2. stack' = [stack EXCEPT ![c] = w]
  BY DEF Become, Below
<1> HIDE DEF w
<1> QED
  BY <1>1, <1>2, PlainStep

LEMMA PushStep ==
    ASSUME Inv, NEW c \in Callers, ~Idle(c), NEW f \in Frames, NEW r \in Results,
           Push(c, f), result' = [result EXCEPT ![c] = r],
           UNCHANGED <<cache, skipped, reply>>,
           FrameFits(f, cache), TopFits(f, cache, r), PairFits(Top(c), f, cache)
    PROVE  Inv'
<1> DEFINE w == Append(stack[c], f)
<1>1. w \in Seq(Frames) /\ StackFits(w, cache, r)
  BY TopFacts, PushFits DEF Top
<1>2. stack' = [stack EXCEPT ![c] = w]
  BY DEF Push, Inv, TypeOK
<1> HIDE DEF w
<1> QED
  BY <1>1, <1>2, PlainStep
-----------------------------------------------------------------------------
(* The steps of compileFilter and planFor.                                 *)

LEMMA CompileInv ==
    ASSUME Inv, NEW c \in Callers, NEW t \in Roots, Compile(c, t)
    PROVE  Inv'
<1> DEFINE f == Frame("called", t, 1, FALSE)
           w == <<f, Calling(t)>>
<1>1. t \in Types
  BY PlanCacheAssumption
<1>2. f \in Frames /\ Calling(t) \in Frames /\ w \in Seq(Frames)
  BY <1>1 DEF Frames, Frame, Calling
<1>3. result[c] = "none"
  BY DEF Compile, Inv, TypeOK
<1>4. StackFits(w, cache, "none")
  BY <1>1 DEF StackFits, FrameFits, PairFits, TopFits, Wants, Frame, Calling
<1>5. /\ reply' \in [Callers -> [type : Types \cup {"none"}, ok : BOOLEAN,
                                skipped : SUBSET Types]]
      /\ RepliesFit'
  BY DEF Compile, Inv, TypeOK, RepliesFit, Silence
<1>6. result' = [result EXCEPT ![c] = "none"] /\ stack' = [stack EXCEPT ![c] = w]
  BY <1>3 DEF Compile, Inv, TypeOK
<1>7. /\ skipped' \in [Callers -> SUBSET Types]
      /\ \A d \in Callers : skipped'[d] \cap Legal = {}
      /\ UNCHANGED cache
  BY DEF Compile, Inv, TypeOK
<1>8. "none" \in Results
  BY DEF Results
<1> HIDE DEF w
<1> QED
  BY <1>2, <1>4, <1>5, <1>6, <1>7, <1>8, StackStep

LEMMA BuiltInv ==
    ASSUME Inv, NEW c \in Callers, Built(c)
    PROVE  Inv'
<1> DEFINE f == Frame("build", Top(c).type, 1, TRUE)
<1>1. ~Idle(c) /\ Top(c).at = "called" /\ result[c] = "ok"
  BY DEF Built, Hears
<1>2. f \in Frames
  BY <1>1, TopFacts DEF Frames, Frame
<1>3. cache[Top(c).type] = "ok"
  BY <1>1, TopFacts DEF TopFits, Wants
<1>4. FrameFits(f, cache) /\ TopFits(f, cache, "none") /\ PairFits(Top(c), f, cache)
  BY <1>3 DEF FrameFits, TopFits, PairFits, Frame
<1> HIDE DEF f
<1>5. Push(c, f) /\ result' = [result EXCEPT ![c] = "none"] /\ "none" \in Results
      /\ UNCHANGED <<cache, skipped, reply>>
  BY DEF Built, Results, f
<1> QED
  BY <1>1, <1>2, <1>4, <1>5, PushStep

\* A call that returns leaves nothing behind, and returns what is right.
LEMMA ReturnsInv ==
    ASSUME Inv, NEW c \in Callers, ~Idle(c), NEW ok \in BOOLEAN, Returns(c, ok),
           result' = [result EXCEPT ![c] = "none"],
           ok <=> Top(c).type \in Legal
    PROVE  Inv'
<1>1. Top(c).type \in Types
  BY TopFacts DEF Frames
<1>2. << >> \in Seq(Frames) /\ StackFits(<< >>, cache, "none") /\ "none" \in Results
  BY DEF StackFits, Results
<1>3. /\ skipped' \in [Callers -> SUBSET Types]
      /\ \A d \in Callers : skipped'[d] \cap Legal = {}
  BY DEF Returns, Inv, TypeOK
<1>4. reply' \in [Callers -> [type : Types \cup {"none"}, ok : BOOLEAN,
                             skipped : SUBSET Types]]
  <2>1. [type |-> Top(c).type, ok |-> ok, skipped |-> skipped[c]]
           \in [type : Types \cup {"none"}, ok : BOOLEAN, skipped : SUBSET Types]
    BY <1>1 DEF Inv, TypeOK
  <2> QED
    BY <2>1 DEF Returns, Inv, TypeOK
<1>5. RepliesFit'
  <2> SUFFICES ASSUME NEW d \in Callers, reply'[d] # Silence
               PROVE  /\ reply'[d].ok <=> reply'[d].type \in Legal
                      /\ reply'[d].skipped \cap Legal = {}
    BY DEF RepliesFit
  <2>1. CASE d = c
    <3>1. reply'[d] = [type |-> Top(c).type, ok |-> ok, skipped |-> skipped[c]]
      BY <2>1 DEF Returns, Inv, TypeOK
    <3> QED
      BY <3>1 DEF Inv
  <2>2. CASE d # c
    <3>1. reply'[d] = reply[d]
      BY <2>2 DEF Returns, Inv, TypeOK
    <3> QED
      BY <3>1 DEF Inv, RepliesFit
  <2> QED
    BY <2>1, <2>2
<1> QED
  BY <1>2, <1>3, <1>4, <1>5, StackStep DEF Returns

LEMMA EndInv ==
    ASSUME Inv, NEW c \in Callers, Refuse(c) \/ Answer(c)
    PROVE  Inv'
<1>1. CASE Refuse(c)
  <2>1. ~Idle(c) /\ Top(c).at = "called" /\ result[c] = "error"
    BY <1>1 DEF Refuse, Hears
  <2>2. cache[Top(c).type] = "error" /\ Top(c).type \in Types
    BY <2>1, TopFacts DEF TopFits, Wants, Frames
  <2>3. Top(c).type \notin Legal
    BY <2>2 DEF Inv, CacheFits
  <2> QED
    BY <1>1, <2>1, <2>3, ReturnsInv DEF Refuse
<1>2. CASE Answer(c)
  <2>1. ~Idle(c) /\ Top(c).at = "called" /\ result[c] = "none"
    BY <1>2 DEF Answer, Runs
  <2>2. cache[Top(c).type] = "ok" /\ Top(c).type \in Types
    BY <2>1, TopFacts DEF TopFits, Frames
  <2>3. Top(c).type \in Legal
    BY <2>2, KeptIsLegal DEF Inv, CacheFits
  <2>4. result' = [result EXCEPT ![c] = "none"]
    BY <1>2, <2>1 DEF Answer, Inv, TypeOK
  <2> QED
    BY <1>2, <2>1, <2>3, <2>4, ReturnsInv DEF Answer
<1> QED
  BY <1>1, <1>2

\* The running frame returns to the one that called it.
LEMMA PopStack ==
    ASSUME Inv, NEW c \in Callers, ~Idle(c), Top(c).at # "called", NEW r \in Results,
           Pop(c), TopFits(stack[c][Len(stack[c]) - 1], cache, r)
    PROVE  \E w \in Seq(Frames) : /\ stack' = [stack EXCEPT ![c] = w]
                                  /\ StackFits(w, cache, r)
<1> DEFINE w == SubSeq(stack[c], 1, Len(stack[c]) - 1)
<1>1. w \in Seq(Frames) /\ StackFits(w, cache, r)
  BY TopFacts, PopFits
<1>2. stack' = [stack EXCEPT ![c] = w]
  BY DEF Pop, Below
<1> QED
  BY <1>1, <1>2

LEMMA LoadInv ==
    ASSUME Inv, NEW c \in Callers, Load(c)
    PROVE  Inv'
<1> DEFINE t == Top(c).type
           f == Frame("fields", t, 1, FALSE)
<1>1. ~Idle(c) /\ Top(c).at = "load" /\ result[c] = "none"
  BY DEF Load, Runs
<1>2. t \in Types
  BY <1>1, TopFacts DEF Frames
<1>3. CASE cache[t] # "absent" /\ result' = [result EXCEPT ![c] = cache[t]] /\ Pop(c)
  <2>1. cache[t] \in Results /\ cache[t] # "none"
    BY <1>2, <1>3 DEF Inv, TypeOK, Results
  <2>2. Wants(stack[c][Len(stack[c]) - 1], t)
    BY <1>1, TopFacts DEF PairFits
  <2>3. TopFits(stack[c][Len(stack[c]) - 1], cache, cache[t])
    BY <1>2, <2>1, <2>2 DEF TopFits
  <2>4. PICK w \in Seq(Frames) : /\ stack' = [stack EXCEPT ![c] = w]
                                 /\ StackFits(w, cache, cache[t])
    BY <1>1, <1>3, <2>1, <2>3, PopStack
  <2> QED
    BY <1>3, <2>1, <2>4, PlainStep DEF Load
<1>4. CASE UNCHANGED result /\ Become(c, f)
  <2>1. f \in Frames
    BY <1>2 DEF Frames, Frame
  <2>2. FrameFits(f, cache) /\ TopFits(f, cache, "none")
    <3>1. PassedBefore(t, 1, cache)
      BY <1>2, FieldTypes DEF PassedBefore
    <3> QED
      BY <3>1 DEF FrameFits, TopFits, Frame
  <2>3. f.at = "fields" /\ f.type = t
    BY DEF Frame
  <2>4. result' = [result EXCEPT ![c] = "none"] /\ "none" \in Results
    BY <1>1, <1>4 DEF Inv, TypeOK, Results
  <2> HIDE DEF f
  <2> QED
    BY <1>1, <1>4, <2>1, <2>2, <2>3, <2>4, BecomeStep DEF Load
<1> QED
  BY <1>3, <1>4 DEF Load

\* A Store never changes an entry that is there.
LEMMA StoreInv ==
    ASSUME Inv, NEW c \in Callers, Store(c)
    PROVE  Inv'
<1> DEFINE t == Top(c).type
           o == IF Top(c).ok THEN "ok" ELSE "error"
<1>1. ~Idle(c) /\ Top(c).at = "store" /\ result[c] = "none"
  BY DEF Store, Runs
<1>2. t \in Types /\ Top(c).ok \in BOOLEAN
  BY <1>1, TopFacts DEF Frames
<1>3. /\ cache' = [cache EXCEPT ![t] = o] /\ result' = [result EXCEPT ![c] = o]
      /\ UNCHANGED <<skipped, reply>> /\ Pop(c)
  BY DEF Store
<1>4. /\ o = "ok" => Passed(t, cache) /\ t \in Legal
      /\ o = "error" => t \notin Legal
  <2>1. FrameFits(Top(c), cache)
    BY <1>1, TopFacts
  <2>2. Passed(t, cache) => t \in Legal
    BY <1>2, KeptIsLegal DEF Inv
  <2> QED
    BY <1>1, <1>2, <2>1, <2>2 DEF FrameFits
<1>5. o \in {"ok", "error"}
  OBVIOUS
<1> HIDE DEF o
<1>6. cache \in [Types -> Outcomes] /\ cache' \in [Types -> Outcomes]
  BY <1>3, <1>5 DEF Inv, TypeOK, Outcomes
<1>7. cache'[t] = o /\ \A u \in Types : u # t => cache'[u] = cache[u]
  BY <1>2, <1>3, <1>6
<1>8. ASSUME NEW u \in Types
      PROVE  /\ cache[u] = "ok" => u \in Legal
             /\ cache[u] = "error" => u \notin Legal
  BY KeptIsLegal DEF Inv, CacheFits
<1>9. \A u \in Types : cache[u] \in {"ok", "error"} => cache'[u] = cache[u]
  BY <1>2, <1>4, <1>5, <1>7, <1>8
<1>10. ASSUME NEW u \in Types, Passed(u, cache)
       PROVE  Passed(u, cache')
  <2>1. Nested(u, "exists") \subseteq Types
    BY NestedTypes
  <2> QED
    BY <1>9, <1>10, <2>1 DEF Passed
<1>11. CacheFits(cache')
  <2> SUFFICES ASSUME NEW u \in Types
               PROVE  /\ cache'[u] = "ok" => Passed(u, cache')
                      /\ cache'[u] = "error" => u \notin Legal
    BY DEF CacheFits
  <2>1. CASE u = t
    BY <1>2, <1>4, <1>7, <1>10, <2>1
  <2>2. CASE u # t
    BY <1>7, <1>10, <2>2 DEF Inv, CacheFits
  <2> QED
    BY <2>1, <2>2
<1>12. ASSUME NEW s \in Seq(Frames), NEW r \in Results, StackFits(s, cache, r)
       PROVE  StackFits(s, cache', r)
  BY <1>9, <1>12, KeepsFit
<1> DEFINE below == stack[c][Len(stack[c]) - 1]
           w == SubSeq(stack[c], 1, Len(stack[c]) - 1)
<1>13. o \in Results /\ result[c] \in Results /\ o # "none"
  BY <1>1, <1>5 DEF Results
<1>14. StackFits(stack[c], cache', result[c])
  BY <1>1, <1>12, TopFacts
<1>15. TopFits(below, cache', o)
  <2>1. Wants(below, t)
    BY <1>1, TopFacts DEF PairFits
  <2> QED
    BY <1>2, <1>7, <1>13, <2>1 DEF TopFits
<1>16. w \in Seq(Frames) /\ StackFits(w, cache', o)
  BY <1>1, <1>14, <1>15, TopFacts, PopFits
<1>17. stack \in [Callers -> Seq(Frames)] /\ result \in [Callers -> Results]
  BY DEF Inv, TypeOK, Results
<1>18. stack' = [stack EXCEPT ![c] = w]
  BY <1>3 DEF Pop, Below
<1> HIDE DEF w, below, t
<1>19. \A d \in Callers : StackFits(stack'[d], cache', result'[d])
  <2> SUFFICES ASSUME NEW d \in Callers PROVE StackFits(stack'[d], cache', result'[d])
    OBVIOUS
  <2>1. CASE d = c
    BY <1>3, <1>16, <1>17, <1>18, <2>1
  <2>2. CASE d # c
    <3>1. stack'[d] = stack[d] /\ result'[d] = result[d]
      BY <1>3, <1>17, <1>18, <2>2
    <3>2. StackFits(stack[d], cache, result[d])
      BY DEF Inv
    <3> QED
      BY <1>12, <1>17, <3>1, <3>2
  <2> QED
    BY <2>1, <2>2
<1>20. stack' \in [Callers -> Seq(Frames)] /\ result' \in [Callers -> Results]
  BY <1>3, <1>13, <1>16, <1>17, <1>18
<1>21. \A d \in Callers : Idle(d)' => result'[d] = "none"
  BY <1>19 DEF Idle, StackFits
<1>22. TypeOK'
  BY <1>3, <1>6, <1>20, <1>21 DEF Inv, TypeOK, Results, Outcomes
<1> QED
  BY <1>3, <1>11, <1>19, <1>22 DEF Inv, RepliesFit

-----------------------------------------------------------------------------
(* The steps of buildPlan.                                                 *)

\* A frame that has passed one more field.
LEMMA PassOne ==
    ASSUME NEW t \in Types, NEW n \in Nat \ {0}, n \in DOMAIN Fields[t], NEW C,
           PassedBefore(t, n, C),
           Fields[t][n].kind # "bad",
           Fields[t][n].kind = "exists" => C[Fields[t][n].of] = "ok",
           Fields[t][n].kind = "table" => ~Marked(t, "table", n)
    PROVE  PassedBefore(t, n + 1, C)
<1> SUFFICES ASSUME NEW j \in DOMAIN Fields[t], j < n + 1
             PROVE  /\ Fields[t][j].kind # "bad"
                    /\ Fields[t][j].kind = "exists" => C[Fields[t][j].of] = "ok"
                    /\ \A k \in DOMAIN Fields[t] :
                          k < n + 1 /\ Fields[t][j].kind = "table"
                                    /\ Fields[t][k].kind = "table"
                          => j = k
  BY DEF PassedBefore
<1>1. \A k \in DOMAIN Fields[t] : k \in Nat
  BY FieldTypes
<1>2. \A k \in DOMAIN Fields[t] : k < n + 1 => k < n \/ k = n
  BY <1>1
<1>3. \A k \in DOMAIN Fields[t] : k < n /\ Fields[t][k].kind = "table"
                                   => Fields[t][n].kind # "table"
  BY DEF Marked
<1> QED
  BY <1>2, <1>3 DEF PassedBefore

\* A "fields" or "build" frame one field further on.
LEMMA Advanced ==
    ASSUME Inv, NEW c \in Callers, ~Idle(c)
    PROVE  LET f == [Top(c) EXCEPT !.i = @ + 1]
           IN  f \in Frames /\ f.at = Top(c).at /\ f.type = Top(c).type
               /\ f.i = Top(c).i + 1 /\ f.ok = Top(c).ok
               /\ Top(c).i \in Nat \ {0} /\ Top(c).type \in Types
<1>1. Top(c) \in Frames
  BY TopFacts
<1> QED
  BY <1>1 DEF Frames

LEMMA UnchangedResult ==
    ASSUME Inv, NEW c \in Callers, UNCHANGED result, result[c] = "none"
    PROVE  result' = [result EXCEPT ![c] = "none"] /\ "none" \in Results
BY DEF Inv, TypeOK, Results

\* The running frame goes on to the next field, having passed this one.
LEMMA NextFieldStep ==
    ASSUME Inv, NEW c \in Callers, ~Idle(c), NextField(c),
           result' = [result EXCEPT ![c] = "none"],
           UNCHANGED <<cache, skipped, reply>>,
           \/ Top(c).at = "build"
           \/ /\ Top(c).at = "fields"
              /\ PassedBefore(Top(c).type, Top(c).i + 1, cache)
    PROVE  Inv'
<1> DEFINE f == [Top(c) EXCEPT !.i = @ + 1]
<1>1. f \in Frames /\ f.at = Top(c).at /\ f.type = Top(c).type /\ f.i = Top(c).i + 1
  BY Advanced
<1>2. Become(c, f)
  BY DEF NextField
<1> HIDE DEF f
<1>3. FrameFits(f, cache) /\ TopFits(f, cache, "none")
  BY <1>1 DEF FrameFits, TopFits
<1>4. "none" \in Results
  BY DEF Results
<1> QED
  BY <1>1, <1>2, <1>3, <1>4, BecomeStep

\* The plan is settled, as what it is.
LEMMA StoresStep ==
    ASSUME Inv, NEW c \in Callers, ~Idle(c), NEW ok \in BOOLEAN, Stores(c, ok),
           Top(c).at = "fields",
           result' = [result EXCEPT ![c] = "none"],
           UNCHANGED <<cache, skipped, reply>>,
           ok => Passed(Top(c).type, cache),
           ~ok => Top(c).type \notin Legal
    PROVE  Inv'
<1> DEFINE f == Frame("store", Top(c).type, 1, ok)
<1>1. Top(c).type \in Types
  BY Advanced
<1>2. f \in Frames /\ f.at = "store" /\ f.type = Top(c).type /\ f.ok = ok
  BY <1>1 DEF Frames, Frame
<1>3. Become(c, f)
  BY DEF Stores
<1> HIDE DEF f
<1>4. FrameFits(f, cache) /\ TopFits(f, cache, "none")
  BY <1>2 DEF FrameFits, TopFits
<1>5. "none" \in Results
  BY DEF Results
<1> QED
  BY <1>2, <1>3, <1>4, <1>5, BecomeStep

\* The running frame asks for the plan of the type of the field it is at.
LEMMA CallStep ==
    ASSUME Inv, NEW c \in Callers, ~Idle(c), Push(c, Calling(Here(c).of)),
           result[c] = "none", UNCHANGED <<cache, result, skipped, reply>>,
           Top(c).i \in DOMAIN Fields[Top(c).type],
           \/ Top(c).at = "build"
           \/ Top(c).at = "fields" /\ Here(c).kind = "exists"
    PROVE  Inv'
<1> DEFINE f == Calling(Here(c).of)
<1>1. Here(c).of \in Types
  BY Advanced, FieldTypes DEF Here
<1>2. f \in Frames /\ f.at = "load" /\ f.type = Here(c).of
  BY <1>1 DEF Frames, Frame, Calling
<1> HIDE DEF f
<1>3. FrameFits(f, cache) /\ TopFits(f, cache, "none") /\ PairFits(Top(c), f, cache)
  BY <1>2 DEF FrameFits, TopFits, PairFits, Wants, Here
<1> QED
  BY <1>2, <1>3, UnchangedResult, PushStep DEF f

\* What a "fields" frame knows.
LEMMA FieldsFacts ==
    ASSUME Inv, NEW c \in Callers, ~Idle(c), Top(c).at = "fields"
    PROVE  Top(c).type \in Types /\ Top(c).i \in Nat \ {0}
           /\ PassedBefore(Top(c).type, Top(c).i, cache)
BY TopFacts DEF FrameFits, Frames

LEMMA TakeFieldInv ==
    ASSUME Inv, NEW c \in Callers, TakeField(c)
    PROVE  Inv'
<1> DEFINE t == Top(c).type
           n == Top(c).i
<1>1. ~Idle(c) /\ Top(c).at = "fields" /\ result[c] = "none"
  BY DEF TakeField, Runs
<1>2. /\ n \in DOMAIN Fields[t] /\ Fields[t][n].kind \notin {"bad", "exists"}
      /\ Fields[t][n].kind = "table" => ~Marked(t, "table", n)
  BY DEF TakeField, AtField, Here
<1>3. PassedBefore(t, n + 1, cache)
  BY <1>1, <1>2, FieldsFacts, PassOne
<1>4. result' = [result EXCEPT ![c] = "none"] /\ NextField(c)
      /\ UNCHANGED <<cache, skipped, reply>>
  BY <1>1, UnchangedResult DEF TakeField
<1> QED
  BY <1>1, <1>3, <1>4, NextFieldStep

LEMMA RejectFieldInv ==
    ASSUME Inv, NEW c \in Callers, RejectField(c)
    PROVE  Inv'
<1> DEFINE t == Top(c).type
           n == Top(c).i
<1>1. ~Idle(c) /\ Top(c).at = "fields" /\ result[c] = "none"
  BY DEF RejectField, Runs
<1>2. /\ n \in DOMAIN Fields[t]
      /\ \/ Fields[t][n].kind = "bad"
         \/ Fields[t][n].kind = "table" /\ Marked(t, "table", n)
  BY DEF RejectField, AtField, Here
<1>3. ~AloneLegal(t)
  <2>1. CASE Fields[t][n].kind = "bad"
    BY <1>2, <2>1 DEF AloneLegal
  <2>2. CASE Fields[t][n].kind = "table" /\ Marked(t, "table", n)
    <3>1. PICK j \in DOMAIN Fields[t] : j < n /\ Fields[t][j].kind = "table"
      BY <2>2 DEF Marked
    <3>2. j # n
      BY <1>1, <3>1, FieldsFacts, FieldTypes
    <3> QED
      BY <1>2, <2>2, <3>1, <3>2 DEF AloneLegal
  <2> QED
    BY <1>2, <2>1, <2>2
<1>4. t \notin Legal
  BY <1>3, LegalStep
<1>5. result' = [result EXCEPT ![c] = "none"] /\ Stores(c, FALSE)
      /\ UNCHANGED <<cache, skipped, reply>>
  BY <1>1, UnchangedResult DEF RejectField
<1> QED
  BY <1>1, <1>4, <1>5, StoresStep

LEMMA TakeExistsInv ==
    ASSUME Inv, NEW c \in Callers, TakeExists(c)
    PROVE  Inv'
BY CallStep DEF TakeExists, Runs, AtField

\* The type of the Exists is kept by the time its parent goes on.
LEMMA ExistsHearsInv ==
    ASSUME Inv, NEW c \in Callers, ExistsHears(c)
    PROVE  Inv'
<1> DEFINE t == Top(c).type
           n == Top(c).i
<1>1. ~Idle(c) /\ Top(c).at = "fields" /\ result[c] \in {"ok", "error"}
  BY DEF ExistsHears, Hears
<1>2. /\ t \in Types /\ n \in Nat \ {0} /\ n \in DOMAIN Fields[t]
      /\ Fields[t][n].kind = "exists" /\ cache[Fields[t][n].of] = result[c]
      /\ PassedBefore(t, n, cache)
  BY <1>1, TopFacts, FieldsFacts DEF TopFits, Wants
<1>3. /\ result' = [result EXCEPT ![c] = "none"]
      /\ UNCHANGED <<cache, skipped, reply>>
  BY DEF ExistsHears
<1>4. CASE Hears(c, "fields", "ok") /\ NextField(c)
  <2>1. PassedBefore(t, n + 1, cache)
    BY <1>2, <1>4, PassOne DEF Hears
  <2> QED
    BY <1>1, <1>3, <1>4, <2>1, NextFieldStep
<1>5. CASE Hears(c, "fields", "error") /\ Stores(c, FALSE)
  <2>1. Fields[t][n].of \notin Legal
    BY <1>2, <1>5, FieldTypes DEF Hears, Inv, CacheFits
  <2>2. Fields[t][n].of \in Nested(t, "exists")
    BY <1>2 DEF Nested
  <2>3. t \notin Legal
    BY <2>1, <2>2, LegalStep
  <2> QED
    BY <1>1, <1>3, <1>5, <2>3, StoresStep
<1> QED
  BY <1>4, <1>5 DEF ExistsHears

LEMMA FinishInv ==
    ASSUME Inv, NEW c \in Callers, Finish(c)
    PROVE  Inv'
<1> DEFINE t == Top(c).type
           n == Top(c).i
           ok == Marked(t, "join", n) => Marked(t, "table", n)
<1>1. ~Idle(c) /\ Top(c).at = "fields" /\ result[c] = "none"
  BY DEF Finish, Runs
<1>2. t \in Types /\ n \in Nat \ {0} /\ n \notin DOMAIN Fields[t]
      /\ PassedBefore(t, n, cache)
  BY <1>1, FieldsFacts DEF Finish, AtEnd
<1>3. \A j \in DOMAIN Fields[t] : j < n
  <2>1. Fields[t] \in Seq([kind : Kinds, of : Types])
    BY <1>2, PlanCacheAssumption
  <2>2. DOMAIN Fields[t] = 1..Len(Fields[t]) /\ Len(Fields[t]) \in Nat
    BY <2>1
  <2> QED
    BY <1>2, <2>2
<1>4. ASSUME NEW kind
      PROVE  Marked(t, kind, n) <=> \E j \in DOMAIN Fields[t] : Fields[t][j].kind = kind
  BY <1>3 DEF Marked
<1>5. ok => AloneLegal(t)
  BY <1>2, <1>3, <1>4 DEF PassedBefore, AloneLegal
<1>6. ok => Passed(t, cache)
  BY <1>2, <1>3, <1>5 DEF Passed, PassedBefore, Nested
<1>7. ~ok => t \notin Legal
  <2>1. ~ok => ~AloneLegal(t)
    BY <1>4 DEF AloneLegal
  <2> QED
    BY <2>1, LegalStep
<1>8. ok \in BOOLEAN
  OBVIOUS
<1>9. result' = [result EXCEPT ![c] = "none"] /\ Stores(c, ok)
      /\ UNCHANGED <<cache, skipped, reply>>
  BY <1>1, UnchangedResult DEF Finish
<1> HIDE DEF ok
<1> QED
  BY <1>1, <1>6, <1>7, <1>8, <1>9, StoresStep

-----------------------------------------------------------------------------
(* The steps of plan.build.                                                *)

LEMMA BuildFieldInv ==
    ASSUME Inv, NEW c \in Callers, BuildField(c)
    PROVE  Inv'
BY NextFieldStep, UnchangedResult DEF BuildField, Runs

LEMMA BuildNestedInv ==
    ASSUME Inv, NEW c \in Callers, BuildNested(c)
    PROVE  Inv'
BY CallStep DEF BuildNested, Runs, AtField

LEMMA NestedHearsPlanInv ==
    ASSUME Inv, NEW c \in Callers, NestedHearsPlan(c)
    PROVE  Inv'
<1> DEFINE f == [Top(c) EXCEPT !.i = @ + 1]
           g == Frame("build", Here(c).of, 1, TRUE)
           s == stack[c]
           v == Append(SubSeq(s, 1, Len(s) - 1), f)
           w == Append(v, g)
<1>1. ~Idle(c) /\ Top(c).at = "build" /\ result[c] = "ok"
      /\ result' = [result EXCEPT ![c] = "none"] /\ "none" \in Results
      /\ UNCHANGED <<cache, skipped, reply>>
  BY DEF NestedHearsPlan, Hears, Results
<1>2. CASE NextField(c)
  BY <1>1, <1>2, NextFieldStep
<1>3. CASE Descend(c, g)
  <2>1. f \in Frames /\ f.at = "build" /\ f.type = Top(c).type /\ Top(c).type \in Types
    BY <1>1, Advanced
  <2>2. g \in Frames /\ g.at = "build"
    <3>1. Top(c).i \in DOMAIN Fields[Top(c).type]
      BY <1>1, TopFacts DEF TopFits, Wants
    <3> QED
      BY <2>1, <3>1, FieldTypes DEF Frames, Frame, Here
  <2>3. stack' = [stack EXCEPT ![c] = w]
    BY <1>3 DEF Descend, Below
  <2> HIDE DEF f, g
  <2>4. FrameFits(f, cache) /\ TopFits(f, cache, "none")
        /\ FrameFits(g, cache) /\ TopFits(g, cache, "none") /\ PairFits(f, g, cache)
    BY <2>1, <2>2 DEF FrameFits, TopFits, PairFits
  <2>5. Len(s) > 1 /\ PairFits(s[Len(s) - 1], f, cache)
    BY <1>1, <2>1, TopFacts DEF PairFits
  <2>6. v \in Seq(Frames) /\ v # << >> /\ v[Len(v)] = f /\ StackFits(v, cache, "none")
    BY <1>1, <2>1, <2>4, <2>5, TopFacts, BecomeFits
  <2> HIDE DEF v
  <2>7. w \in Seq(Frames) /\ StackFits(w, cache, "none")
    BY <2>2, <2>4, <2>6, PushFits
  <2> HIDE DEF w
  <2> QED
    BY <1>1, <2>3, <2>7, PlainStep
<1> QED
  BY <1>2, <1>3 DEF NestedHearsPlan

\* What is left out is over a type that is not accepted.
LEMMA NestedHearsErrorInv ==
    ASSUME Inv, NEW c \in Callers, NestedHearsError(c)
    PROVE  Inv'
<1> DEFINE f == [Top(c) EXCEPT !.i = @ + 1]
           s == stack[c]
           w == Append(SubSeq(s, 1, Len(s) - 1), f)
<1>1. ~Idle(c) /\ Top(c).at = "build" /\ result[c] = "error"
      /\ result' = [result EXCEPT ![c] = "none"] /\ "none" \in Results
      /\ UNCHANGED <<cache, reply>>
      /\ skipped' = [skipped EXCEPT ![c] = @ \cup {Here(c).of}]
  BY DEF NestedHearsError, Hears, Results
<1>2. f \in Frames /\ f.at = "build" /\ f.type = Top(c).type /\ Top(c).type \in Types
  BY <1>1, Advanced
<1>3. stack' = [stack EXCEPT ![c] = w]
  BY DEF NestedHearsError, NextField, Become, Below
<1>4. Top(c).i \in DOMAIN Fields[Top(c).type] /\ cache[Here(c).of] = "error"
  BY <1>1, TopFacts DEF TopFits, Wants, Here
<1>5. Here(c).of \in Types /\ Here(c).of \notin Legal
  BY <1>2, <1>4, FieldTypes DEF Here, Inv, CacheFits
<1> HIDE DEF f
<1>6. FrameFits(f, cache) /\ TopFits(f, cache, "none")
  BY <1>2 DEF FrameFits, TopFits
<1>7. Len(s) > 1 /\ PairFits(s[Len(s) - 1], f, cache)
  BY <1>1, <1>2, TopFacts DEF PairFits
<1>8. w \in Seq(Frames) /\ StackFits(w, cache, "none")
  BY <1>1, <1>2, <1>6, <1>7, TopFacts, BecomeFits
<1> HIDE DEF w
<1>9. /\ skipped' \in [Callers -> SUBSET Types]
      /\ \A d \in Callers : skipped'[d] \cap Legal = {}
  BY <1>1, <1>5 DEF Inv, TypeOK
<1>10. /\ reply' \in [Callers -> [type : Types \cup {"none"}, ok : BOOLEAN,
                                 skipped : SUBSET Types]]
       /\ RepliesFit'
  BY <1>1 DEF Inv, TypeOK, RepliesFit
<1> QED
  BY <1>1, <1>3, <1>8, <1>9, <1>10, StackStep

\* A build that ends leaves the frame below it ready: the call itself only when
\* the plan of its type is kept.
LEMMA BuildEndsInv ==
    ASSUME Inv, NEW c \in Callers, BuildEnds(c)
    PROVE  Inv'
<1> DEFINE below == stack[c][Len(stack[c]) - 1]
<1>1. ~Idle(c) /\ Top(c).at = "build" /\ result[c] = "none" /\ Pop(c)
      /\ UNCHANGED <<cache, result, skipped, reply>>
  BY DEF BuildEnds, Runs
<1>2. TopFits(below, cache, "none")
  BY <1>1, TopFacts DEF PairFits, TopFits
<1>3. PICK w \in Seq(Frames) : /\ stack' = [stack EXCEPT ![c] = w]
                               /\ StackFits(w, cache, "none")
  BY <1>1, <1>2, UnchangedResult, PopStack
<1> QED
  BY <1>1, <1>3, UnchangedResult, PlainStep

-----------------------------------------------------------------------------
(* The theorems.                                                           *)

THEOREM NextInv == Inv /\ [Next]_vars => Inv'
<1> SUFFICES ASSUME Inv, [Next]_vars PROVE Inv'
  OBVIOUS
<1>1. ASSUME NEW c \in Callers, NEW t \in Roots, Compile(c, t)
      PROVE  Inv'
  BY <1>1, CompileInv
<1>2. ASSUME NEW c \in Callers, Planning(c)
      PROVE  Inv'
  BY <1>2, LoadInv, StoreInv, TakeFieldInv, RejectFieldInv, TakeExistsInv,
     ExistsHearsInv, FinishInv DEF Planning
<1>3. ASSUME NEW c \in Callers, Building(c)
      PROVE  Inv'
  BY <1>3, BuiltInv, EndInv, BuildFieldInv, BuildNestedInv, NestedHearsPlanInv,
     NestedHearsErrorInv, BuildEndsInv DEF Building
<1>4. CASE UNCHANGED vars
  BY <1>4 DEF vars, Inv, TypeOK, RepliesFit, CacheFits, Idle
<1> QED
  BY <1>1, <1>2, <1>3, <1>4 DEF Next, Goroutine

THEOREM PlanCacheInv == Spec => []Inv
BY InitInv, NextInv, PTL DEF Spec

\* The types of the state, and that nothing of a call is left after it.
THEOREM PlanCacheTypes == Spec => []TypeOK
<1>1. Inv => TypeOK
  BY DEF Inv
<1> QED
  BY <1>1, PlanCacheInv, PTL

\* Every entry of planCache is right, whatever goroutines made it (planFor).
THEOREM CacheSound == Spec => []CacheIsSound
<1>1. Inv => CacheIsSound
  BY KeptIsLegal DEF Inv, CacheFits, CacheIsSound
<1> QED
  BY <1>1, PlanCacheInv, PTL

\* A plan in planCache has those of its Exists types there with it (existsStep).
THEOREM ExistsFirst == Spec => []ExistsKeptFirst
<1>1. Inv => ExistsKeptFirst
  BY DEF Inv, CacheFits, Passed, ExistsKeptFirst
<1> QED
  BY <1>1, PlanCacheInv, PTL

\* What compileFilter returns depends on the filter alone, not on the cache.
THEOREM RepliesSound == Spec => []RepliesFit
<1>1. Inv => RepliesFit
  BY DEF Inv
<1> QED
  BY <1>1, PlanCacheInv, PTL
=============================================================================
