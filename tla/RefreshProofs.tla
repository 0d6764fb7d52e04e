---------------------------- MODULE RefreshProofs ----------------------------
(***************************************************************************)
(* Theorems about Refresh: its types, and what a refresh leaves behind.    *)
(***************************************************************************)
EXTENDS Refresh, SequenceTheorems, FiniteSetTheorems, WellFoundedInduction, TLAPS

-----------------------------------------------------------------------------
(***************************************************************************)
(* Types.                                                                  *)
(***************************************************************************)

Content == [words : Nat, cites : SUBSET AnyRef, value : AnyValue \cup {None}]

WalkFrame ==
    [ref : AnyRef, step : {"read", "walk", "get", "persist", "reread"},
     todo : SUBSET AnyRef, fresh : SUBSET AnyRef, code : AnyRef \cup {None},
     objects : SUBSET AnyRef, value : AnyValue \cup {None}]

\* All that is referred to is there.
IsValue(v) == v.code \in AllRefs \cup {None} /\ v.inputs \subseteq AllRefs
IsContent(c) == c.cites \subseteq AllRefs /\ (c.value # None => IsValue(c.value))

\* What a value was computed from is what its code loads and fetches.
Wants(rc) == rc.loads \cup IF rc.fetches THEN {Source} ELSE {}
Computed(v) ==
    \E n \in Notebooks : \E k \in DOMAIN recipe[n] :
       v.code = Ref(n, k) /\ {x.art : x \in v.inputs} = Wants(recipe[n][k])
ValueOK(v) == v # None => IsValue(v) /\ (v.code # None => Computed(v))

CitableArts(a) == Uses[a] \cup IF a \in Derived THEN {Notebook[a], Source} ELSE {}

ContentOK(a, c) ==
    /\ IsContent(c) /\ ValueOK(c.value)
    /\ \A x \in c.cites : x.art \in CitableArts(a)
    /\ \A u \in Uses[a] : \E x \in c.cites : x.art = u
    /\ a \in Derived <=> c.value # None

FrameOK(f) ==
    /\ f.ref \in AllRefs /\ f.ref.art \in Artifacts
    /\ f.todo \subseteq AllRefs /\ f.fresh \subseteq AllRefs /\ f.objects \subseteq AllRefs
    /\ \A x \in f.todo : x.art \in Uses[f.ref.art]
    /\ \A x \in f.fresh : x.art \in Uses[f.ref.art]
    /\ \A x \in f.objects : x.art = Source
    /\ f.step \in {"get", "persist", "reread"} => f.ref.art \in Derived
    /\ f.step \in {"get", "persist"} =>
         f.code \in AllRefs /\ f.code.art = Notebook[f.ref.art]
    /\ ValueOK(f.value) /\ (f.step = "persist" => f.value # None)
    /\ f.ref.art \notin Derived => f.objects = {} /\ f.value = None

\* Each refresh was called for one of the sources of the one below it.
Chained(s) == \A i \in DOMAIN s : i > 1 => s[i].ref.art \in Uses[s[i - 1].ref.art]

TypeInv ==
    /\ world \in Data /\ cache \in Data \cup {None}
    /\ kernel \in [Names -> AnyValue \cup {None}]
    /\ recipe \in [Notebooks -> Seq(Recipe)]
    /\ log \in [Artifacts -> Seq(Content)]
    /\ stack \in Seq(WalkFrame)
    /\ events \in Nat
    /\ \A n \in Notebooks : recipe[n] # <<>>
    /\ \A a \in Artifacts : log[a] # <<>>
    /\ \A n \in Names : ValueOK(kernel[n])
    /\ \A a \in Artifacts : \A i \in DOMAIN log[a] : ContentOK(a, log[a][i])
    /\ \A i \in DOMAIN stack : FrameOK(stack[i])
    /\ Chained(stack)
    /\ outcome \in AllRefs \cup {None, Refused}

-----------------------------------------------------------------------------
(***************************************************************************)
(* The stack of the walk.                                                  *)
(***************************************************************************)

\* What is below the top.
LEMMA StackTop ==
    ASSUME stack \in Seq(WalkFrame), stack # <<>>
    PROVE  /\ Len(stack) \in Nat \ {0} /\ Top \in WalkFrame
           /\ Below \in Seq(WalkFrame) /\ Len(Below) = Len(stack) - 1
           /\ \A i \in 1 .. Len(stack) - 1 : Below[i] = stack[i]
  <1>1. Len(stack) \in Nat \ {0}
    BY EmptySeq
  <1>2. Top \in WalkFrame
    BY <1>1 DEF Top
  <1>3. /\ Below \in Seq(WalkFrame) /\ Len(Below) = Len(stack) - 1
        /\ \A i \in 1 .. Len(stack) - 1 : Below[i] = stack[i]
    <2>1. PICK n : n = Len(stack) - 1
      OBVIOUS
    <2>2. n \in 0 .. Len(stack) /\ 1 \in 1 .. Len(stack) + 1
      BY <1>1, <2>1
    <2>3. Below = SubSeq(stack, 1, n)
      BY <2>1 DEF Below
    <2> QED BY <2>1, <2>2, <2>3, SubSeqProperties
  <1> QED BY <1>1, <1>2, <1>3

\* A step of the innermost refresh changes its frame only.
LEMMA StackStays ==
    ASSUME stack \in Seq(WalkFrame), stack # <<>>, NEW f \in WalkFrame, Stay(f)
    PROVE  /\ stack' \in Seq(WalkFrame) /\ Len(stack') = Len(stack)
           /\ stack'[Len(stack)] = f /\ stack' # <<>>
           /\ \A i \in 1 .. Len(stack) - 1 : stack'[i] = stack[i]
  <1>1. stack' = Append(Below, f)
    BY DEF Stay
  <1>2. /\ Len(stack) \in Nat \ {0}
        /\ Below \in Seq(WalkFrame) /\ Len(Below) = Len(stack) - 1
        /\ \A i \in 1 .. Len(stack) - 1 : Below[i] = stack[i]
    BY StackTop
  <1>3. /\ stack' \in Seq(WalkFrame) /\ Len(stack') = Len(Below) + 1
        /\ stack'[Len(Below) + 1] = f
        /\ \A i \in 1 .. Len(Below) : stack'[i] = Below[i]
    BY <1>1, <1>2, AppendProperties
  <1>4. Len(Below) + 1 = Len(stack) /\ Len(stack') = Len(stack) /\ Len(stack') # 0
    BY <1>2, <1>3
  <1>5. stack' # <<>>
    BY <1>4, EmptySeq
  <1> QED BY <1>2, <1>3, <1>4, <1>5

\* A refresh within a refresh.
LEMMA StackGrows ==
    ASSUME stack \in Seq(WalkFrame), stack # <<>>,
           NEW f \in WalkFrame, NEW g \in WalkFrame,
           stack' = Append(Append(Below, f), g)
    PROVE  /\ stack' \in Seq(WalkFrame) /\ Len(stack') = Len(stack) + 1
           /\ stack'[Len(stack)] = f /\ stack'[Len(stack) + 1] = g
           /\ \A i \in 1 .. Len(stack) - 1 : stack'[i] = stack[i]
  <1>1. PICK s : s = Append(Below, f)
    OBVIOUS
  <1>2. /\ Len(stack) \in Nat \ {0}
        /\ Below \in Seq(WalkFrame) /\ Len(Below) = Len(stack) - 1
        /\ \A i \in 1 .. Len(stack) - 1 : Below[i] = stack[i]
    BY StackTop
  <1>3. /\ s \in Seq(WalkFrame) /\ Len(s) = Len(Below) + 1 /\ s[Len(Below) + 1] = f
        /\ \A i \in 1 .. Len(Below) : s[i] = Below[i]
    BY <1>1, <1>2, AppendProperties
  <1>4. Len(s) = Len(stack) /\ Len(Below) + 1 = Len(stack)
    BY <1>2, <1>3
  <1>5. /\ stack' \in Seq(WalkFrame) /\ Len(stack') = Len(s) + 1
        /\ stack'[Len(s) + 1] = g
        /\ \A i \in 1 .. Len(s) : stack'[i] = s[i]
    BY <1>1, <1>3, AppendProperties
  <1>6. Len(stack) \in 1 .. Len(s) /\ \A i \in 1 .. Len(stack) - 1 : i \in 1 .. Len(s)
    BY <1>2, <1>4
  <1> QED BY <1>2, <1>3, <1>4, <1>5, <1>6

\* An inner refresh hands its reference to the one that called it.
LEMMA StackShrinks ==
    ASSUME stack \in Seq(WalkFrame), Len(stack) > 1, NEW r \in AnyRef,
           stack' = [Below EXCEPT ![Len(Below)].fresh =
                       {x \in @ : x.art # r.art} \cup {r}]
    PROVE  /\ stack' \in Seq(WalkFrame) /\ Len(stack') = Len(stack) - 1
           /\ stack'[Len(stack) - 1] =
                [stack[Len(stack) - 1] EXCEPT !.fresh =
                   {x \in stack[Len(stack) - 1].fresh : x.art # r.art} \cup {r}]
           /\ \A i \in 1 .. Len(stack) - 2 : stack'[i] = stack[i]
  <1> DEFINE k == Len(stack) - 1
             caller == stack[k]
             told == [caller EXCEPT !.fresh = {x \in caller.fresh : x.art # r.art} \cup {r}]
  <1>1. stack # <<>>
    BY EmptySeq
  <1>2. /\ Len(stack) \in Nat /\ k \in Nat \ {0} /\ k \in 1 .. k
        /\ Below \in Seq(WalkFrame) /\ Len(Below) = k
        /\ \A i \in 1 .. k : Below[i] = stack[i]
    BY <1>1, StackTop
  <1>3. caller \in WalkFrame
    BY <1>2
  <1>4. told \in WalkFrame
    BY <1>3 DEF WalkFrame
  <1>5. stack' = [Below EXCEPT ![k] = told]
    BY <1>2
  <1> HIDE DEF told, k
  <1>6. /\ stack' \in Seq(WalkFrame) /\ Len(stack') = k /\ stack'[k] = told
        /\ \A i \in 1 .. k : i # k => stack'[i] = Below[i]
    <2>1. PICK s, n, e : s = Below /\ n = k /\ e = told
      OBVIOUS
    <2>2. s \in Seq(WalkFrame) /\ n \in 1 .. Len(s) /\ e \in WalkFrame
      BY <1>2, <1>4, <2>1
    <2>3. /\ [s EXCEPT ![n] = e] \in Seq(WalkFrame)
          /\ Len([s EXCEPT ![n] = e]) = Len(s)
          /\ \A j \in 1 .. Len(s) : [s EXCEPT ![n] = e][j] = IF j = n THEN e ELSE s[j]
      BY <2>2, ExceptSeq
    <2> QED BY <1>2, <1>5, <2>1, <2>3
  <1>7. \A i \in 1 .. Len(stack) - 2 : i \in 1 .. k /\ i # k
    BY <1>2 DEF k
  <1> QED BY <1>2, <1>6, <1>7 DEF told, k

Newest(a) == log[a][Len(log[a])]

-----------------------------------------------------------------------------
(***************************************************************************)
(* Snapshots and recipes are only added.                                   *)
(***************************************************************************)

Grows ==
    /\ \A a \in Artifacts : \A i \in DOMAIN log[a] :
         i \in DOMAIN log'[a] /\ log'[a][i] = log[a][i]
    /\ \A n \in Notebooks : \A k \in DOMAIN recipe[n] :
         k \in DOMAIN recipe'[n] /\ recipe'[n][k] = recipe[n][k]

Exists(r) ==
    \/ \E a \in Artifacts : \E i \in DOMAIN log[a] : r = Ref(a, i)
    \/ \E n \in Notebooks : \E i \in DOMAIN recipe[n] : r = Ref(n, i)
    \/ \E d \in Data : r = Ref(Source, d)

\* The references there are, by what they lead to.
LEMMA AllRefsAre ==
    /\ \A r : r \in AllRefs <=> Exists(r)
    /\ \A r : r \in AllRefs' <=> Exists(r)'
  <1> USE RefreshAssumption
  <1>1. \A r : r \in AllRefs <=> Exists(r)
    BY DEF AllRefs, Refs, Exists
  <1>2. \A r : r \in AllRefs' <=> Exists(r)'
    BY DEF AllRefs, Refs, Exists
  <1> QED BY <1>1, <1>2

\* What was there stays.
LEMMA RefsGrow ==
    ASSUME Grows
    PROVE  AllRefs \subseteq AllRefs'
  <1> SUFFICES ASSUME NEW r, Exists(r) PROVE Exists(r)'
    BY AllRefsAre
  <1> QED BY DEF Exists, Grows

\* What leads to a snapshot, a recipe or a state of the source is a reference.
LEMMA RefsTyped ==
    ASSUME TypeInv
    PROVE  AllRefs \subseteq AnyRef /\ None \notin AllRefs
  <1>1. ASSUME NEW r, Exists(r) PROVE r \in AnyRef
    <2>1. CASE \E a \in Artifacts : \E i \in DOMAIN log[a] : r = Ref(a, i)
      <3>1. PICK a \in Artifacts : \E i \in DOMAIN log[a] : r = Ref(a, i)
        BY <2>1
      <3>2. PICK i \in DOMAIN log[a] : r = Ref(a, i)
        BY <3>1
      <3>3. i \in Nat
        BY <3>2 DEF TypeInv
      <3> QED BY <3>2, <3>3 DEF Ref, AnyRef
    <2>2. CASE \E n \in Notebooks : \E i \in DOMAIN recipe[n] : r = Ref(n, i)
      <3>1. PICK n \in Notebooks : \E i \in DOMAIN recipe[n] : r = Ref(n, i)
        BY <2>2
      <3>2. PICK i \in DOMAIN recipe[n] : r = Ref(n, i)
        BY <3>1
      <3>3. i \in Nat
        BY <3>2 DEF TypeInv
      <3> QED BY <3>2, <3>3 DEF Ref, AnyRef
    <2>3. CASE \E d \in Data : r = Ref(Source, d)
      BY <2>3 DEF Ref, AnyRef
    <2> QED BY <1>1, <2>1, <2>2, <2>3 DEF Exists
  <1> QED BY <1>1, AllRefsAre, NoneAssumption

\* A frame, a value or a snapshot that was all right stays so.
LEMMA OldStays ==
    ASSUME Grows
    PROVE  /\ \A v : ValueOK(v) => ValueOK(v)'
           /\ \A a, c : ContentOK(a, c) => ContentOK(a, c)'
           /\ \A f : FrameOK(f) => FrameOK(f)'
  <1>1. AllRefs \subseteq AllRefs'
    BY RefsGrow
  <1>2. ASSUME NEW v, Computed(v) PROVE Computed(v)'
    BY <1>2 DEF Computed, Grows
  <1>3. \A v : IsValue(v) => IsValue(v)'
    BY <1>1 DEF IsValue
  <1>4. \A v : ValueOK(v) => ValueOK(v)'
    BY <1>2, <1>3 DEF ValueOK
  <1>5. ASSUME NEW a, NEW c, ContentOK(a, c) PROVE ContentOK(a, c)'
    <2>1. PICK v : v = c.value
      OBVIOUS
    <2>2. ValueOK(v)'
      BY <1>4, <1>5, <2>1 DEF ContentOK
    <2>3. v # None => IsValue(v)'
      BY <1>3, <1>5, <2>1 DEF ContentOK, IsContent
    <2>4. IsContent(c)'
      BY <1>1, <1>5, <2>1, <2>3 DEF ContentOK, IsContent
    <2> QED BY <1>5, <2>1, <2>2, <2>4 DEF ContentOK
  <1>6. ASSUME NEW f, FrameOK(f) PROVE FrameOK(f)'
    <2>1. PICK v : v = f.value
      OBVIOUS
    <2>2. ValueOK(v)'
      BY <1>4, <1>6, <2>1 DEF FrameOK
    <2> QED BY <1>1, <1>6, <2>1, <2>2 DEF FrameOK
  <1> QED BY <1>4, <1>5, <1>6

\* So a step has to answer for what is new.
LEMMA TypesGrow ==
    ASSUME TypeInv, Grows,
           world' \in Data, cache' \in Data \cup {None},
           kernel' \in [Names -> AnyValue \cup {None}],
           recipe' \in [Notebooks -> Seq(Recipe)], log' \in [Artifacts -> Seq(Content)],
           stack' \in Seq(WalkFrame), events' \in Nat,
           \A n \in Notebooks : recipe'[n] # <<>>,
           \A a \in Artifacts : log'[a] # <<>>,
           \A n \in Names : kernel'[n] = kernel[n] \/ ValueOK(kernel[n])',
           \A a \in Artifacts : \A i \in DOMAIN log'[a] :
             i \in DOMAIN log[a] \/ ContentOK(a, log[a][i])',
           \A i \in DOMAIN stack' :
             (\E j \in DOMAIN stack : stack'[i] = stack[j]) \/ FrameOK(stack[i])',
           Chained(stack'),
           outcome' = outcome \/ outcome' \in AllRefs' \cup {None, Refused}
    PROVE  TypeInv'
  <1>1. AllRefs \subseteq AllRefs'
    BY RefsGrow
  <1>2. \A n \in Names : ValueOK(kernel[n])'
    <2> SUFFICES ASSUME NEW n \in Names, kernel'[n] = kernel[n]
                 PROVE  ValueOK(kernel[n])'
      OBVIOUS
    <2>1. PICK v : v = kernel[n]
      OBVIOUS
    <2>2. ValueOK(v)
      BY <2>1 DEF TypeInv
    <2>3. ValueOK(v)'
      BY <2>2, OldStays
    <2> QED BY <2>1, <2>3
  <1>3. \A a \in Artifacts : \A i \in DOMAIN log'[a] : ContentOK(a, log[a][i])'
    <2> SUFFICES ASSUME NEW a \in Artifacts, NEW i, i \in DOMAIN log[a]
                 PROVE  ContentOK(a, log[a][i])'
      OBVIOUS
    <2>1. PICK c : c = log[a][i]
      OBVIOUS
    <2>2. ContentOK(a, c)
      BY <2>1 DEF TypeInv
    <2>3. ContentOK(a, c)'
      BY <2>2, OldStays
    <2> QED BY <2>1, <2>3 DEF Grows
  <1>4. \A i \in DOMAIN stack' : FrameOK(stack[i])'
    <2> SUFFICES ASSUME NEW i, NEW j \in DOMAIN stack, stack'[i] = stack[j]
                 PROVE  FrameOK(stack[i])'
      OBVIOUS
    <2>1. PICK f : f = stack[j]
      OBVIOUS
    <2>2. FrameOK(f)
      BY <2>1 DEF TypeInv
    <2>3. FrameOK(f)'
      BY <2>2, OldStays
    <2> QED BY <2>1, <2>3
  <1>5. outcome' \in AllRefs' \cup {None, Refused}
    BY <1>1 DEF TypeInv
  <1> QED BY <1>2, <1>3, <1>4, <1>5 DEF TypeInv

-----------------------------------------------------------------------------
(***************************************************************************)
(* Publishing.                                                             *)
(***************************************************************************)

\* A snapshot is added to the log of one artifact.
LEMMA LogExtends ==
    ASSUME TypeInv, NEW a \in Artifacts, NEW c \in Content,
           log' = [log EXCEPT ![a] = Append(@, c)]
    PROVE  /\ log' \in [Artifacts -> Seq(Content)]
           /\ \A b \in Artifacts : b # a => log'[b] = log[b]
           /\ Len(log[a]) \in Nat \ {0} /\ DOMAIN log[a] = 1 .. Len(log[a])
           /\ Len(log'[a]) = Len(log[a]) + 1 /\ DOMAIN log'[a] = 1 .. Len(log[a]) + 1
           /\ log'[a][Len(log[a]) + 1] = c
           /\ \A i \in DOMAIN log[a] : log'[a][i] = log[a][i]
           /\ \A b \in Artifacts : log'[b] # <<>>
  <1>1. log \in [Artifacts -> Seq(Content)] /\ log[a] \in Seq(Content) /\ log[a] # <<>>
    BY DEF TypeInv
  <1>2. PICK s, t : s = log[a] /\ t = Append(log[a], c)
    OBVIOUS
  <1>3. /\ t \in Seq(Content) /\ Len(t) = Len(s) + 1 /\ t[Len(s) + 1] = c
        /\ \A i \in 1 .. Len(s) : t[i] = s[i]
    BY <1>1, <1>2, AppendProperties
  <1>4. Len(s) \in Nat \ {0} /\ DOMAIN s = 1 .. Len(s) /\ DOMAIN t = 1 .. Len(t)
    BY <1>1, <1>2, <1>3, EmptySeq
  <1>5. log' = [log EXCEPT ![a] = t]
    BY <1>2
  <1>6. log'[a] = t /\ log' \in [Artifacts -> Seq(Content)]
        /\ \A b \in Artifacts : b # a => log'[b] = log[b]
    BY <1>1, <1>3, <1>5
  <1>7. t # <<>>
    BY <1>3, <1>4, EmptySeq
  <1>8. \A b \in Artifacts : log'[b] # <<>>
    BY <1>6, <1>7 DEF TypeInv
  <1> QED BY <1>2, <1>3, <1>4, <1>6, <1>8

\* A content that is logged is one of the log, at its version; what was there stays.
LEMMA LoggedIs ==
    ASSUME TypeInv, NEW a \in Artifacts, NEW c \in Content, log' = Logged(a, c)
    PROVE  /\ log' \in [Artifacts -> Seq(Content)]
           /\ \A b \in Artifacts : log'[b] # <<>>
           /\ \A b \in Artifacts : b # a => log'[b] = log[b]
           /\ \A i \in DOMAIN log[a] : i \in DOMAIN log'[a] /\ log'[a][i] = log[a][i]
           /\ \A i \in DOMAIN log'[a] :
                i \in DOMAIN log[a] \/ (i = Len(log'[a]) /\ log'[a][i] = c)
           /\ Version(a, c) \in DOMAIN log'[a] /\ log'[a][Version(a, c)] = c
           /\ ~(Version(a, c) < Len(log[a])) => Version(a, c) = Len(log'[a])
           /\ (\E i \in DOMAIN log[a] : log[a][i] = c) => log' = log
           /\ (\A i \in DOMAIN log[a] : log[a][i] # c) =>
                DOMAIN log'[a] = DOMAIN log[a] \cup {Len(log'[a])}
           /\ Len(log'[a]) \in Nat \ {0} /\ DOMAIN log'[a] = 1 .. Len(log'[a])
  <1> DEFINE known == \E i \in DOMAIN log[a] : log[a][i] = c
  <1>1. PICK v : v = Version(a, c)
    OBVIOUS
  <1>2. log' = IF v \in DOMAIN log[a] THEN log ELSE [log EXCEPT ![a] = Append(@, c)]
    BY <1>1 DEF Logged
  <1>3. /\ log \in [Artifacts -> Seq(Content)] /\ log[a] \in Seq(Content)
        /\ Len(log[a]) \in Nat \ {0} /\ DOMAIN log[a] = 1 .. Len(log[a])
        /\ \A b \in Artifacts : log[b] # <<>>
    BY EmptySeq DEF TypeInv
  <1>4. CASE known
    <2>1. v \in DOMAIN log[a] /\ log[a][v] = c
      BY <1>1, <1>4 DEF Version
    <2>2. log' = log
      BY <1>2, <2>1
    <2>3. ~(v < Len(log[a])) => v = Len(log'[a])
      <3>1. v \in 1 .. Len(log[a]) /\ Len(log[a]) \in Nat
        BY <1>3, <2>1
      <3> QED BY <2>2, <3>1
    <2> QED BY <1>1, <1>3, <1>4, <2>1, <2>2, <2>3
  <1>5. CASE ~known
    <2>1. v = Len(log[a]) + 1
      BY <1>1, <1>5 DEF Version
    <2>2. v \notin DOMAIN log[a]
      BY <1>3, <2>1
    <2>3. log' = [log EXCEPT ![a] = Append(@, c)]
      BY <1>2, <2>2
    <2>4. /\ log' \in [Artifacts -> Seq(Content)]
          /\ \A b \in Artifacts : b # a => log'[b] = log[b]
          /\ Len(log'[a]) = Len(log[a]) + 1 /\ DOMAIN log'[a] = 1 .. Len(log[a]) + 1
          /\ log'[a][Len(log[a]) + 1] = c
          /\ \A i \in DOMAIN log[a] : log'[a][i] = log[a][i]
          /\ \A b \in Artifacts : log'[b] # <<>>
      BY <2>3, LogExtends
    <2>5. DOMAIN log'[a] = DOMAIN log[a] \cup {Len(log'[a])}
      BY <1>3, <2>4
    <2>6. Len(log'[a]) \in Nat \ {0} /\ v \in DOMAIN log'[a] /\ DOMAIN log[a] \subseteq DOMAIN log'[a]
      BY <1>3, <2>1, <2>4
    <2> QED BY <1>1, <1>5, <2>1, <2>4, <2>5, <2>6
  <1> QED BY <1>4, <1>5

\* So is one that is kept, and it is the last one unless an old content came again.
LEMMA Kept ==
    ASSUME TypeInv, NEW a \in Artifacts, NEW c \in Content, Keep(a, c)
    PROVE  /\ log' = Logged(a, c)
           /\ ~spoiled' => ~spoiled /\ Version(a, c) = Len(log'[a])
  <1>1. log' = Logged(a, c) /\ spoiled' = (spoiled \/ Version(a, c) < Len(log[a]))
    BY DEF Keep
  <1> QED BY <1>1, LoggedIs

-----------------------------------------------------------------------------
(***************************************************************************)
(* Each step keeps the types.                                              *)
(***************************************************************************)

\* A reference to an artifact leads to one of its snapshots.
LEMMA ArtifactRef ==
    ASSUME TypeInv, NEW r \in AllRefs, r.art \in Artifacts
    PROVE  /\ r.ver \in DOMAIN log[r.art] /\ r = Ref(r.art, r.ver)
           /\ Snapshot(r) \in Content /\ ContentOK(r.art, Snapshot(r))
  <1>1. Exists(r)
    BY AllRefsAre
  <1>2. r.ver \in DOMAIN log[r.art] /\ r = Ref(r.art, r.ver)
    BY <1>1, RefreshAssumption DEF Exists, Ref
  <1>3. Snapshot(r) \in Content
    BY <1>2 DEF TypeInv, Snapshot
  <1>4. ContentOK(r.art, Snapshot(r))
    BY <1>2 DEF TypeInv, Snapshot
  <1> QED BY <1>2, <1>3, <1>4

\* The latest version of an artifact is one.
LEMMA LatestIs ==
    ASSUME TypeInv, NEW a \in Artifacts
    PROVE  /\ Latest(a) \in AllRefs /\ Latest(a) \in AnyRef
           /\ Latest(a).art = a /\ Latest(a).ver \in DOMAIN log[a]
           /\ Len(log[a]) \in Nat \ {0} /\ DOMAIN log[a] = 1 .. Len(log[a])
           /\ Snapshot(Latest(a)) = Newest(a) /\ Newest(a) \in Content
  <1>1. log[a] \in Seq(Content) /\ log[a] # <<>>
    BY DEF TypeInv
  <1>2. Len(log[a]) \in Nat \ {0} /\ DOMAIN log[a] = 1 .. Len(log[a])
    BY <1>1, EmptySeq
  <1>3. Latest(a).art = a /\ Latest(a).ver = Len(log[a])
    BY DEF Latest, Ref
  <1>4. Len(log[a]) \in DOMAIN log[a]
    BY <1>2
  <1>5. Latest(a) \in AllRefs
    BY <1>4, AllRefsAre DEF Exists, Latest
  <1>6. Latest(a) \in AnyRef
    BY <1>5, RefsTyped
  <1>7. Newest(a) \in Content
    BY <1>1, <1>4 DEF Newest
  <1>8. Snapshot(Latest(a)) = Newest(a)
    BY <1>3 DEF Snapshot, Newest
  <1> QED BY <1>2, <1>3, <1>4, <1>5, <1>6, <1>7, <1>8

\* A step that publishes nothing.
LEMMA TreeStays ==
    ASSUME TypeInv, UNCHANGED tree
    PROVE  /\ Grows /\ AllRefs' = AllRefs
           /\ recipe' \in [Notebooks -> Seq(Recipe)] /\ log' \in [Artifacts -> Seq(Content)]
           /\ \A n \in Notebooks : recipe'[n] # <<>>
           /\ \A a \in Artifacts : log'[a] # <<>>
           /\ \A a \in Artifacts : \A i \in DOMAIN log'[a] : i \in DOMAIN log[a]
           /\ \A v : ValueOK(v) => ValueOK(v)'
  <1>1. recipe' = recipe /\ log' = log
    BY DEF tree
  <1>2. AllRefs' = AllRefs
    BY <1>1 DEF AllRefs, Refs
  <1>3. Grows
    BY <1>1 DEF Grows
  <1> QED BY <1>1, <1>2, <1>3, OldStays DEF TypeInv

\* The innermost frame is one, and so is what the step makes of it.
LEMMA TopTyped ==
    ASSUME TypeInv, stack # <<>>
    PROVE  Top \in WalkFrame /\ FrameOK(Top)
  <1>1. Len(stack) \in DOMAIN stack
    BY StackTop DEF TypeInv
  <1> QED BY <1>1, StackTop DEF TypeInv, Top

\* A step that stays in a walk replaces its top frame by a typed one.
LEMMA StayTyped ==
    ASSUME TypeInv, stack # <<>>, NEW g \in WalkFrame, Stay(g), FrameOK(g)',
           g.ref.art = Top.ref.art
    PROVE  /\ stack' \in Seq(WalkFrame) /\ Chained(stack')
           /\ \A i \in DOMAIN stack' :
                (\E j \in DOMAIN stack : stack'[i] = stack[j]) \/ FrameOK(stack[i])'
  <1>1. /\ stack' \in Seq(WalkFrame) /\ Len(stack') = Len(stack)
        /\ stack'[Len(stack)] = g
        /\ \A i \in 1 .. Len(stack) - 1 : stack'[i] = stack[i]
        /\ Len(stack) \in Nat \ {0} /\ stack \in Seq(WalkFrame)
    BY StackStays, StackTop DEF TypeInv
  <1>2. ASSUME NEW i \in DOMAIN stack'
        PROVE  (\E j \in DOMAIN stack : stack'[i] = stack[j]) \/ FrameOK(stack[i])'
    <2>1. i \in 1 .. Len(stack)
      BY <1>1
    <2>2. CASE i = Len(stack)
      BY <1>1, <2>2
    <2>3. CASE i # Len(stack)
      <3>1. i \in 1 .. Len(stack) - 1 /\ i \in DOMAIN stack
        BY <1>1, <2>1, <2>3
      <3> QED BY <1>1, <3>1
    <2> QED BY <2>2, <2>3
  <1>3. ASSUME NEW i \in 1 .. Len(stack) PROVE stack'[i].ref.art = stack[i].ref.art
    <2>1. CASE i = Len(stack)
      BY <1>1, <2>1 DEF Top
    <2>2. CASE i # Len(stack)
      <3>1. i \in 1 .. Len(stack) - 1
        BY <1>1, <2>2
      <3> QED BY <1>1, <3>1
    <2> QED BY <2>1, <2>2
  <1>4. Chained(stack')
    <2> SUFFICES ASSUME NEW i \in DOMAIN stack', i > 1
                 PROVE  stack'[i].ref.art \in Uses[stack'[i - 1].ref.art]
      BY DEF Chained
    <2>1. i \in 1 .. Len(stack) /\ i - 1 \in 1 .. Len(stack) /\ i \in DOMAIN stack
      BY <1>1
    <2>2. stack[i].ref.art \in Uses[stack[i - 1].ref.art]
      BY <2>1 DEF TypeInv, Chained
    <2> QED BY <1>3, <2>1, <2>2
  <1> QED BY <1>1, <1>2, <1>4

\* What a step of the walk that publishes nothing has to answer for.
LEMMA WalkTyped ==
    ASSUME TypeInv, stack # <<>>, NEW g \in WalkFrame, Stay(g), FrameOK(g)',
           g.ref.art = Top.ref.art,
           UNCHANGED <<world, tree>>, events' \in {events, events + 1},
           outcome' = outcome, cache' \in Data \cup {None},
           kernel' \in [Names -> AnyValue \cup {None}],
           \A n \in Names : kernel'[n] = kernel[n] \/ ValueOK(kernel[n])'
    PROVE  TypeInv'
  <1>1. /\ world' \in Data /\ events' \in Nat
        /\ Grows
        /\ recipe' \in [Notebooks -> Seq(Recipe)] /\ log' \in [Artifacts -> Seq(Content)]
        /\ \A n \in Notebooks : recipe'[n] # <<>>
        /\ \A a \in Artifacts : log'[a] # <<>>
        /\ \A a \in Artifacts : \A i \in DOMAIN log'[a] : i \in DOMAIN log[a]
    BY TreeStays DEF TypeInv
  <1>2. /\ stack' \in Seq(WalkFrame) /\ Chained(stack')
        /\ \A i \in DOMAIN stack' :
             (\E j \in DOMAIN stack : stack'[i] = stack[j]) \/ FrameOK(stack[i])'
    BY StayTyped
  <1> QED BY <1>1, <1>2, TypesGrow

\* The walk is over, without a publication.
LEMMA RefuseTyped ==
    ASSUME TypeInv, Refuse
    PROVE  TypeInv'
  <1>1. /\ UNCHANGED <<world, cache, kernel, tree, events>>
        /\ stack' = <<>> /\ outcome' = Refused
    BY DEF Refuse, still, tree
  <1>2. /\ world' \in Data /\ events' \in Nat /\ cache' \in Data \cup {None}
        /\ kernel' \in [Names -> AnyValue \cup {None}]
        /\ \A n \in Names : kernel'[n] = kernel[n]
    BY <1>1 DEF TypeInv
  <1>3. stack' \in Seq(WalkFrame) /\ DOMAIN stack' = {}
    BY <1>1
  <1>4. Chained(stack')
    BY <1>3 DEF Chained
  <1> QED BY <1>1, <1>2, <1>3, <1>4, TreeStays, TypesGrow

\* A refresh begins: the frame of its root is typed.
LEMMA BeginTyped ==
    ASSUME TypeInv, NEW a \in Artifacts, Begin(a)
    PROVE  TypeInv'
  <1>1. /\ UNCHANGED <<world, cache, kernel, tree, events>>
        /\ stack' = <<Frame(Latest(a))>> /\ outcome' = None
    BY DEF Begin
  <1>2. /\ world' \in Data /\ events' \in Nat /\ cache' \in Data \cup {None}
        /\ kernel' \in [Names -> AnyValue \cup {None}]
        /\ \A n \in Names : kernel'[n] = kernel[n]
    BY <1>1 DEF TypeInv
  <1>3. PICK g : g = Frame(Latest(a))
    OBVIOUS
  <1>4. g \in WalkFrame
    BY <1>3, LatestIs DEF Frame, WalkFrame
  <1>5. FrameOK(g)'
    <2>1. AllRefs' = AllRefs
      BY <1>1, TreeStays
    <2>2. Latest(a) \in AllRefs /\ Latest(a).art = a
      BY LatestIs
    <2> QED BY <1>3, <2>1, <2>2 DEF Frame, FrameOK, ValueOK
  <1>6. /\ stack' \in Seq(WalkFrame) /\ DOMAIN stack' = {1}
        /\ \A i \in DOMAIN stack' : stack'[i] = g
    BY <1>1, <1>3, <1>4
  <1>7. \A i \in DOMAIN stack' : FrameOK(stack[i])'
    BY <1>5, <1>6
  <1>8. Chained(stack')
    BY <1>6 DEF Chained
  <1> QED BY <1>1, <1>2, <1>6, <1>7, <1>8, TreeStays, TypesGrow

\* The latest snapshot is read.
LEMMA ReadTyped ==
    ASSUME TypeInv, ReadSnapshot
    PROVE  TypeInv'
  <1>1. PICK g : g = [Top EXCEPT !.step = "walk",
                         !.todo = {x \in Snapshot(Top.ref).cites : x.art \in Derived}]
    OBVIOUS
  <1>2. /\ stack # <<>> /\ Stay(g) /\ Top.step = "read"
        /\ UNCHANGED <<world, cache, kernel, tree, events, outcome>>
    BY <1>1 DEF ReadSnapshot, At, still, tree
  <1>3. Top \in WalkFrame /\ FrameOK(Top)
    BY <1>2, TopTyped
  <1>4. Snapshot(Top.ref) \in Content /\ ContentOK(Top.ref.art, Snapshot(Top.ref))
    BY <1>3, ArtifactRef DEF FrameOK
  <1>5. Snapshot(Top.ref).cites \subseteq AnyRef \cap AllRefs
    BY <1>4 DEF Content, ContentOK, IsContent
  <1>6. \A x \in Snapshot(Top.ref).cites : x.art \in Derived => x.art \in Uses[Top.ref.art]
    <2> SUFFICES ASSUME NEW x \in Snapshot(Top.ref).cites, x.art \in Derived
                 PROVE  x.art \in Uses[Top.ref.art]
      OBVIOUS
    <2>1. x.art \in CitableArts(Top.ref.art)
      BY <1>4 DEF ContentOK
    <2>2. Top.ref.art \in Derived => Notebook[Top.ref.art] \in Notebooks
      BY DEF Notebooks
    <2> QED BY <2>1, <2>2, RefreshAssumption DEF CitableArts, Artifacts
  <1>7. g \in WalkFrame
    BY <1>1, <1>3, <1>5 DEF WalkFrame
  <1>8. FrameOK(g)' /\ g.ref.art = Top.ref.art
    <2>1. AllRefs' = AllRefs /\ \A v : ValueOK(v) => ValueOK(v)'
      BY <1>2, TreeStays
    <2>2. /\ g.ref = Top.ref /\ g.fresh = Top.fresh /\ g.objects = Top.objects
          /\ g.step = "walk" /\ g.value = Top.value
          /\ g.todo = {x \in Snapshot(Top.ref).cites : x.art \in Derived}
      BY <1>1, <1>3 DEF WalkFrame
    <2>3. PICK v : v = Top.value
      OBVIOUS
    <2>4. ValueOK(v)'
      BY <1>3, <2>1, <2>3 DEF FrameOK
    <2> QED BY <1>3, <1>5, <1>6, <2>1, <2>2, <2>3, <2>4 DEF FrameOK
  <1>9. /\ cache' \in Data \cup {None} /\ kernel' \in [Names -> AnyValue \cup {None}]
        /\ \A n \in Names : kernel'[n] = kernel[n]
    BY <1>2 DEF TypeInv
  <1> QED BY <1>2, <1>7, <1>8, <1>9, WalkTyped

\* The walk goes down to the next source.
LEMMA DescendTyped ==
    ASSUME TypeInv, Descend
    PROVE  TypeInv'
  <1>1. PICK x \in Top.todo :
          stack' = Append(Append(Below, [Top EXCEPT !.todo = @ \ {x}]), Frame(x))
    BY DEF Descend
  <1>2. /\ stack # <<>> /\ Top.step = "walk"
        /\ UNCHANGED <<world, cache, kernel, tree, events, outcome>>
    BY DEF Descend, At, still, tree
  <1>3. PICK f, g : f = [Top EXCEPT !.todo = @ \ {x}] /\ g = Frame(x)
    OBVIOUS
  <1>4. Top \in WalkFrame /\ FrameOK(Top)
    BY <1>2, TopTyped
  <1>5. x \in AnyRef /\ x \in AllRefs /\ x.art \in Artifacts /\ x.art \in Uses[Top.ref.art]
    BY <1>4, RefsTyped, RefreshAssumption DEF FrameOK, Artifacts
  <1>6. f \in WalkFrame /\ g \in WalkFrame
    BY <1>3, <1>4, <1>5 DEF WalkFrame, Frame
  <1>7. AllRefs' = AllRefs /\ \A v : ValueOK(v) => ValueOK(v)'
    BY <1>2, TreeStays
  <1>8. FrameOK(f)'
    <2>1. /\ f.ref = Top.ref /\ f.fresh = Top.fresh /\ f.objects = Top.objects
          /\ f.step = "walk" /\ f.value = Top.value /\ f.todo \subseteq Top.todo
      BY <1>2, <1>3, <1>4 DEF WalkFrame
    <2>2. PICK v : v = Top.value
      OBVIOUS
    <2>3. ValueOK(v)'
      BY <1>4, <1>7, <2>2 DEF FrameOK
    <2> QED BY <1>4, <1>7, <2>1, <2>2, <2>3 DEF FrameOK
  <1>9. FrameOK(g)'
    <2>1. /\ g.ref = x /\ g.todo = {} /\ g.fresh = {} /\ g.objects = {}
          /\ g.step = "read" /\ g.value = None
      BY <1>3 DEF Frame
    <2> QED BY <1>5, <1>7, <2>1 DEF FrameOK, ValueOK
  <1>10. /\ stack' \in Seq(WalkFrame) /\ Len(stack') = Len(stack) + 1
         /\ stack'[Len(stack)] = f /\ stack'[Len(stack) + 1] = g
         /\ \A i \in 1 .. Len(stack) - 1 : stack'[i] = stack[i]
         /\ stack \in Seq(WalkFrame) /\ Len(stack) \in Nat \ {0}
    <2>1. stack' = Append(Append(Below, f), g) /\ stack \in Seq(WalkFrame)
      BY <1>1, <1>3 DEF TypeInv
    <2> QED BY <1>2, <1>6, <2>1, StackGrows, StackTop
  <1>11. ASSUME NEW i \in DOMAIN stack'
         PROVE  (\E j \in DOMAIN stack : stack'[i] = stack[j]) \/ FrameOK(stack[i])'
    <2>1. i \in 1 .. Len(stack) + 1
      BY <1>10
    <2>2. CASE i = Len(stack) + 1
      BY <1>9, <1>10, <2>2
    <2>3. CASE i = Len(stack)
      BY <1>8, <1>10, <2>3
    <2>4. CASE i \notin {Len(stack), Len(stack) + 1}
      <3>1. i \in 1 .. Len(stack) - 1 /\ i \in DOMAIN stack
        BY <1>10, <2>1, <2>4
      <3> QED BY <1>10, <3>1
    <2> QED BY <2>2, <2>3, <2>4
  <1>12. Chained(stack')
    <2>1. f.ref.art = Top.ref.art /\ g.ref.art = x.art
      BY <1>3, <1>4 DEF WalkFrame, Frame
    <2>2. ASSUME NEW i \in 1 .. Len(stack) PROVE stack'[i].ref.art = stack[i].ref.art
      <3>1. CASE i = Len(stack)
        BY <1>10, <2>1, <3>1 DEF Top
      <3>2. CASE i # Len(stack)
        <4>1. i \in 1 .. Len(stack) - 1
          BY <1>10, <3>2
        <4> QED BY <1>10, <4>1
      <3> QED BY <3>1, <3>2
    <2> SUFFICES ASSUME NEW i \in DOMAIN stack', i > 1
                 PROVE  stack'[i].ref.art \in Uses[stack'[i - 1].ref.art]
      BY DEF Chained
    <2>3. i \in 1 .. Len(stack) + 1 /\ i - 1 \in 1 .. Len(stack)
      BY <1>10
    <2>4. CASE i = Len(stack) + 1
      <3>1. i - 1 = Len(stack) /\ Len(stack) \in 1 .. Len(stack)
        BY <1>10, <2>4
      <3> QED BY <1>5, <1>10, <2>1, <2>4, <3>1
    <2>5. CASE i # Len(stack) + 1
      <3>1. i \in 1 .. Len(stack) /\ i \in DOMAIN stack
        BY <1>10, <2>3, <2>5
      <3>2. stack[i].ref.art \in Uses[stack[i - 1].ref.art]
        BY <3>1 DEF TypeInv, Chained
      <3> QED BY <2>2, <2>3, <3>1, <3>2
    <2> QED BY <2>4, <2>5
  <1>13. /\ world' \in Data /\ events' \in Nat /\ cache' \in Data \cup {None}
         /\ kernel' \in [Names -> AnyValue \cup {None}]
         /\ \A n \in Names : kernel'[n] = kernel[n]
    BY <1>2 DEF TypeInv
  <1> QED BY <1>2, <1>10, <1>11, <1>12, <1>13, TreeStays, TypesGrow

\* The latest code of a notebook is one of its recipes.
LEMMA CodeIs ==
    ASSUME TypeInv, NEW n \in Notebooks
    PROVE  /\ Len(recipe[n]) \in DOMAIN recipe[n] /\ Len(recipe[n]) \in Nat
           /\ LatestRecipe(n) \in Recipe /\ LatestRecipe(n) = recipe[n][Len(recipe[n])]
           /\ Code(n) \in AnyRef \cap AllRefs /\ Code(n) # None /\ Code(n).art = n
  <1>1. recipe[n] \in Seq(Recipe) /\ recipe[n] # <<>>
    BY DEF TypeInv
  <1>2. Len(recipe[n]) \in Nat \ {0} /\ DOMAIN recipe[n] = 1 .. Len(recipe[n])
    BY <1>1, EmptySeq
  <1>3. Len(recipe[n]) \in DOMAIN recipe[n]
    BY <1>2
  <1>4. LatestRecipe(n) \in Recipe
    BY <1>1, <1>3 DEF LatestRecipe
  <1>5. Code(n) \in AllRefs /\ Code(n).art = n
    BY <1>3, AllRefsAre DEF Code, Exists, Ref
  <1> QED BY <1>2, <1>3, <1>4, <1>5, RefsTyped DEF LatestRecipe

\* What a notebook computes from the latest versions is a value of what there is.
LEMMA ComputedTyped ==
    ASSUME TypeInv, NEW n \in Notebooks
    PROVE  /\ Answer \in Data
           /\ Fetched(n) \subseteq AnyRef \cap AllRefs
           /\ \A x \in Fetched(n) : x.art = Source
           /\ LatestRecipe(n).loads \subseteq Artifacts
           /\ Inputs(n) \subseteq AnyRef \cap AllRefs
           /\ {x.art : x \in Inputs(n)} = Wants(LatestRecipe(n))
           /\ Value(Code(n), Inputs(n)) \in AnyValue
           /\ ValueOK(Value(Code(n), Inputs(n)))
  <1>1. Answer \in Data
    BY DEF Answer, TypeInv
  <1>2. Ref(Source, Answer) \in AnyRef \cap AllRefs /\ Ref(Source, Answer).art = Source
    <2>1. Ref(Source, Answer) \in AllRefs
      BY <1>1, AllRefsAre DEF Exists
    <2> QED BY <2>1, RefsTyped DEF Ref
  <1>3. Fetched(n) \subseteq AnyRef \cap AllRefs /\ \A x \in Fetched(n) : x.art = Source
    BY <1>2 DEF Fetched
  <1>4. LatestRecipe(n).loads \subseteq Artifacts
    BY CodeIs DEF Recipe, Artifacts, Derived
  <1>5. \A x \in LatestRecipe(n).loads :
          Latest(x) \in AnyRef \cap AllRefs /\ Latest(x).art = x
    BY <1>4, LatestIs
  <1>6. Inputs(n) \subseteq AnyRef \cap AllRefs
    BY <1>3, <1>5 DEF Inputs
  <1>7. {x.art : x \in Inputs(n)} = Wants(LatestRecipe(n))
    <2>1. Inputs(n) = {Latest(x) : x \in LatestRecipe(n).loads}
                        \cup IF LatestRecipe(n).fetches THEN {Ref(Source, Answer)} ELSE {}
      BY DEF Inputs, Fetched
    <2> QED BY <1>2, <1>5, <2>1 DEF Wants
  <1>8. PICK v : v = Value(Code(n), Inputs(n))
    OBVIOUS
  <1>9. v \in AnyValue /\ v.code = Code(n) /\ v.inputs = Inputs(n)
    BY <1>6, <1>8, CodeIs DEF Value, AnyValue
  <1>10. ValueOK(v)
    <2>1. Computed(v)
      BY <1>7, <1>9, CodeIs DEF Computed, Code
    <2> QED BY <1>6, <1>9, <2>1, CodeIs DEF ValueOK, IsValue
  <1> QED BY <1>1, <1>3, <1>4, <1>6, <1>7, <1>8, <1>9, <1>10

\* A run binds its variables to such a value.
LEMMA ExecuteTyped ==
    ASSUME TypeInv, NEW n \in Notebooks, Execute(n)
    PROVE  /\ cache' \in Data \cup {None} /\ kernel' \in [Names -> AnyValue \cup {None}]
           /\ \A m \in Names : kernel'[m] = kernel[m] \/ kernel'[m] = Value(Code(n), Inputs(n))
  <1>1. PICK v, d : v = Value(Code(n), Inputs(n)) /\ d = Answer
    OBVIOUS
  <1>2. v \in AnyValue /\ d \in Data
    BY <1>1, ComputedTyped
  <1>3. /\ cache' = d \/ cache' = cache
        /\ kernel' = [m \in Names |->
                        IF \E a \in Derived : Notebook[a] = n /\ Variable[a] = m
                        THEN v ELSE kernel[m]]
    BY <1>1 DEF Execute
  <1>4. \A m \in Names : kernel[m] \in AnyValue \cup {None}
    BY DEF TypeInv
  <1> QED BY <1>1, <1>2, <1>3, <1>4 DEF TypeInv

\* The notebook is run.
LEMMA RunTyped ==
    ASSUME TypeInv, RunNotebook
    PROVE  TypeInv'
  <1>1. PICK a, n, g :
          /\ a = Top.ref.art /\ n = Notebook[a]
          /\ g = [Top EXCEPT !.step = "get", !.code = Code(n), !.objects = Fetched(n)]
    OBVIOUS
  <1>2. /\ stack # <<>> /\ a \in Derived /\ Top.todo = {}
        /\ Execute(n) /\ Stay(g)
        /\ UNCHANGED <<world, tree, events, outcome>>
    BY <1>1 DEF RunNotebook, At, still, tree
  <1>3. Top \in WalkFrame /\ FrameOK(Top) /\ n \in Notebooks
    BY <1>1, <1>2, TopTyped DEF Notebooks
  <1>4. /\ Code(n) \in AnyRef \cap AllRefs /\ Code(n).art = n
        /\ Fetched(n) \subseteq AnyRef \cap AllRefs /\ \A x \in Fetched(n) : x.art = Source
    BY <1>3, CodeIs, ComputedTyped
  <1>5. g \in WalkFrame
    BY <1>1, <1>3, <1>4 DEF WalkFrame
  <1>6. AllRefs' = AllRefs /\ \A v : ValueOK(v) => ValueOK(v)'
    BY <1>2, TreeStays
  <1>7. FrameOK(g)' /\ g.ref.art = Top.ref.art
    <2>1. /\ g.ref = Top.ref /\ g.fresh = Top.fresh /\ g.objects = Fetched(n)
          /\ g.step = "get" /\ g.value = Top.value /\ g.todo = Top.todo
          /\ g.code = Code(n)
      BY <1>1, <1>3 DEF WalkFrame
    <2>2. PICK v : v = Top.value
      OBVIOUS
    <2>3. ValueOK(v)'
      BY <1>3, <1>6, <2>2 DEF FrameOK
    <2>4. Fetched(n) \subseteq AllRefs' /\ Code(n) \in AllRefs'
      BY <1>4, <1>6
    <2> HIDE <1>6
    <2>5. AllRefs' = AllRefs
      BY <1>6
    <2> QED BY <1>1, <1>2, <1>3, <1>4, <2>1, <2>2, <2>3, <2>4, <2>5 DEF FrameOK
  <1>8. /\ cache' \in Data \cup {None} /\ kernel' \in [Names -> AnyValue \cup {None}]
        /\ \A m \in Names : kernel'[m] = kernel[m] \/ ValueOK(kernel[m])'
    <2>1. PICK v : v = Value(Code(n), Inputs(n))
      OBVIOUS
    <2>2. ValueOK(v)'
      BY <1>3, <1>6, <2>1, ComputedTyped
    <2>3. /\ cache' \in Data \cup {None} /\ kernel' \in [Names -> AnyValue \cup {None}]
          /\ \A m \in Names : kernel'[m] = kernel[m] \/ kernel'[m] = v
      BY <1>2, <1>3, <2>1, ExecuteTyped
    <2> QED BY <2>2, <2>3
  <1> QED BY <1>2, <1>5, <1>7, <1>8, WalkTyped

\* A run that fails binds nothing.
LEMMA RaiseTyped ==
    ASSUME TypeInv, NotebookRaises
    PROVE  TypeInv'
  <1>1. PICK a, n : a = Top.ref.art /\ n = Notebook[a]
    OBVIOUS
  <1>2. PICK objects \in {{}, Fetched(n)} :
          /\ cache' = IF objects = {} THEN cache ELSE Answer
          /\ Stay([Top EXCEPT !.step = "get", !.code = Code(n), !.objects = objects])
    BY <1>1 DEF NotebookRaises
  <1>3. PICK g : g = [Top EXCEPT !.step = "get", !.code = Code(n), !.objects = objects]
    OBVIOUS
  <1>4. /\ stack # <<>> /\ a \in Derived /\ Stay(g)
        /\ UNCHANGED <<world, kernel, tree, outcome>> /\ events' = events + 1
    BY <1>1, <1>2, <1>3 DEF NotebookRaises, At, tree
  <1>5. Top \in WalkFrame /\ FrameOK(Top) /\ n \in Notebooks
    BY <1>1, <1>4, TopTyped DEF Notebooks
  <1>6. /\ Code(n) \in AnyRef \cap AllRefs /\ Code(n).art = n /\ Answer \in Data
        /\ objects \subseteq AnyRef \cap AllRefs /\ \A x \in objects : x.art = Source
    BY <1>2, <1>5, CodeIs, ComputedTyped
  <1>7. g \in WalkFrame
    BY <1>3, <1>5, <1>6 DEF WalkFrame
  <1>8. AllRefs' = AllRefs /\ \A v : ValueOK(v) => ValueOK(v)'
    BY <1>4, TreeStays
  <1>9. FrameOK(g)' /\ g.ref.art = Top.ref.art
    <2>1. /\ g.ref = Top.ref /\ g.fresh = Top.fresh /\ g.objects = objects
          /\ g.step = "get" /\ g.value = Top.value /\ g.todo = Top.todo
          /\ g.code = Code(n)
      BY <1>3, <1>5 DEF WalkFrame
    <2>2. PICK v : v = Top.value
      OBVIOUS
    <2>3. ValueOK(v)'
      BY <1>5, <1>8, <2>2 DEF FrameOK
    <2>4. AllRefs' = AllRefs
      BY <1>8
    <2> QED BY <1>1, <1>4, <1>5, <1>6, <2>1, <2>2, <2>3, <2>4 DEF FrameOK
  <1>10. /\ cache' \in Data \cup {None} /\ kernel' \in [Names -> AnyValue \cup {None}]
         /\ \A m \in Names : kernel'[m] = kernel[m]
    BY <1>2, <1>4, <1>6 DEF TypeInv
  <1> QED BY <1>4, <1>7, <1>9, <1>10, WalkTyped

\* The variable is read, or is missing.
LEMMA GetTyped ==
    ASSUME TypeInv, GetVariable
    PROVE  TypeInv'
  <1>1. PICK found, g :
          found = kernel[Variable[Top.ref.art]]
          /\ g = [Top EXCEPT !.step = "persist", !.value = found]
    OBVIOUS
  <1>2. stack # <<>> /\ Top.step = "get"
    BY DEF GetVariable, At
  <1>3. CASE found = None
    BY <1>1, <1>3, RefuseTyped DEF GetVariable
  <1>4. CASE found # None
    <2>1. /\ Stay(g)
          /\ UNCHANGED <<world, cache, kernel, tree, events, outcome>>
      BY <1>1, <1>4 DEF GetVariable, still, tree
    <2>2. Top \in WalkFrame /\ FrameOK(Top)
      BY <1>2, TopTyped
    <2>3. Variable[Top.ref.art] \in Names
      BY <1>2, <2>2 DEF FrameOK, Names
    <2>4. found \in AnyValue /\ ValueOK(found)
      BY <1>1, <1>4, <2>3 DEF TypeInv
    <2>5. g \in WalkFrame
      BY <1>1, <2>2, <2>4 DEF WalkFrame
    <2>6. AllRefs' = AllRefs /\ ValueOK(found)'
      BY <2>1, <2>4, TreeStays
    <2>7. FrameOK(g)' /\ g.ref.art = Top.ref.art
      <3>1. /\ g.ref = Top.ref /\ g.fresh = Top.fresh /\ g.objects = Top.objects
            /\ g.step = "persist" /\ g.value = found /\ g.todo = Top.todo
            /\ g.code = Top.code
        BY <1>1, <2>2 DEF WalkFrame
      <3> QED BY <1>2, <1>4, <2>2, <2>6, <3>1 DEF FrameOK
    <2>8. /\ cache' \in Data \cup {None} /\ kernel' \in [Names -> AnyValue \cup {None}]
          /\ \A n \in Names : kernel'[n] = kernel[n]
      BY <2>1 DEF TypeInv
    <2> QED BY <1>2, <2>1, <2>5, <2>7, <2>8, WalkTyped
  <1> QED BY <1>3, <1>4

\* What a walk publishes is a snapshot of what there is.
LEMMA RederivedTyped ==
    ASSUME TypeInv, NEW f \in WalkFrame, FrameOK(f),
           f.ref.art \in Derived => f.step = "persist"
    PROVE  Rederived(f) \in Content /\ ContentOK(f.ref.art, Rederived(f))
  <1>1. /\ Snapshot(f.ref) \in Content /\ ContentOK(f.ref.art, Snapshot(f.ref))
        /\ f.ref.art \in Artifacts
    BY ArtifactRef DEF FrameOK
  <1>2. Sources(f) \subseteq AnyRef \cap AllRefs
    BY <1>1 DEF Sources, Content, ContentOK, IsContent, WalkFrame, FrameOK
  <1>3. PICK codes : codes = IF f.ref.art \in Derived THEN {f.code} ELSE {}
    OBVIOUS
  <1>4. codes \subseteq AnyRef \cap AllRefs /\ \A x \in codes : x.art = Notebook[f.ref.art]
    BY <1>3, RefsTyped DEF FrameOK
  <1>5. Rederived(f) = [words |-> Snapshot(f.ref).words, cites |-> Sources(f) \cup codes,
                        value |-> f.value]
    BY <1>3 DEF Rederived
  <1>6. Rederived(f) \in Content
    BY <1>1, <1>2, <1>4, <1>5 DEF Content, WalkFrame
  <1>7. Rederived(f).cites = Sources(f) \cup codes /\ Rederived(f).value = f.value
    BY <1>5
  <1>8. IsContent(Rederived(f)) /\ ValueOK(Rederived(f).value)
    BY <1>2, <1>4, <1>7 DEF IsContent, FrameOK, ValueOK
  <1>9. \A x \in Rederived(f).cites : x.art \in CitableArts(f.ref.art)
    <2>1. \A x \in Sources(f) : x.art \in CitableArts(f.ref.art)
      <3> SUFFICES ASSUME NEW x \in Sources(f) PROVE x.art \in CitableArts(f.ref.art)
        OBVIOUS
      <3>1. x \in f.fresh \/ x \in f.objects \/ x \in Snapshot(f.ref).cites
        BY DEF Sources
      <3>2. CASE x \in f.fresh
        BY <3>2 DEF FrameOK, CitableArts
      <3>3. CASE x \in f.objects
        BY <3>3 DEF FrameOK, CitableArts
      <3>4. CASE x \in Snapshot(f.ref).cites
        BY <1>1, <3>4 DEF ContentOK
      <3> QED BY <3>1, <3>2, <3>3, <3>4
    <2>2. \A x \in codes : x.art \in CitableArts(f.ref.art)
      BY <1>3, <1>4 DEF CitableArts
    <2> QED BY <1>7, <2>1, <2>2
  <1>10. f.ref.art \in Derived <=> Rederived(f).value # None
    BY <1>7 DEF FrameOK
  <1>11. ASSUME NEW u \in Uses[f.ref.art]
         PROVE  \E x \in Rederived(f).cites : x.art = u
    <2>1. PICK y \in Snapshot(f.ref).cites : y.art = u
      BY <1>1 DEF ContentOK
    <2>2. u \notin Notebooks
      BY <1>1, RefreshAssumption DEF Artifacts
    <2>3. y \in Sources(f) \/ \E x \in f.fresh \cup f.objects : x.art = u
      BY <2>1, <2>2 DEF Sources
    <2>4. \E x \in Sources(f) : x.art = u
      BY <2>1, <2>3 DEF Sources
    <2> QED BY <1>7, <2>4
  <1> QED BY <1>6, <1>8, <1>9, <1>10, <1>11 DEF ContentOK

\* Publishing one adds a reference.
LEMMA KeepTyped ==
    ASSUME TypeInv, NEW a \in Artifacts, NEW c \in Content, ContentOK(a, c),
           log' = Logged(a, c), UNCHANGED recipe
    PROVE  /\ Grows
           /\ recipe' \in [Notebooks -> Seq(Recipe)] /\ log' \in [Artifacts -> Seq(Content)]
           /\ \A n \in Notebooks : recipe'[n] # <<>>
           /\ \A b \in Artifacts : log'[b] # <<>>
           /\ \A b \in Artifacts : \A i \in DOMAIN log'[b] :
                i \in DOMAIN log[b] \/ ContentOK(b, log[b][i])'
           /\ Ref(a, Version(a, c)) \in AnyRef /\ Ref(a, Version(a, c)) \in AllRefs'
           /\ \A v : ValueOK(v) => ValueOK(v)'
  <1>1. PICK v : v = Version(a, c)
    OBVIOUS
  <1>2. /\ log' \in [Artifacts -> Seq(Content)]
        /\ \A b \in Artifacts : log'[b] # <<>>
        /\ \A b \in Artifacts : b # a => log'[b] = log[b]
        /\ \A i \in DOMAIN log[a] : i \in DOMAIN log'[a] /\ log'[a][i] = log[a][i]
        /\ \A i \in DOMAIN log'[a] : i \in DOMAIN log[a] \/ log'[a][i] = c
        /\ v \in DOMAIN log'[a]
        /\ DOMAIN log'[a] = 1 .. Len(log'[a]) /\ Len(log'[a]) \in Nat \ {0}
    BY <1>1, LoggedIs
  <1>3. Grows
    BY <1>2 DEF Grows
  <1>4. ContentOK(a, c)'
    BY <1>3, OldStays
  <1>5. \A b \in Artifacts : \A i \in DOMAIN log'[b] :
          i \in DOMAIN log[b] \/ ContentOK(b, log[b][i])'
    <2> SUFFICES ASSUME NEW i \in DOMAIN log'[a], log'[a][i] = c
                 PROVE  ContentOK(a, log[a][i])'
      BY <1>2
    <2> QED BY <1>4
  <1>6. v \in Nat /\ Ref(a, v) \in AnyRef
    <2>1. v \in Nat
      BY <1>2
    <2> QED BY <2>1 DEF Ref, AnyRef
  <1>7. Ref(a, v) \in AllRefs'
    <2>1. Exists(Ref(a, v))'
      BY <1>2 DEF Exists
    <2>2. PICK r : r = Ref(a, v)
      OBVIOUS
    <2>3. Exists(r)'
      BY <2>1, <2>2
    <2>4. r \in AllRefs'
      BY <2>3, AllRefsAre
    <2> QED BY <2>2, <2>4
  <1> QED BY <1>1, <1>2, <1>3, <1>5, <1>6, <1>7, OldStays DEF TypeInv

\* An inner refresh publishes and returns; the outermost one publishes and is
\* over, or is read back by the tool.
LEMMA PersistTyped ==
    ASSUME TypeInv, Persist
    PROVE  TypeInv'
  <1>1. PICK f, a, c, r :
          /\ f = Top /\ a = f.ref.art /\ c = Rederived(f) /\ r = Ref(a, Version(a, c))
    OBVIOUS
  <1>2. /\ stack # <<>>
        /\ \/ f.step = "persist"
           \/ f.ref.art \in Reports
        /\ Keep(a, c)
        /\ UNCHANGED <<world, recipe, events, cache, kernel>>
    BY <1>1 DEF Persist, At, still
  <1>3. f \in WalkFrame /\ FrameOK(f) /\ a \in Artifacts
    BY <1>1, <1>2, TopTyped DEF FrameOK
  <1>4. c \in Content /\ ContentOK(a, c) /\ log' = Logged(a, c)
    <2>1. c \in Content /\ ContentOK(a, c)
      BY <1>1, <1>2, <1>3, RederivedTyped, RefreshAssumption
    <2> QED BY <1>2, <2>1 DEF Keep
  <1>5. /\ Grows
        /\ recipe' \in [Notebooks -> Seq(Recipe)] /\ log' \in [Artifacts -> Seq(Content)]
        /\ \A n \in Notebooks : recipe'[n] # <<>>
        /\ \A b \in Artifacts : log'[b] # <<>>
        /\ \A b \in Artifacts : \A i \in DOMAIN log'[b] :
             i \in DOMAIN log[b] \/ ContentOK(b, log[b][i])'
        /\ r \in AnyRef /\ r \in AllRefs' /\ r.art = a
        /\ \A v : ValueOK(v) => ValueOK(v)'
    <2>1. r.art = a
      BY <1>1 DEF Ref
    <2> QED BY <1>1, <1>2, <1>3, <1>4, <2>1, KeepTyped
  <1>6. /\ world' \in Data /\ events' \in Nat /\ cache' \in Data \cup {None}
        /\ kernel' \in [Names -> AnyValue \cup {None}]
        /\ \A n \in Names : kernel'[n] = kernel[n]
    BY <1>2 DEF TypeInv
  <1>7. /\ stack' \in Seq(WalkFrame) /\ Chained(stack')
        /\ \A i \in DOMAIN stack' :
             (\E j \in DOMAIN stack : stack'[i] = stack[j]) \/ FrameOK(stack[i])'
        /\ outcome' = outcome \/ outcome' \in AllRefs' \cup {None, Refused}
    <2>1. CASE Len(stack) > 1
      <3>1. /\ stack' = [Below EXCEPT ![Len(Below)].fresh =
                           {x \in @ : x.art # r.art} \cup {r}]
            /\ outcome' = outcome
        BY <1>1, <2>1 DEF Persist
      <3>2. PICK k, caller, told :
              /\ k = Len(stack) - 1 /\ caller = stack[Len(stack) - 1]
              /\ told = [caller EXCEPT !.fresh = {x \in caller.fresh : x.art # r.art} \cup {r}]
        OBVIOUS
      <3>3. stack \in Seq(WalkFrame) /\ Len(stack) \in Nat \ {0}
            /\ DOMAIN stack = 1 .. Len(stack)
        BY <1>2, StackTop DEF TypeInv
      <3>4. /\ stack' \in Seq(WalkFrame) /\ Len(stack') = k /\ stack'[k] = told
            /\ \A i \in 1 .. Len(stack) - 2 : stack'[i] = stack[i]
        BY <1>5, <2>1, <3>1, <3>2, <3>3, StackShrinks
      <3>5. k \in DOMAIN stack /\ k \in Nat \ {0}
        BY <2>1, <3>2, <3>3
      <3>6. caller \in WalkFrame /\ FrameOK(caller)
        <4>1. caller = stack[k]
          BY <3>2
        <4> QED BY <3>3, <3>5, <4>1 DEF TypeInv
      <3>7. FrameOK(caller)'
        BY <1>5, <3>6, OldStays
      <3>8. a \in Uses[caller.ref.art]
        <4>1. Len(stack) \in DOMAIN stack
          BY <3>3
        <4>2. stack[Len(stack)].ref.art \in Uses[stack[Len(stack) - 1].ref.art]
          BY <2>1, <4>1 DEF TypeInv, Chained
        <4> QED BY <1>1, <3>2, <4>2 DEF Top
      <3>9. FrameOK(told)' /\ told.ref = caller.ref
        <4>1. /\ told.ref = caller.ref /\ told.todo = caller.todo /\ told.step = caller.step
              /\ told.objects = caller.objects /\ told.code = caller.code
              /\ told.value = caller.value /\ told.fresh \subseteq caller.fresh \cup {r}
          BY <3>2, <3>6 DEF WalkFrame
        <4>2. PICK v : v = caller.value
          OBVIOUS
        <4>3. ValueOK(v)'
          BY <3>7, <4>2 DEF FrameOK
        <4> QED BY <1>5, <3>7, <3>8, <4>1, <4>2, <4>3 DEF FrameOK
      <3>10. ASSUME NEW i \in DOMAIN stack'
             PROVE  /\ (\E j \in DOMAIN stack : stack'[i] = stack[j]) \/ FrameOK(stack[i])'
                    /\ i \in DOMAIN stack /\ stack'[i].ref = stack[i].ref
        <4>1. i \in 1 .. k /\ i \in DOMAIN stack
          BY <3>2, <3>3, <3>4
        <4>2. CASE i = k
          BY <3>2, <3>4, <3>9, <4>1, <4>2
        <4>3. CASE i # k
          <5>1. i \in 1 .. Len(stack) - 2
            BY <3>2, <3>3, <3>5, <4>1, <4>3
          <5> QED BY <3>4, <4>1, <5>1
        <4> QED BY <4>2, <4>3
      <3>11. Chained(stack')
        <4> SUFFICES ASSUME NEW i \in DOMAIN stack', i > 1
                     PROVE  stack'[i].ref.art \in Uses[stack'[i - 1].ref.art]
          BY DEF Chained
        <4>1. i - 1 \in DOMAIN stack'
          BY <3>4, <3>5
        <4>2. i \in DOMAIN stack /\ stack[i].ref.art \in Uses[stack[i - 1].ref.art]
          BY <3>10 DEF TypeInv, Chained
        <4> QED BY <3>10, <4>1, <4>2
      <3> QED BY <3>1, <3>4, <3>10, <3>11
    <2>2. CASE ~(Len(stack) > 1) /\ a \in Derived
      <3>1. PICK g : g = [f EXCEPT !.step = "reread", !.ref = r]
        OBVIOUS
      <3>2. Stay(g) /\ outcome' = outcome
        BY <1>1, <2>2, <3>1 DEF Persist
      <3>3. g \in WalkFrame
        BY <1>3, <1>5, <3>1 DEF WalkFrame
      <3>4. FrameOK(f)'
        BY <1>3, <1>5, OldStays
      <3>5. FrameOK(g)' /\ g.ref.art = Top.ref.art
        <4>1. /\ g.ref = r /\ g.todo = f.todo /\ g.step = "reread" /\ g.fresh = f.fresh
              /\ g.objects = f.objects /\ g.value = f.value
          BY <1>3, <3>1 DEF WalkFrame
        <4>2. PICK v : v = f.value
          OBVIOUS
        <4>3. ValueOK(v)'
          BY <3>4, <4>2 DEF FrameOK
        <4> QED BY <1>1, <1>3, <1>5, <2>2, <3>4, <4>1, <4>2, <4>3 DEF FrameOK
      <3> QED BY <1>2, <3>2, <3>3, <3>5, StayTyped
    <2>3. CASE ~(Len(stack) > 1) /\ a \notin Derived
      <3>1. stack' = <<>> /\ Finish(r)
        BY <1>1, <2>3 DEF Persist
      <3>2. stack' \in Seq(WalkFrame) /\ DOMAIN stack' = {} /\ outcome' = r
        BY <3>1 DEF Finish
      <3> QED BY <1>5, <3>2 DEF Chained
    <2> QED BY <2>1, <2>2, <2>3
  <1> QED BY <1>5, <1>6, <1>7, TypesGrow

\* The tool publishes what it reads back.
LEMMA RereadTyped ==
    ASSUME TypeInv, Reread
    PROVE  TypeInv'
  <1>1. PICK r, a, found, c :
          /\ r = Top.ref /\ a = r.art /\ found = kernel[Variable[a]]
          /\ c = [Snapshot(r) EXCEPT !.value = found]
    OBVIOUS
  <1>2. stack # <<>> /\ Top.step = "reread"
    BY DEF Reread, At
  <1>3. CASE found = None
    BY <1>1, <1>3, RefuseTyped DEF Reread
  <1>4. CASE found # None
    <2>1. /\ stack' = <<>> /\ Keep(a, c) /\ Finish(Ref(a, Version(a, c)))
          /\ UNCHANGED <<world, recipe, events, cache, kernel>>
      BY <1>1, <1>4 DEF Reread, still
    <2>2. Top \in WalkFrame /\ FrameOK(Top)
      BY <1>2, TopTyped
    <2>3. a \in Derived /\ a \in Artifacts /\ Variable[a] \in Names /\ r \in AllRefs
      BY <1>1, <1>2, <2>2 DEF FrameOK, Names
    <2>4. found \in AnyValue /\ ValueOK(found)
      BY <1>1, <1>4, <2>3 DEF TypeInv
    <2>5. Snapshot(r) \in Content /\ ContentOK(a, Snapshot(r))
      BY <1>1, <2>3, ArtifactRef
    <2>6. c \in Content /\ c.cites = Snapshot(r).cites /\ c.value = found
      BY <1>1, <2>4, <2>5 DEF Content
    <2>7. ContentOK(a, c)
      BY <1>4, <2>3, <2>4, <2>5, <2>6 DEF ContentOK, IsContent, ValueOK
    <2>8. /\ Grows
          /\ recipe' \in [Notebooks -> Seq(Recipe)] /\ log' \in [Artifacts -> Seq(Content)]
          /\ \A n \in Notebooks : recipe'[n] # <<>>
          /\ \A b \in Artifacts : log'[b] # <<>>
          /\ \A b \in Artifacts : \A i \in DOMAIN log'[b] :
               i \in DOMAIN log[b] \/ ContentOK(b, log[b][i])'
          /\ Ref(a, Version(a, c)) \in AllRefs'
      <3>1. log' = Logged(a, c)
        BY <2>1 DEF Keep
      <3> QED BY <2>1, <2>3, <2>6, <2>7, <3>1, KeepTyped
    <2>9. /\ world' \in Data /\ events' \in Nat /\ cache' \in Data \cup {None}
          /\ kernel' \in [Names -> AnyValue \cup {None}]
          /\ \A n \in Names : kernel'[n] = kernel[n]
      BY <2>1 DEF TypeInv
    <2>10. stack' \in Seq(WalkFrame) /\ DOMAIN stack' = {} /\ Chained(stack')
      BY <2>1 DEF Chained
    <2>11. outcome' \in AllRefs' \cup {None, Refused}
      BY <2>1, <2>8 DEF Finish
    <2> QED BY <2>8, <2>9, <2>10, <2>11, TypesGrow
  <1> QED BY <1>3, <1>4

\* What happens around the walk leaves its frames alone.
LEMMA AroundTyped ==
    ASSUME TypeInv, Event, Grows,
           world' \in Data, cache' \in Data \cup {None},
           kernel' \in [Names -> AnyValue \cup {None}],
           recipe' \in [Notebooks -> Seq(Recipe)], log' \in [Artifacts -> Seq(Content)],
           \A n \in Notebooks : recipe'[n] # <<>>,
           \A a \in Artifacts : log'[a] # <<>>,
           \A n \in Names : kernel'[n] = kernel[n] \/ ValueOK(kernel[n])',
           \A a \in Artifacts : \A i \in DOMAIN log'[a] :
             i \in DOMAIN log[a] \/ ContentOK(a, log[a][i])'
    PROVE  TypeInv'
  <1>1. stack' = stack /\ outcome' = outcome /\ events' = events + 1
    BY DEF Event
  <1>2. stack' \in Seq(WalkFrame) /\ events' \in Nat /\ Chained(stack')
    BY <1>1 DEF TypeInv
  <1>3. \A i \in DOMAIN stack' : \E j \in DOMAIN stack : stack'[i] = stack[j]
    BY <1>1
  <1> QED BY <1>1, <1>2, <1>3, TypesGrow

\* The source moves.
LEMMA MoveTyped ==
    ASSUME TypeInv, Move
    PROVE  TypeInv'
  <1>1. world' \in Data /\ UNCHANGED <<cache, kernel, tree>> /\ Event
    BY DEF Move
  <1>2. /\ cache' \in Data \cup {None} /\ kernel' \in [Names -> AnyValue \cup {None}]
        /\ \A n \in Names : kernel'[n] = kernel[n]
    BY <1>1 DEF TypeInv
  <1> QED BY <1>1, <1>2, TreeStays, AroundTyped

\* A version of a notebook is added to those it had.
LEMMA RecipeExtends ==
    ASSUME TypeInv, NEW n \in Notebooks, NEW rc \in Recipe,
           recipe' = [recipe EXCEPT ![n] = Append(@, rc)]
    PROVE  /\ recipe' \in [Notebooks -> Seq(Recipe)]
           /\ \A m \in Notebooks : recipe'[m] # <<>>
           /\ \A m \in Notebooks : \A k \in DOMAIN recipe[m] :
                k \in DOMAIN recipe'[m] /\ recipe'[m][k] = recipe[m][k]
  <1>1. recipe \in [Notebooks -> Seq(Recipe)] /\ recipe[n] \in Seq(Recipe)
        /\ \A m \in Notebooks : recipe[m] # <<>>
    BY DEF TypeInv
  <1>2. PICK s, t : s = recipe[n] /\ t = Append(recipe[n], rc)
    OBVIOUS
  <1>3. /\ t \in Seq(Recipe) /\ Len(t) = Len(s) + 1
        /\ \A i \in 1 .. Len(s) : t[i] = s[i]
    BY <1>1, <1>2, AppendProperties
  <1>4. Len(s) \in Nat /\ DOMAIN s = 1 .. Len(s) /\ DOMAIN t = 1 .. Len(t)
    BY <1>1, <1>2, <1>3
  <1>5. \A k \in DOMAIN s : k \in DOMAIN t /\ t[k] = s[k]
    BY <1>3, <1>4
  <1>6. t # <<>>
    BY <1>3, <1>4, EmptySeq
  <1>7. recipe' = [recipe EXCEPT ![n] = t]
    BY <1>2
  <1>8. recipe'[n] = t /\ recipe' \in [Notebooks -> Seq(Recipe)]
        /\ \A m \in Notebooks : m # n => recipe'[m] = recipe[m]
    BY <1>1, <1>3, <1>7
  <1> QED BY <1>1, <1>2, <1>5, <1>6, <1>8

\* Somebody publishes a notebook.
LEMMA EditTyped ==
    ASSUME TypeInv, NEW n \in Notebooks, NEW rc \in Recipe, Edit(n, rc)
    PROVE  TypeInv'
  <1>1. /\ Event /\ UNCHANGED <<world, cache, kernel, log>>
        /\ recipe' = [recipe EXCEPT ![n] = Append(@, rc)]
    BY DEF Edit
  <1>2. /\ recipe' \in [Notebooks -> Seq(Recipe)]
        /\ \A m \in Notebooks : recipe'[m] # <<>>
        /\ \A m \in Notebooks : \A k \in DOMAIN recipe[m] :
             k \in DOMAIN recipe'[m] /\ recipe'[m][k] = recipe[m][k]
    BY <1>1, RecipeExtends
  <1>3. Grows
    BY <1>1, <1>2 DEF Grows
  <1>4. /\ world' \in Data /\ cache' \in Data \cup {None}
        /\ kernel' \in [Names -> AnyValue \cup {None}]
        /\ log' \in [Artifacts -> Seq(Content)]
        /\ \A a \in Artifacts : log'[a] # <<>>
        /\ \A m \in Names : kernel'[m] = kernel[m]
    BY <1>1 DEF TypeInv
  <1> QED BY <1>1, <1>2, <1>3, <1>4, AroundTyped

\* The words somebody publishes under is one.
LEMMA WordsTyped ==
    ASSUME TypeInv, NEW a \in Artifacts
    PROVE  Words(a) \subseteq Nat
  <1>1. Last(log[a]) = Newest(a)
    BY DEF Last, Newest
  <1>2. Newest(a).words \in Nat
    BY LatestIs DEF Content
  <1> QED BY <1>1, <1>2 DEF Words, TypeInv

\* Somebody returns a dataset or a chart.
LEMMA ReturnDerivedTyped ==
    ASSUME TypeInv, NEW a \in Derived, NEW words \in Words(a), ReturnDerived(a, words)
    PROVE  TypeInv'
  <1>1. PICK n, v, c :
          /\ n = Notebook[a] /\ v = Value(Code(n), Inputs(n))
          /\ c = [words |-> words, cites |-> Inputs(n) \cup {Code(n)}, value |-> v]
    OBVIOUS
  <1>2. /\ Event /\ Execute(n) /\ UNCHANGED <<world, recipe>>
        /\ log' = IF LatestRecipe(n) = Initially[n] THEN Logged(a, c) ELSE log
    BY <1>1 DEF ReturnDerived
  <1>3. n \in Notebooks /\ a \in Artifacts /\ words \in Nat
    BY <1>1, WordsTyped DEF Notebooks, Artifacts
  <1>4. /\ Inputs(n) \subseteq AnyRef \cap AllRefs
        /\ {x.art : x \in Inputs(n)} = Wants(LatestRecipe(n))
        /\ v \in AnyValue /\ ValueOK(v)
        /\ Code(n) \in AnyRef \cap AllRefs /\ Code(n).art = n
    BY <1>1, <1>3, CodeIs, ComputedTyped
  <1>5. c \in Content /\ c.cites = Inputs(n) \cup {Code(n)} /\ c.value = v /\ v # None
    BY <1>1, <1>3, <1>4, NoneAssumption DEF Content
  <1>6. ASSUME LatestRecipe(n) = Initially[n]
        PROVE  ContentOK(a, c)
    <2>1. Wants(LatestRecipe(n)) \subseteq Uses[a] \cup {Source}
          /\ Uses[a] \subseteq Wants(LatestRecipe(n))
      BY <1>1, <1>6, RefreshAssumption DEF Wants
    <2>2. \A x \in Inputs(n) : x.art \in Wants(LatestRecipe(n))
      BY <1>4
    <2>3. \A x \in c.cites : x.art \in CitableArts(a)
      BY <1>1, <1>4, <1>5, <2>1, <2>2 DEF CitableArts
    <2>4. \A u \in Uses[a] : \E x \in c.cites : x.art = u
      BY <1>4, <1>5, <2>1
    <2>5. IsContent(c) /\ ValueOK(c.value)
      BY <1>4, <1>5 DEF IsContent, ValueOK
    <2> QED BY <1>5, <2>3, <2>4, <2>5 DEF ContentOK
  <1>7. CASE log' = log
    <2>1. UNCHANGED tree
      BY <1>2, <1>7 DEF tree
    <2>2. /\ cache' \in Data \cup {None} /\ kernel' \in [Names -> AnyValue \cup {None}]
          /\ \A m \in Names : kernel'[m] = kernel[m] \/ kernel'[m] = v
      BY <1>1, <1>2, <1>3, ExecuteTyped
    <2>3. ValueOK(v)' /\ Grows
      BY <1>4, <2>1, TreeStays
    <2>4. world' \in Data
      BY <1>2 DEF TypeInv
    <2> QED BY <1>2, <2>1, <2>2, <2>3, <2>4, TreeStays, AroundTyped
  <1> SUFFICES ASSUME log' # log PROVE TypeInv'
    BY <1>7
  <1>13. log' = Logged(a, c) /\ ContentOK(a, c)
    BY <1>2, <1>6
  <1>8. /\ Grows
        /\ recipe' \in [Notebooks -> Seq(Recipe)] /\ log' \in [Artifacts -> Seq(Content)]
        /\ \A m \in Notebooks : recipe'[m] # <<>>
        /\ \A b \in Artifacts : log'[b] # <<>>
        /\ \A b \in Artifacts : \A i \in DOMAIN log'[b] :
             i \in DOMAIN log[b] \/ ContentOK(b, log[b][i])'
        /\ \A u : ValueOK(u) => ValueOK(u)'
    BY <1>2, <1>3, <1>5, <1>13, KeepTyped
  <1>9. /\ cache' \in Data \cup {None} /\ kernel' \in [Names -> AnyValue \cup {None}]
        /\ \A m \in Names : kernel'[m] = kernel[m] \/ kernel'[m] = v
    BY <1>1, <1>2, <1>3, ExecuteTyped
  <1>10. ValueOK(v)'
    BY <1>4, <1>8
  <1>11. \A m \in Names : kernel'[m] = kernel[m] \/ ValueOK(kernel[m])'
    BY <1>9, <1>10
  <1>12. world' \in Data
    BY <1>2 DEF TypeInv
  <1> QED BY <1>2, <1>8, <1>9, <1>11, <1>12, AroundTyped

\* Somebody returns a report.
LEMMA ReturnReportTyped ==
    ASSUME TypeInv, NEW r \in Reports, NEW words \in Words(r), ReturnReport(r, words)
    PROVE  TypeInv'
  <1>1. PICK c : c = [words |-> words, cites |-> {Latest(x) : x \in Uses[r]}, value |-> None]
    OBVIOUS
  <1>2. /\ Event /\ log' = Logged(r, c) /\ UNCHANGED <<world, cache, kernel, recipe>>
    BY <1>1 DEF ReturnReport
  <1>3. r \in Artifacts /\ r \notin Derived /\ words \in Nat
    BY WordsTyped, RefreshAssumption DEF Artifacts
  <1>4. \A x \in Uses[r] : Latest(x) \in AnyRef \cap AllRefs /\ Latest(x).art = x
    BY <1>3, LatestIs, RefreshAssumption DEF Artifacts
  <1>5. c \in Content /\ c.cites = {Latest(x) : x \in Uses[r]} /\ c.value = None
    BY <1>1, <1>3, <1>4 DEF Content
  <1>6. ContentOK(r, c)
    BY <1>3, <1>4, <1>5 DEF ContentOK, IsContent, ValueOK, CitableArts
  <1>7. /\ Grows
        /\ recipe' \in [Notebooks -> Seq(Recipe)] /\ log' \in [Artifacts -> Seq(Content)]
        /\ \A m \in Notebooks : recipe'[m] # <<>>
        /\ \A b \in Artifacts : log'[b] # <<>>
        /\ \A b \in Artifacts : \A i \in DOMAIN log'[b] :
             i \in DOMAIN log[b] \/ ContentOK(b, log[b][i])'
    BY <1>2, <1>3, <1>5, <1>6, KeepTyped
  <1>8. /\ world' \in Data /\ cache' \in Data \cup {None}
        /\ kernel' \in [Names -> AnyValue \cup {None}]
        /\ \A m \in Names : kernel'[m] = kernel[m]
    BY <1>2 DEF TypeInv
  <1> QED BY <1>2, <1>7, <1>8, AroundTyped

\* The kernel is another one.
LEMMA RestartTyped ==
    ASSUME TypeInv, Restart
    PROVE  TypeInv'
  <1>1. /\ Event /\ UNCHANGED <<world, tree>>
        /\ cache' = None /\ kernel' = [n \in Names |-> None]
    BY DEF Restart
  <1>2. world' \in Data /\ kernel' \in [Names -> AnyValue \cup {None}]
    BY <1>1 DEF TypeInv
  <1>3. \A n \in Names : ValueOK(kernel[n])'
    BY <1>1 DEF ValueOK
  <1> QED BY <1>1, <1>2, <1>3, TreeStays, AroundTyped

\* Another cell binds the variable.
LEMMA IntrudeTyped ==
    ASSUME TypeInv, NEW n \in Names, Intrude(n)
    PROVE  TypeInv'
  <1>1. PICK v : v = Value(None, {})
    OBVIOUS
  <1>2. /\ Event /\ UNCHANGED <<world, cache, tree>>
        /\ kernel' = [kernel EXCEPT ![n] = v]
    BY <1>1 DEF Intrude
  <1>3. v \in AnyValue /\ v.code = None /\ v.inputs = {}
    BY <1>1 DEF Value, AnyValue
  <1>4. ValueOK(v)'
    BY <1>3 DEF ValueOK, IsValue
  <1>5. /\ kernel' \in [Names -> AnyValue \cup {None}]
        /\ \A m \in Names : kernel'[m] = kernel[m] \/ kernel'[m] = v
    BY <1>2, <1>3 DEF TypeInv
  <1>6. \A m \in Names : kernel'[m] = kernel[m] \/ ValueOK(kernel[m])'
    BY <1>4, <1>5
  <1>7. world' \in Data /\ cache' \in Data \cup {None}
    BY <1>2 DEF TypeInv
  <1> QED BY <1>2, <1>5, <1>6, <1>7, TreeStays, AroundTyped

\* The first snapshots cite what was there with them.
LEMMA InitTyped ==
    ASSUME Init
    PROVE  TypeInv
  <1> USE RefreshAssumption
  <1>1. /\ log = [a \in Artifacts |-> <<FirstContent(a)>>]
        /\ recipe = [n \in Notebooks |-> <<Initially[n]>>] /\ First \in Data
    BY DEF Init
  <1>2. /\ recipe \in [Notebooks -> Seq(Recipe)]
        /\ \A n \in Notebooks :
             recipe[n] # <<>> /\ 1 \in DOMAIN recipe[n] /\ recipe[n][1] = Initially[n]
    BY <1>1
  <1>3. \A x \in Artifacts : Ref(x, 1) \in AnyRef \cap AllRefs
    <2>1. \A x \in Artifacts : 1 \in DOMAIN log[x]
      BY <1>1
    <2>2. \A x \in Artifacts : Exists(Ref(x, 1))
      BY <2>1 DEF Exists
    <2> QED BY <2>2, AllRefsAre DEF Ref, AnyRef
  <1>4. Ref(Source, First) \in AnyRef \cap AllRefs
    BY AllRefsAre DEF Exists, Ref, AnyRef
  <1>5. \A n \in Notebooks : Ref(n, 1) \in AnyRef \cap AllRefs
    <2>1. \A n \in Notebooks : Exists(Ref(n, 1))
      BY <1>2 DEF Exists
    <2> QED BY <2>1, AllRefsAre DEF Ref, AnyRef
  <1>6. ASSUME NEW a \in Derived
        PROVE  FirstContent(a) \in Content /\ ContentOK(a, FirstContent(a))
    <2>1. PICK n, rc, inputs, v :
            /\ n = Notebook[a] /\ rc = Initially[n]
            /\ inputs = {Ref(x, 1) : x \in rc.loads}
                          \cup IF rc.fetches THEN {Ref(Source, First)} ELSE {}
            /\ v = Value(Ref(n, 1), inputs)
      OBVIOUS
    <2>2. n \in Notebooks /\ rc \in Recipe /\ rc.loads = Uses[a] /\ rc.loads \subseteq Artifacts
      BY <2>1 DEF Notebooks, Recipe, Artifacts, Derived
    <2>3. FirstContent(a) = [words |-> 0, cites |-> inputs \cup {Ref(n, 1)}, value |-> v]
      BY <2>1 DEF FirstContent
    <2>4. inputs \subseteq AnyRef \cap AllRefs
      BY <1>3, <1>4, <2>1, <2>2
    <2>5. {x.art : x \in inputs} = Wants(rc)
      <3>1. /\ \A x \in rc.loads : Ref(x, 1).art = x
            /\ Ref(Source, First).art = Source
        BY DEF Ref
      <3> QED BY <2>1, <3>1 DEF Wants
    <2>6. v \in AnyValue /\ v.code = Ref(n, 1) /\ v.inputs = inputs /\ v # None
      BY <1>5, <2>1, <2>2, <2>4, NoneAssumption DEF Value, AnyValue
    <2>7. ValueOK(v)
      <3>1. 1 \in DOMAIN recipe[n] /\ recipe[n][1] = rc
        BY <1>2, <2>1, <2>2
      <3>2. Computed(v)
        BY <2>2, <2>5, <2>6, <3>1 DEF Computed
      <3> QED BY <1>5, <2>2, <2>4, <2>6, <3>2 DEF ValueOK, IsValue
    <2>8. FirstContent(a) \in Content
      BY <1>5, <2>2, <2>3, <2>4, <2>6 DEF Content
    <2>9. \A x \in inputs \cup {Ref(n, 1)} : x.art \in CitableArts(a)
      <3>1. \A x \in inputs : x.art \in Wants(rc)
        BY <2>5
      <3> QED BY <2>1, <2>2, <3>1 DEF CitableArts, Wants, Ref
    <2>11. \A u \in Uses[a] : \E x \in inputs : x.art = u
      BY <2>2, <2>5 DEF Wants
    <2>10. ContentOK(a, FirstContent(a))
      <3>1. /\ FirstContent(a).cites = inputs \cup {Ref(n, 1)}
            /\ FirstContent(a).value = v
        BY <2>3
      <3> QED BY <1>5, <2>2, <2>4, <2>6, <2>7, <2>9, <2>11, <3>1 DEF ContentOK, IsContent, ValueOK
    <2> QED BY <2>8, <2>10
  <1>7. ASSUME NEW a \in Artifacts, a \notin Derived
        PROVE  FirstContent(a) \in Content /\ ContentOK(a, FirstContent(a))
    <2>1. FirstContent(a) = [words |-> 0, cites |-> {Ref(x, 1) : x \in Uses[a]}, value |-> None]
      BY <1>7 DEF FirstContent
    <2>2. \A x \in Uses[a] : Ref(x, 1) \in AnyRef \cap AllRefs /\ Ref(x, 1).art = x
      BY <1>3 DEF Artifacts, Ref
    <2> QED BY <1>7, <2>1, <2>2 DEF Content, ContentOK, IsContent, ValueOK, CitableArts
  <1>8. /\ log \in [Artifacts -> Seq(Content)]
        /\ \A a \in Artifacts : log[a] # <<>>
        /\ \A a \in Artifacts : \A i \in DOMAIN log[a] : ContentOK(a, log[a][i])
    <2>1. \A a \in Artifacts : FirstContent(a) \in Content /\ ContentOK(a, FirstContent(a))
      BY <1>6, <1>7
    <2> QED BY <1>1, <2>1
  <1>9. /\ world \in Data /\ cache \in Data \cup {None} /\ events \in Nat
        /\ kernel \in [Names -> AnyValue \cup {None}]
        /\ \A n \in Names : ValueOK(kernel[n])
        /\ stack \in Seq(WalkFrame) /\ DOMAIN stack = {}
        /\ outcome = None
    BY DEF Init, ValueOK
  <1> QED BY <1>2, <1>8, <1>9 DEF TypeInv, Chained

\* No step, and a step of something else.
LEMMA StutterTyped ==
    ASSUME TypeInv, UNCHANGED vars
    PROVE  TypeInv'
  <1>1. /\ UNCHANGED <<world, cache, kernel, tree, events>>
        /\ stack' = stack /\ outcome' = outcome
    BY DEF vars
  <1>2. /\ world' \in Data /\ cache' \in Data \cup {None} /\ events' \in Nat
        /\ kernel' \in [Names -> AnyValue \cup {None}]
        /\ \A n \in Names : kernel'[n] = kernel[n]
        /\ stack' \in Seq(WalkFrame) /\ Chained(stack')
    BY <1>1 DEF TypeInv
  <1>3. \A i \in DOMAIN stack' : \E j \in DOMAIN stack : stack'[i] = stack[j]
    BY <1>1
  <1> QED BY <1>1, <1>2, <1>3, TreeStays, TypesGrow

\* Spec => []TypeInv, one lemma for each action.
THEOREM InductiveTypes == Spec => []TypeInv
  <1>1. Init => TypeInv
    BY InitTyped
  <1>2. TypeInv /\ [Next]_vars => TypeInv'
    <2> SUFFICES ASSUME TypeInv, [Next]_vars PROVE TypeInv'
      OBVIOUS
    <2>1. ASSUME NEW a \in Artifacts, Begin(a) PROVE TypeInv'
      BY <2>1, BeginTyped
    <2>2. CASE Walk
      BY <2>2, ReadTyped, DescendTyped, RunTyped, RaiseTyped, GetTyped, PersistTyped,
         RereadTyped DEF Walk
    <2>3. CASE Move \/ Restart
      BY <2>3, MoveTyped, RestartTyped
    <2>4. ASSUME NEW n \in Notebooks, NEW rc \in Recipe, Edit(n, rc) PROVE TypeInv'
      BY <2>4, EditTyped
    <2>5. ASSUME NEW a \in Derived, NEW words \in Words(a), ReturnDerived(a, words)
          PROVE  TypeInv'
      BY <2>5, ReturnDerivedTyped
    <2>6. ASSUME NEW r \in Reports, NEW words \in Words(r), ReturnReport(r, words)
          PROVE  TypeInv'
      BY <2>6, ReturnReportTyped
    <2>7. ASSUME NEW n \in Names, Intrude(n) PROVE TypeInv'
      BY <2>7, IntrudeTyped
    <2>8. CASE UNCHANGED vars
      BY <2>8, StutterTyped
    <2> QED BY <2>1, <2>2, <2>3, <2>4, <2>5, <2>6, <2>7, <2>8 DEF Next
  <1> QED BY <1>1, <1>2, PTL DEF Spec

\* Every snapshot, every frame of a walk and what it ends with lead to snapshots,
\* recipes and data that exist (TypeOK).
THEOREM RefreshTypes == Spec => []TypeOK
  <1>1. TypeInv => TypeOK
    <2> SUFFICES ASSUME TypeInv PROVE TypeOK
      OBVIOUS
    <2>1. ASSUME NEW i \in DOMAIN stack
          PROVE  /\ stack[i].ref \in AllRefs
                 /\ stack[i].todo \subseteq AllRefs /\ stack[i].fresh \subseteq AllRefs
                 /\ stack[i].step \in {"read", "walk", "get", "persist", "reread"}
      <3>1. stack[i] \in WalkFrame /\ FrameOK(stack[i])
        BY <2>1 DEF TypeInv
      <3> QED BY <3>1 DEF WalkFrame, FrameOK
    <2>2. \A v \in Names : kernel[v] # None => IsValue(kernel[v])
      BY DEF TypeInv, ValueOK
    <2>3. \A a \in Artifacts : \A i \in DOMAIN log[a] : IsContent(log[a][i])
      BY DEF TypeInv, ContentOK
    <2> QED BY <2>1, <2>2, <2>3 DEF TypeInv, TypeOK, IsValue, IsContent
  <1> QED BY <1>1, InductiveTypes, PTL

-----------------------------------------------------------------------------
(***************************************************************************)
(* What is true of a walk that starts from a regular lineage, or follows   *)
(* one that did, as long as no run failed, nobody meddled with it and no   *)
(* old content came back.                                                  *)
(***************************************************************************)

Rank == CHOOSE rank \in [Artifacts -> 1 .. Cardinality(Artifacts)] :
          \A a \in Artifacts : \A x \in Uses[a] : rank[x] < rank[a]

\* What the versions of each artifact that the walk may meet say, and those versions.
Plan == [words : [Artifacts -> Nat], cited : SUBSET AnyRef]

Fits(P, x) ==
    /\ x \in AllRefs /\ x.art \in Artifacts /\ Snapshot(x).words = P.words[x.art]
    /\ x.art \in Derived => Follows(x)
    /\ \A y \in Snapshot(x).cites : y.art \in Derived => y \in P.cited

PlanInv(P) == \A x \in P.cited : Fits(P, x)

\* What a run would compute now, and what would be cited of it.
CitesNow(a) ==
    {Latest(x) : x \in Uses[a]} \cup
      IF a \in Derived THEN Fetched(Notebook[a]) \cup {Code(Notebook[a])} ELSE {}
ValueNow(a) ==
    IF a \in Derived THEN Value(Code(Notebook[a]), Inputs(Notebook[a])) ELSE None

\* What it loads is cited, and what it fetches is in the cache.
Served(a) ==
    a \in Derived =>
      /\ LatestRecipe(Notebook[a]).loads \subseteq Uses[a]
      /\ LatestRecipe(Notebook[a]).fetches => cache # None

UpToDate(P, a) ==
    /\ Newest(a).words = P.words[a]
    /\ Newest(a).cites = CitesNow(a) /\ Newest(a).value = ValueNow(a)
    /\ Served(a)

\* The datasets and charts that the walk has been through.
DoneInv(D, P) == \A x \in D : Uses[x] \subseteq D /\ UpToDate(P, x)

FrameInv(D, P, f) ==
    LET a == f.ref.art
    IN /\ f.step = "read" => f.fresh = {} /\ f.objects = {} /\ f.value = None
       /\ f.step = "walk" => f.objects = {} /\ f.value = None
       /\ f.step # "reread" => f.ref \in P.cited
       /\ f.todo \subseteq P.cited
       /\ \A x \in f.fresh : x.art \in D /\ x = Latest(x.art)
       /\ f.step \in {"get", "persist", "reread"} =>
            kernel[Variable[a]] = ValueNow(a) /\ Served(a) /\ Uses[a] \subseteq D
       /\ f.step \in {"get", "persist"} =>
            /\ f.fresh = {Latest(x) : x \in Uses[a]}
            /\ f.objects = Fetched(Notebook[a]) /\ f.code = Code(Notebook[a])
       /\ f.step = "persist" => f.value = ValueNow(a)

\* Each refresh waits for the one it called, and has the rest before it.
LinkInv(i) ==
    LET f == stack[i]
        a == f.ref.art
    IN /\ i < Len(stack) => f.step = "walk"
       /\ i > 1 => Rank[a] < Rank[origin.art] /\ f.step # "reread"
       /\ f.step = "walk" =>
            Uses[a] \subseteq {x.art : x \in f.fresh} \cup {x.art : x \in f.todo}
              \cup IF i < Len(stack) THEN {stack[i + 1].ref.art} ELSE {}

\* The newest version of a is what a refresh makes of the version r.
ComesFrom(P, a, r) ==
    /\ UpToDate(P, a)
    /\ r.art = a /\ r.ver \in DOMAIN log[a] /\ Snapshot(r).words = P.words[a]
    /\ a \in Derived => (CitesSource(r) => LatestRecipe(Notebook[a]).fetches)
    /\ Newest(a) = Snapshot(r) => Latest(a) = r

RootInv(D, P) ==
    LET f == stack[1]
        a == origin.art
    IN /\ f.ref.art = a /\ origin \in AnyRef
       /\ \A x \in D : Rank[x] < Rank[a]
       /\ f.step # "reread" => f.ref = origin /\ origin = Latest(a)
       /\ f.step = "reread" => f.ref = Latest(a) /\ ComesFrom(P, a, origin)

\* The last walk was one of these, and this one, if there is one, starts again.
Follow == settled # None /\ settled.regular
Again == Follow /\ settled.ref.art = origin.art

SettledInv(D, P) ==
    LET a == settled.ref.art
    IN Follow /\ (stack = <<>> \/ Again) =>
         /\ a \in Artifacts /\ settled.result = Latest(a) /\ ComesFrom(P, a, settled.ref)
         /\ Uses[a] \subseteq D /\ \A x \in D : Rank[x] < Rank[a]
         /\ stack # <<>> => \A x \in P.cited : x.art \in D \cup {a}

WalkInv(D, P) ==
    /\ PlanInv(P) /\ DoneInv(D, P) /\ SettledInv(D, P)
    /\ stack # <<>> => RootInv(D, P)
    /\ \A i \in DOMAIN stack : FrameInv(D, P, stack[i]) /\ LinkInv(i)

Planned == \E D \in SUBSET Derived : \E P \in Plan : WalkInv(D, P)

Sound == ~spoiled /\ (regular \/ Again)

CleanInv ==
    /\ stack # <<>> /\ Again => ~spoiled
    /\ (stack # <<>> => Sound) => Planned

-----------------------------------------------------------------------------
(***************************************************************************)
(* No content is twice in a log.                                           *)
(***************************************************************************)

Distinct ==
    \A a \in Artifacts : \A i, j \in DOMAIN log[a] : log[a][i] = log[a][j] => i = j

\* Publishing looks for it first.
LEMMA DistinctLogged ==
    ASSUME TypeInv, Distinct, NEW a \in Artifacts, NEW c, log' = Logged(a, c)
    PROVE  Distinct'
  <1>1. PICK s, v : s = log[a] /\ v = Version(a, c)
    OBVIOUS
  <1>2. /\ log \in [Artifacts -> Seq(Content)] /\ s \in Seq(Content)
        /\ Len(s) \in Nat /\ DOMAIN s = 1 .. Len(s)
    BY <1>1 DEF TypeInv
  <1>3. log' = IF v \in DOMAIN s THEN log ELSE [log EXCEPT ![a] = Append(@, c)]
    BY <1>1 DEF Logged
  <1>4. CASE \E i \in DOMAIN s : s[i] = c
    <2>1. v \in DOMAIN s
      BY <1>1, <1>4 DEF Version
    <2> QED BY <1>3, <2>1 DEF Distinct
  <1>5. CASE \A i \in DOMAIN s : s[i] # c
    <2>1. v = Len(s) + 1
      BY <1>1, <1>5 DEF Version
    <2>2. PICK t : t = Append(s, c)
      OBVIOUS
    <2>3. log' = [log EXCEPT ![a] = t]
      <3>1. v \notin DOMAIN s
        BY <1>2, <2>1
      <3> QED BY <1>1, <1>3, <2>2, <3>1
    <2>4. log'[a] = t /\ \A b \in Artifacts : b # a => log'[b] = log[b]
      BY <1>2, <2>3
    <2>5. PICK S : S = Content \cup {c}
      OBVIOUS
    <2>6. s \in Seq(S) /\ c \in S
      BY <1>2, <2>5
    <2>7. /\ t \in Seq(S) /\ Len(t) = Len(s) + 1 /\ t[Len(s) + 1] = c
          /\ \A i \in 1 .. Len(s) : t[i] = s[i]
      BY <2>2, <2>6, AppendProperties
    <2>8. DOMAIN t = 1 .. Len(s) + 1
      BY <2>7
    <2>9. \A i \in DOMAIN t : i = Len(s) + 1 \/ i \in DOMAIN s
      BY <1>2, <2>8
    <2>10. ASSUME NEW i \in DOMAIN t, NEW j \in DOMAIN t, t[i] = t[j]
           PROVE  i = j
      <3>1. \A k \in DOMAIN s : t[k] = s[k]
        BY <1>2, <2>7
      <3>2. CASE i \in DOMAIN s /\ j \in DOMAIN s
        BY <1>1, <2>10, <3>1, <3>2 DEF Distinct
      <3>3. CASE i = Len(s) + 1 /\ j \in DOMAIN s
        BY <1>5, <2>7, <2>10, <3>1, <3>3
      <3>4. CASE i \in DOMAIN s /\ j = Len(s) + 1
        BY <1>5, <2>7, <2>10, <3>1, <3>4
      <3> QED BY <2>9, <3>2, <3>3, <3>4
    <2>11. ASSUME NEW b \in Artifacts, NEW i \in DOMAIN log'[b], NEW j \in DOMAIN log'[b],
                  log'[b][i] = log'[b][j]
           PROVE  i = j
      <3>1. CASE b = a
        BY <2>4, <2>10, <2>11, <3>1
      <3>2. CASE b # a
        BY <2>4, <2>11, <3>2 DEF Distinct
      <3> QED BY <3>1, <3>2
    <2> QED BY <2>11 DEF Distinct
  <1> QED BY <1>4, <1>5

\* So a content that is the newest one keeps its version.
LEMMA NewestKept ==
    ASSUME TypeInv, Distinct, NEW a \in Artifacts, Keep(a, Newest(a))
    PROVE  /\ log' = log /\ Version(a, Newest(a)) = Len(log[a])
           /\ ~spoiled => ~spoiled'
  <1>1. /\ Newest(a) \in Content /\ Len(log[a]) \in Nat /\ Len(log[a]) \in DOMAIN log[a]
        /\ log[a][Len(log[a])] = Newest(a)
    BY LatestIs DEF Newest
  <1>2. PICK v : v = Version(a, Newest(a))
    OBVIOUS
  <1>3. v \in DOMAIN log[a] /\ log[a][v] = Newest(a)
    BY <1>1, <1>2 DEF Version
  <1>4. v = Len(log[a])
    BY <1>1, <1>3 DEF Distinct
  <1>5. log' = Logged(a, Newest(a)) /\ (~spoiled => spoiled' = (v < Len(log[a])))
    BY <1>2 DEF Keep
  <1>6. log' = log
    BY <1>2, <1>3, <1>5 DEF Logged
  <1>7. ~(v < Len(log[a]))
    BY <1>1, <1>4
  <1> QED BY <1>2, <1>4, <1>5, <1>6, <1>7

-----------------------------------------------------------------------------
(***************************************************************************)
(* What stays true when nothing below changes.                             *)
(***************************************************************************)

\* Nothing is derived from itself.
LEMMA RankFalls ==
    /\ Rank \in [Artifacts -> 1 .. Cardinality(Artifacts)]
    /\ \A a \in Artifacts : Rank[a] \in Int
    /\ \A a \in Artifacts : \A x \in Uses[a] : x \in Derived /\ x \in Artifacts /\ Rank[x] < Rank[a]
  <1>1. /\ Rank \in [Artifacts -> 1 .. Cardinality(Artifacts)]
        /\ \A a \in Artifacts : \A x \in Uses[a] : Rank[x] < Rank[a]
    BY DerivationAssumption DEF Rank
  <1>2. \A a \in Artifacts : \A x \in Uses[a] : x \in Derived /\ x \in Artifacts
    BY RefreshAssumption DEF Artifacts
  <1> QED BY <1>1, <1>2

\* A reference is told by its artifact and its version.
LEMMA RefIs ==
    /\ \A x, v : Ref(x, v).art = x /\ Ref(x, v).ver = v
    /\ \A x : Latest(x).art = x /\ Latest(x).ver = Len(log[x])
  BY DEF Ref, Latest

\* Snapshots are not written again.
LEMMA SnapshotStays ==
    ASSUME TypeInv, Grows
    PROVE  \A x \in AllRefs : x.art \in Artifacts => Snapshot(x)' = Snapshot(x)
  BY ArtifactRef DEF Snapshot, Grows

\* What the walk may meet stays as it was.
LEMMA PlanStays ==
    ASSUME TypeInv, NEW P \in Plan, PlanInv(P), Grows, recipe' = recipe
    PROVE  PlanInv(P)'
  <1> SUFFICES ASSUME NEW x \in P.cited PROVE Fits(P, x)'
    BY DEF PlanInv
  <1>1. Fits(P, x)
    BY DEF PlanInv
  <1>2. Snapshot(x)' = Snapshot(x) /\ x \in AllRefs'
    BY <1>1, SnapshotStays, RefsGrow DEF Fits
  <1>3. Follows(x)' <=> Follows(x)
    BY <1>2 DEF Follows, CitesSource, LatestRecipe
  <1> QED BY <1>1, <1>2, <1>3 DEF Fits

\* The walk changes nothing that it has been through.
Steady(D) ==
    /\ recipe' = recipe
    /\ cache' = cache \/ cache = None
    /\ \A x \in D : log'[x] = log[x]

\* What an artifact would be made of now depends on what is below it.
LEMMA NowStays ==
    ASSUME NEW D \in SUBSET Derived, Steady(D), NEW a, Uses[a] \subseteq D, Served(a)
    PROVE  /\ CitesNow(a)' = CitesNow(a) /\ ValueNow(a)' = ValueNow(a) /\ Served(a)'
           /\ a \in Derived => Fetched(Notebook[a])' = Fetched(Notebook[a])
                               /\ Code(Notebook[a])' = Code(Notebook[a])
  <1>1. \A x \in Uses[a] : Latest(x)' = Latest(x)
    BY DEF Steady, Latest, Ref
  <1>2. \A n : Code(n)' = Code(n) /\ LatestRecipe(n)' = LatestRecipe(n)
    BY DEF Steady, Code, LatestRecipe, Ref
  <1>3. a \in Derived => Fetched(Notebook[a])' = Fetched(Notebook[a])
    <2>1. a \in Derived /\ LatestRecipe(Notebook[a]).fetches => Answer' = Answer
      BY DEF Served, Steady, Answer
    <2> QED BY <1>2, <2>1 DEF Fetched
  <1>4. a \in Derived => Inputs(Notebook[a])' = Inputs(Notebook[a])
    <2> SUFFICES ASSUME a \in Derived PROVE Inputs(Notebook[a])' = Inputs(Notebook[a])
      OBVIOUS
    <2>1. PICK X : X = LatestRecipe(Notebook[a]).loads
      OBVIOUS
    <2>2. X \subseteq Uses[a] /\ LatestRecipe(Notebook[a])'.loads = X
      BY <1>2, <2>1 DEF Served
    <2>3. {Latest(x)' : x \in X} = {Latest(x) : x \in X}
      BY <1>1, <2>2
    <2> QED BY <1>3, <2>1, <2>2, <2>3 DEF Inputs
  <1>5. {Latest(x)' : x \in Uses[a]} = {Latest(x) : x \in Uses[a]}
    BY <1>1
  <1>6. CitesNow(a)' = CitesNow(a) /\ ValueNow(a)' = ValueNow(a)
    BY <1>2, <1>3, <1>4, <1>5 DEF CitesNow, ValueNow
  <1>7. Served(a)'
    BY <1>2 DEF Served, Steady
  <1> QED BY <1>2, <1>3, <1>6, <1>7

\* What is up to date stays so while what is below it is steady.
LEMMA UpToDateStays ==
    ASSUME NEW D \in SUBSET Derived, NEW P, Steady(D), NEW a,
           Uses[a] \subseteq D, log'[a] = log[a], UpToDate(P, a)
    PROVE  UpToDate(P, a)'
  <1>1. CitesNow(a)' = CitesNow(a) /\ ValueNow(a)' = ValueNow(a) /\ Served(a)'
    BY NowStays DEF UpToDate
  <1>2. Newest(a)' = Newest(a)
    BY DEF Newest
  <1> QED BY <1>1, <1>2 DEF UpToDate

\* So does all that the walk has been through.
LEMMA DoneStays ==
    ASSUME NEW D \in SUBSET Derived, NEW P, Steady(D), DoneInv(D, P)
    PROVE  DoneInv(D, P)'
  <1> SUFFICES ASSUME NEW x \in D PROVE Uses[x] \subseteq D /\ UpToDate(P, x)'
    BY DEF DoneInv
  <1>1. Uses[x] \subseteq D /\ UpToDate(P, x) /\ log'[x] = log[x]
    BY DEF DoneInv, Steady
  <1> QED BY <1>1, UpToDateStays

\* Where a result came from stays true under the same condition.
LEMMA ComesFromStays ==
    ASSUME NEW D \in SUBSET Derived, Steady(D), NEW P, NEW a \in Artifacts, NEW r,
           Uses[a] \subseteq D, log'[a] = log[a], ComesFrom(P, a, r)
    PROVE  ComesFrom(P, a, r)'
  <1>1. UpToDate(P, a)'
    BY UpToDateStays DEF ComesFrom
  <1>2. r.art = a /\ Newest(a)' = Newest(a) /\ Latest(a)' = Latest(a)
    BY DEF ComesFrom, Newest, Latest, Ref
  <1>3. Snapshot(r)' = Snapshot(r)
    BY <1>2 DEF Snapshot
  <1>4. /\ CitesSource(r)' <=> CitesSource(r)
        /\ \A n : LatestRecipe(n)' = LatestRecipe(n)
    BY <1>3 DEF CitesSource, LatestRecipe, Steady
  <1> QED BY <1>1, <1>2, <1>3, <1>4 DEF ComesFrom

\* A walk that was over is as it was, if it started from the same artifact.
LEMMA SettledStays ==
    ASSUME NEW D \in SUBSET Derived, NEW E \in SUBSET Derived, D \subseteq E, Steady(D),
           NEW P, SettledInv(D, P), UNCHANGED <<settled, origin>>,
           stack # <<>>, stack' # <<>>,
           \A x \in E : Rank[x] < Rank[origin.art],
           Again => log'[origin.art] = log[origin.art]
    PROVE  SettledInv(E, P)'
  <1>1. (Again' => Again) /\ (Follow' => Follow)
    BY DEF Again, Follow
  <1> SUFFICES ASSUME Again
               PROVE  LET a == settled.ref.art
                      IN /\ a \in Artifacts /\ settled.result = Latest(a)'
                         /\ ComesFrom(P, a, settled.ref)'
                         /\ Uses[a] \subseteq E /\ \A x \in E : Rank[x] < Rank[a]
                         /\ \A x \in P.cited : x.art \in E \cup {a}
    BY <1>1 DEF SettledInv
  <1>2. PICK a, r : a = settled.ref.art /\ r = settled.ref
    OBVIOUS
  <1>3. /\ a \in Artifacts /\ settled.result = Latest(a) /\ ComesFrom(P, a, r)
        /\ Uses[a] \subseteq D /\ a = origin.art
        /\ \A x \in P.cited : x.art \in D \cup {a}
    BY <1>2 DEF SettledInv, Again
  <1>4. log'[a] = log[a]
    BY <1>3
  <1>5. ComesFrom(P, a, r)'
    BY <1>3, <1>4, ComesFromStays
  <1>6. Latest(a)' = Latest(a)
    BY <1>4 DEF Latest, Ref
  <1> QED BY <1>2, <1>3, <1>5, <1>6

\* The walk is still the one that started from origin.
LEMMA RootStays ==
    ASSUME NEW D \in SUBSET Derived, NEW E \in SUBSET Derived, NEW P, RootInv(D, P),
           stack[1].step # "reread", stack'[1].step # "reread",
           stack'[1].ref = stack[1].ref, origin' = origin,
           log'[origin.art] = log[origin.art],
           \A x \in E : Rank[x] < Rank[origin.art]
    PROVE  RootInv(E, P)'
  <1>1. Latest(origin.art)' = Latest(origin.art)
    BY DEF Latest, Ref
  <1> QED BY <1>1 DEF RootInv

\* A refresh that waits, or has not read its snapshot, stays as it is.
LEMMA FrameStays ==
    ASSUME NEW D \in SUBSET Derived, NEW E \in SUBSET Derived, D \subseteq E, Steady(D),
           NEW P, NEW f, f.step \in {"read", "walk"}, FrameInv(D, P, f)
    PROVE  FrameInv(E, P, f)'
  <1>1. \A x \in f.fresh : x.art \in E /\ x = Latest(x.art)'
    BY DEF FrameInv, Steady, Latest, Ref
  <1> QED BY <1>1 DEF FrameInv

\* A refresh that waits goes on waiting for the same.
LEMMA LinkStays ==
    ASSUME NEW i \in Nat \ {0}, LinkInv(i), i < Len(stack), i < Len(stack'),
           stack'[i] = stack[i], stack'[i + 1].ref = stack[i + 1].ref, origin' = origin
    PROVE  LinkInv(i)'
  BY DEF LinkInv

-----------------------------------------------------------------------------
(***************************************************************************)
(* Each step of the walk keeps it.                                         *)
(***************************************************************************)

\* What is known of the refresh that takes the step.
LEMMA TopIs ==
    ASSUME TypeInv, stack # <<>>, NEW D \in SUBSET Derived, NEW P, WalkInv(D, P)
    PROVE  /\ Len(stack) \in Nat \ {0} /\ DOMAIN stack = 1 .. Len(stack)
           /\ Top = stack[Len(stack)] /\ Top \in WalkFrame /\ FrameOK(Top)
           /\ FrameInv(D, P, Top) /\ LinkInv(Len(stack))
           /\ Top.ref.art \in Artifacts /\ origin.art \in Artifacts /\ RootInv(D, P)
           /\ \A x \in Uses[Top.ref.art] : Rank[x] < Rank[origin.art]
           /\ Len(stack) > 1 => stack[1].step = "walk" /\ Rank[Top.ref.art] < Rank[origin.art]
           /\ Len(stack) = 1 => Top.ref.art = origin.art
  <1>1. Len(stack) \in Nat \ {0} /\ stack \in Seq(WalkFrame)
    BY StackTop DEF TypeInv
  <1>2. DOMAIN stack = 1 .. Len(stack)
    BY <1>1
  <1>3. 1 \in DOMAIN stack /\ Len(stack) \in DOMAIN stack
    BY <1>1, <1>2
  <1>4. Top = stack[Len(stack)] /\ Top \in WalkFrame /\ FrameOK(Top)
    BY TopTyped DEF Top
  <1>5. FrameInv(D, P, Top) /\ LinkInv(Len(stack)) /\ LinkInv(1) /\ RootInv(D, P)
    BY <1>3, <1>4 DEF WalkInv
  <1>6. Top.ref.art \in Artifacts /\ stack[1].ref.art \in Artifacts
    BY <1>3, <1>4 DEF TypeInv, FrameOK
  <1>7. origin.art \in Artifacts
    BY <1>5, <1>6 DEF RootInv
  <1>8. Len(stack) > 1 => stack[1].step = "walk"
    BY <1>5 DEF LinkInv
  <1>9. Len(stack) = 1 => Top.ref.art = origin.art
    BY <1>4, <1>5 DEF RootInv
  <1>10. Len(stack) > 1 => Rank[Top.ref.art] < Rank[origin.art]
    BY <1>4, <1>5 DEF LinkInv
  <1>11. ASSUME NEW x \in Uses[Top.ref.art] PROVE Rank[x] < Rank[origin.art]
    <2>1. /\ Rank[x] < Rank[Top.ref.art]
          /\ Rank[x] \in Int /\ Rank[Top.ref.art] \in Int /\ Rank[origin.art] \in Int
      BY <1>6, <1>7, RankFalls
    <2>2. Rank[Top.ref.art] < Rank[origin.art] \/ Top.ref.art = origin.art
      <3>1. PICK n \in Nat \ {0} : n = Len(stack)
        BY <1>1
      <3>2. n = 1 \/ n > 1
        OBVIOUS
      <3> QED BY <1>9, <1>10, <3>1, <3>2
    <2> QED BY <2>1, <2>2
  <1> QED BY <1>1, <1>2, <1>4, <1>5, <1>6, <1>7, <1>8, <1>9, <1>10, <1>11

\* A step of the innermost refresh that publishes nothing.
LEMMA InnerStep ==
    ASSUME TypeInv, NEW D \in SUBSET Derived, NEW P \in Plan, WalkInv(D, P), stack # <<>>,
           NEW g \in WalkFrame, Stay(g), g.ref = Top.ref,
           g.step # "reread", Top.step # "reread",
           UNCHANGED <<log, recipe, origin, settled>>, cache' = cache \/ cache = None,
           FrameInv(D, P, g)',
           g.step = "walk" =>
             Uses[g.ref.art] \subseteq {x.art : x \in g.fresh} \cup {x.art : x \in g.todo}
    PROVE  WalkInv(D, P)' /\ stack' # <<>>
  <1>1. Steady(D) /\ Grows
    BY DEF Steady, Grows
  <1>2. /\ stack' \in Seq(WalkFrame) /\ Len(stack') = Len(stack)
        /\ stack'[Len(stack)] = g /\ stack' # <<>>
        /\ \A i \in 1 .. Len(stack) - 1 : stack'[i] = stack[i]
    BY StackStays DEF TypeInv
  <1>3. /\ Len(stack) \in Nat \ {0} /\ DOMAIN stack = 1 .. Len(stack)
        /\ Top = stack[Len(stack)] /\ LinkInv(Len(stack)) /\ RootInv(D, P)
        /\ origin.art \in Artifacts /\ Top.ref.art \in Artifacts
        /\ Len(stack) > 1 => stack[1].step = "walk"
    BY TopIs
  <1>4. DOMAIN stack' = 1 .. Len(stack)
    BY <1>2
  <1>5. \A i \in 1 .. Len(stack) : stack'[i].ref = stack[i].ref
    <2> TAKE i \in 1 .. Len(stack)
    <2>1. i = Len(stack) \/ i \in 1 .. Len(stack) - 1
      <3>1. PICK n \in Nat \ {0} : n = Len(stack)
        BY <1>3
      <3>2. \A j \in 1 .. n : j = n \/ j \in 1 .. n - 1
        OBVIOUS
      <3> QED BY <3>1, <3>2
    <2> QED BY <1>2, <1>3, <2>1
  <1>6. DoneInv(D, P)' /\ PlanInv(P)'
    BY <1>1, DoneStays, PlanStays DEF WalkInv
  <1>7. \A x \in D : Rank[x] < Rank[origin.art]
    BY <1>3 DEF RootInv
  <1>8. SettledInv(D, P)'
    BY <1>1, <1>2, <1>7, SettledStays DEF WalkInv
  <1>9. RootInv(D, P)'
    <2>1. 1 \in 1 .. Len(stack) /\ (Len(stack) = 1 \/ Len(stack) > 1)
      BY <1>3
    <2>2. stack[1].step # "reread" /\ stack'[1].step # "reread"
      <3>1. CASE Len(stack) = 1
        BY <1>2, <1>3, <3>1
      <3>2. CASE Len(stack) > 1
        <4>1. 1 \in 1 .. Len(stack) - 1
          BY <1>3, <3>2
        <4> QED BY <1>2, <1>3, <3>2, <4>1
      <3> QED BY <2>1, <3>1, <3>2
    <2> QED BY <1>3, <1>5, <1>7, <2>1, <2>2, RootStays
  <1>10. ASSUME NEW i \in DOMAIN stack'
         PROVE  FrameInv(D, P, stack[i])' /\ LinkInv(i)'
    <2>1. i \in 1 .. Len(stack) /\ i \in Nat \ {0}
      BY <1>4
    <2>2. CASE i = Len(stack)
      <3>1. FrameInv(D, P, stack[i])'
        BY <1>2, <2>2
      <3>2. ~(i < Len(stack'))
        BY <1>2, <2>1, <2>2
      <3>3. LinkInv(i)'
        BY <1>2, <1>3, <2>2, <3>2 DEF LinkInv
      <3> QED BY <3>1, <3>3
    <2>3. CASE i # Len(stack)
      <3>1. i \in 1 .. Len(stack) - 1 /\ i < Len(stack) /\ i + 1 \in 1 .. Len(stack)
            /\ i \in DOMAIN stack
        BY <1>3, <2>1, <2>3
      <3>2. FrameInv(D, P, stack[i]) /\ LinkInv(i)
        BY <3>1 DEF WalkInv
      <3>3. LinkInv(i)'
        BY <1>2, <1>5, <2>1, <3>1, <3>2, LinkStays
      <3>4. PICK f : f = stack[i]
        OBVIOUS
      <3>5. FrameInv(D, P, f)'
        BY <1>1, <3>1, <3>2, <3>4, FrameStays DEF LinkInv
      <3> QED BY <1>2, <3>1, <3>3, <3>4, <3>5
    <2> QED BY <2>2, <2>3
  <1> QED BY <1>2, <1>6, <1>8, <1>9, <1>10 DEF WalkInv

\* Once every dataset below is done, what was refreshed is the newest of each.
LEMMA FreshIs ==
    ASSUME TypeInv, stack # <<>>, NEW D \in SUBSET Derived, NEW P, WalkInv(D, P),
           Top.step = "walk", Top.todo = {}
    PROVE  /\ Uses[Top.ref.art] \subseteq D
           /\ Top.fresh = {Latest(x) : x \in Uses[Top.ref.art]}
           /\ Top.objects = {} /\ Top.value = None
  <1>1. /\ FrameInv(D, P, Top) /\ LinkInv(Len(stack)) /\ Top = stack[Len(stack)]
        /\ FrameOK(Top) /\ ~(Len(stack) < Len(stack))
    BY TopIs
  <1>2. \A x \in Top.fresh : x.art \in Uses[Top.ref.art] \cap D /\ x = Latest(x.art)
    BY <1>1 DEF FrameInv, FrameOK
  <1>3. Uses[Top.ref.art] \subseteq {x.art : x \in Top.fresh}
    BY <1>1 DEF LinkInv
  <1>4. Uses[Top.ref.art] \subseteq D
    BY <1>2, <1>3
  <1>5. Top.fresh \subseteq {Latest(x) : x \in Uses[Top.ref.art]}
    BY <1>2
  <1>6. {Latest(x) : x \in Uses[Top.ref.art]} \subseteq Top.fresh
    BY <1>2, <1>3
  <1> QED BY <1>1, <1>4, <1>5, <1>6 DEF FrameInv

\* A snapshot that is read cites what its artifact uses.
LEMMA CleanRead ==
    ASSUME TypeInv, NEW D \in SUBSET Derived, NEW P \in Plan, WalkInv(D, P), ReadSnapshot
    PROVE  WalkInv(D, P)' /\ stack' # <<>> /\ UNCHANGED <<log, spoiled>>
  <1>1. PICK g, a, c :
          /\ g = [Top EXCEPT !.step = "walk",
                             !.todo = {x \in Snapshot(Top.ref).cites : x.art \in Derived}]
          /\ a = Top.ref.art /\ c = Snapshot(Top.ref)
    OBVIOUS
  <1>2. /\ stack # <<>> /\ Stay(g) /\ Top.step = "read"
        /\ UNCHANGED <<cache, log, recipe, origin, settled, spoiled>>
    BY <1>1 DEF ReadSnapshot, At, still
  <1>3. Top \in WalkFrame /\ FrameOK(Top) /\ FrameInv(D, P, Top) /\ a \in Artifacts
    BY <1>1, <1>2, TopIs
  <1>4. c \in Content /\ ContentOK(a, c)
    BY <1>1, <1>3, ArtifactRef DEF FrameOK
  <1>5. Top.ref \in P.cited /\ \A y \in c.cites : y.art \in Derived => y \in P.cited
    BY <1>1, <1>2, <1>3 DEF FrameInv, WalkInv, PlanInv, Fits
  <1>6. /\ g.ref = Top.ref /\ g.fresh = {} /\ g.objects = {} /\ g.value = None
        /\ g.step = "walk" /\ g.todo = {x \in c.cites : x.art \in Derived}
    BY <1>1, <1>2, <1>3 DEF WalkFrame, FrameInv
  <1>7. c.cites \subseteq AnyRef
    BY <1>4 DEF Content
  <1>8. g \in WalkFrame
    BY <1>1, <1>3, <1>7 DEF WalkFrame
  <1>9. FrameInv(D, P, g)'
    BY <1>5, <1>6 DEF FrameInv
  <1>10. Uses[a] \subseteq {x.art : x \in g.todo}
    <2> SUFFICES ASSUME NEW y \in Uses[a] PROVE \E x \in g.todo : x.art = y
      OBVIOUS
    <2>1. y \in Derived
      BY <1>3, RankFalls
    <2>2. PICK x \in c.cites : x.art = y
      BY <1>4 DEF ContentOK
    <2> QED BY <1>6, <2>1, <2>2
  <1>11. WalkInv(D, P)' /\ stack' # <<>>
    BY <1>1, <1>2, <1>6, <1>8, <1>9, <1>10, InnerStep
  <1> QED BY <1>2, <1>11

\* A run computes from the newest versions, which are those that were refreshed.
LEMMA CleanRun ==
    ASSUME TypeInv, NEW D \in SUBSET Derived, NEW P \in Plan, WalkInv(D, P), RunNotebook
    PROVE  WalkInv(D, P)' /\ stack' # <<>> /\ UNCHANGED <<log, spoiled>>
  <1>1. PICK a, n, g :
          /\ a = Top.ref.art /\ n = Notebook[a]
          /\ g = [Top EXCEPT !.step = "get", !.code = Code(n), !.objects = Fetched(n)]
    OBVIOUS
  <1>2. /\ stack # <<>> /\ a \in Derived /\ Top.todo = {} /\ Top.step = "walk"
        /\ Execute(n) /\ Stay(g)
        /\ UNCHANGED <<log, recipe, origin, settled, spoiled>>
    BY <1>1 DEF RunNotebook, At, still
  <1>3. n \in Notebooks /\ Variable[a] \in Names
    BY <1>1, <1>2 DEF Notebooks, Names
  <1>4. Answer \in Data /\ Answer # None /\ Fetched(n) \subseteq AnyRef
    BY <1>3, ComputedTyped, NoneAssumption
  <1>5. /\ cache' = IF LatestRecipe(n).fetches THEN Answer ELSE cache
        /\ cache' = cache \/ cache = None
        /\ LatestRecipe(n).fetches => cache' # None /\ Answer' = Answer
    BY <1>2, <1>4 DEF Execute, Answer
  <1>6. Top \in WalkFrame /\ FrameInv(D, P, Top) /\ a \in Artifacts
    BY <1>1, <1>2, TopIs
  <1>7. /\ Uses[a] \subseteq D /\ Top.fresh = {Latest(x) : x \in Uses[a]}
        /\ Top.value = None
    BY <1>1, <1>2, FreshIs
  <1>8. Code(n) \in AnyRef
    BY <1>3, CodeIs
  <1>9. g \in WalkFrame
    BY <1>1, <1>4, <1>6, <1>8 DEF WalkFrame
  <1>10. /\ g.ref = Top.ref /\ g.fresh = Top.fresh /\ g.objects = Fetched(n)
         /\ g.step = "get" /\ g.todo = {} /\ g.code = Code(n)
    BY <1>1, <1>2, <1>6 DEF WalkFrame
  <1>11. /\ \A x : Latest(x)' = Latest(x)
         /\ Code(n)' = Code(n) /\ LatestRecipe(n)' = LatestRecipe(n)
    BY <1>2 DEF Latest, Ref, Code, LatestRecipe
  <1>12. Fetched(n)' = Fetched(n) /\ Inputs(n)' = Inputs(n)
    <2>1. Fetched(n)' = Fetched(n)
      BY <1>5, <1>11 DEF Fetched
    <2>2. PICK X : X = LatestRecipe(n).loads
      OBVIOUS
    <2>3. {Latest(x)' : x \in X} = {Latest(x) : x \in X} /\ LatestRecipe(n)'.loads = X
      BY <1>11, <2>2
    <2> QED BY <2>1, <2>2, <2>3 DEF Inputs
  <1>13. kernel'[Variable[a]] = ValueNow(a)'
    <2>1. kernel'[Variable[a]] = Value(Code(n), Inputs(n))
      BY <1>1, <1>2, <1>3 DEF Execute
    <2> QED BY <1>1, <1>2, <1>11, <1>12, <2>1 DEF ValueNow
  <1>14. Served(a)'
    <2>1. Follows(Top.ref)
      BY <1>1, <1>2, <1>6 DEF FrameInv, WalkInv, PlanInv, Fits
    <2> QED BY <1>1, <1>5, <1>11, <2>1 DEF Follows, Served
  <1>15. \A x \in g.fresh : x.art \in D /\ x = Latest(x.art)'
    BY <1>6, <1>10, <1>11 DEF FrameInv
  <1>16. g.fresh = {Latest(x)' : x \in Uses[a]}
    BY <1>7, <1>10, <1>11
  <1>17. FrameInv(D, P, g)'
    <2>1. g.ref \in P.cited
      BY <1>2, <1>6, <1>10 DEF FrameInv
    <2> QED BY <1>1, <1>7, <1>10, <1>11, <1>12, <1>13, <1>14, <1>15, <1>16, <2>1 DEF FrameInv
  <1>18. WalkInv(D, P)' /\ stack' # <<>>
    BY <1>2, <1>5, <1>9, <1>10, <1>17, InnerStep
  <1> QED BY <1>2, <1>18

\* What it computes is a value.
LEMMA ValueNowIs ==
    ASSUME TypeInv, NEW a \in Derived
    PROVE  ValueNow(a) \in AnyValue /\ ValueNow(a) # None
  <1>1. Notebook[a] \in Notebooks
    BY DEF Notebooks
  <1>2. ValueNow(a) \in AnyValue
    BY <1>1, ComputedTyped DEF ValueNow
  <1> QED BY <1>2, NoneAssumption

\* The variable is there: the run has just bound it.
LEMMA CleanGet ==
    ASSUME TypeInv, NEW D \in SUBSET Derived, NEW P \in Plan, WalkInv(D, P), GetVariable
    PROVE  WalkInv(D, P)' /\ stack' # <<>> /\ UNCHANGED <<log, spoiled>>
  <1>1. PICK a, found, g :
          /\ a = Top.ref.art /\ found = kernel[Variable[a]]
          /\ g = [Top EXCEPT !.step = "persist", !.value = found]
    OBVIOUS
  <1>2. stack # <<>> /\ Top.step = "get"
    BY DEF GetVariable, At
  <1>3. Top \in WalkFrame /\ FrameOK(Top) /\ FrameInv(D, P, Top) /\ a \in Artifacts
    BY <1>1, <1>2, TopIs
  <1>4. a \in Derived
    BY <1>1, <1>2, <1>3 DEF FrameOK
  <1>5. found = ValueNow(a)
    BY <1>1, <1>2, <1>3 DEF FrameInv
  <1>6. found \in AnyValue /\ found # None
    BY <1>4, <1>5, ValueNowIs
  <1>7. Stay(g) /\ UNCHANGED <<cache, kernel, log, recipe, origin, settled, spoiled, world>>
    BY <1>1, <1>6 DEF GetVariable, still
  <1>8. g \in WalkFrame
    BY <1>1, <1>3, <1>6 DEF WalkFrame
  <1>9. /\ g.ref = Top.ref /\ g.fresh = Top.fresh /\ g.objects = Top.objects
        /\ g.step = "persist" /\ g.todo = Top.todo /\ g.code = Top.code /\ g.value = found
    BY <1>1, <1>3 DEF WalkFrame
  <1>10. /\ \A x : Latest(x)' = Latest(x)
         /\ \A n : Code(n)' = Code(n) /\ Fetched(n)' = Fetched(n) /\ Inputs(n)' = Inputs(n)
    BY <1>7 DEF Latest, Ref, Code, Fetched, Inputs, LatestRecipe, Answer
  <1>11. ValueNow(a)' = ValueNow(a) /\ Served(a)' = Served(a)
    BY <1>7, <1>10 DEF ValueNow, Served, LatestRecipe
  <1>12. /\ Uses[a] \subseteq D /\ Served(a)
         /\ g.fresh = {Latest(x) : x \in Uses[a]}
         /\ g.objects = Fetched(Notebook[a]) /\ g.code = Code(Notebook[a])
         /\ g.ref \in P.cited /\ g.todo \subseteq P.cited
         /\ \A x \in g.fresh : x.art \in D /\ x = Latest(x.art)
    BY <1>1, <1>2, <1>3, <1>9 DEF FrameInv
  <1>13. g.fresh = {Latest(x)' : x \in Uses[a]}
    BY <1>10, <1>12
  <1>14. FrameInv(D, P, g)'
    BY <1>1, <1>5, <1>7, <1>9, <1>10, <1>11, <1>12, <1>13 DEF FrameInv
  <1>15. WalkInv(D, P)' /\ stack' # <<>>
    BY <1>2, <1>7, <1>8, <1>9, <1>14, InnerStep
  <1> QED BY <1>7, <1>15

\* A refresh within a refresh starts from what the snapshot cites.
LEMMA CleanDescend ==
    ASSUME TypeInv, NEW D \in SUBSET Derived, NEW P \in Plan, WalkInv(D, P), Descend
    PROVE  WalkInv(D, P)' /\ stack' # <<>> /\ UNCHANGED <<log, spoiled>>
  <1>1. PICK x \in Top.todo :
          stack' = Append(Append(Below, [Top EXCEPT !.todo = @ \ {x}]), Frame(x))
    BY DEF Descend
  <1>2. /\ stack # <<>> /\ Top.step = "walk"
        /\ UNCHANGED <<cache, kernel, log, recipe, origin, settled, spoiled>>
    BY DEF Descend, At, still
  <1>3. PICK f, g : f = [Top EXCEPT !.todo = @ \ {x}] /\ g = Frame(x)
    OBVIOUS
  <1>4. /\ Len(stack) \in Nat \ {0} /\ DOMAIN stack = 1 .. Len(stack)
        /\ Top = stack[Len(stack)] /\ Top \in WalkFrame /\ FrameOK(Top)
        /\ FrameInv(D, P, Top) /\ LinkInv(Len(stack)) /\ RootInv(D, P)
        /\ Top.ref.art \in Artifacts
        /\ \A y \in Uses[Top.ref.art] : Rank[y] < Rank[origin.art]
        /\ Len(stack) > 1 => stack[1].step = "walk"
    BY <1>2, TopIs
  <1>5. /\ f.ref = Top.ref /\ f.step = "walk" /\ f.todo = Top.todo \ {x}
        /\ f.fresh = Top.fresh /\ f.objects = Top.objects /\ f.value = Top.value
    BY <1>2, <1>3, <1>4 DEF WalkFrame
  <1>6. /\ g.ref = x /\ g.step = "read" /\ g.todo = {} /\ g.fresh = {}
        /\ g.objects = {} /\ g.value = None
    BY <1>3 DEF Frame
  <1>7. x.art \in Uses[Top.ref.art] /\ x \in P.cited /\ x \in AnyRef
    BY <1>4, RefsTyped DEF FrameInv, FrameOK
  <1>8. f \in WalkFrame /\ g \in WalkFrame
    BY <1>3, <1>4, <1>7 DEF WalkFrame, Frame
  <1>9. /\ stack' \in Seq(WalkFrame) /\ Len(stack') = Len(stack) + 1
        /\ stack'[Len(stack)] = f /\ stack'[Len(stack) + 1] = g
        /\ \A i \in 1 .. Len(stack) - 1 : stack'[i] = stack[i]
    <2>1. stack' = Append(Append(Below, f), g) /\ stack \in Seq(WalkFrame)
      BY <1>1, <1>3 DEF TypeInv
    <2> QED BY <1>2, <1>8, <2>1, StackGrows
  <1>10. DOMAIN stack' = 1 .. Len(stack) + 1 /\ stack' # <<>>
    BY <1>4, <1>9, EmptySeq
  <1>11. Steady(D) /\ Grows
    BY <1>2 DEF Steady, Grows
  <1>12. \A i \in 1 .. Len(stack) : stack'[i].ref = stack[i].ref
    <2> TAKE i \in 1 .. Len(stack)
    <2>2. PICK n \in Nat \ {0} : n = Len(stack)
      BY <1>2, StackTop DEF TypeInv
    <2>1. i = Len(stack) \/ i \in 1 .. Len(stack) - 1
      BY <2>2
    <2> QED BY <1>4, <1>5, <1>9, <2>1
  <1>13. DoneInv(D, P)' /\ PlanInv(P)'
    BY <1>2, <1>11, DoneStays, PlanStays DEF WalkInv
  <1>14. \A y \in D : Rank[y] < Rank[origin.art]
    BY <1>4 DEF RootInv
  <1>15. SettledInv(D, P)'
    BY <1>2, <1>10, <1>11, <1>14, SettledStays DEF WalkInv
  <1>16. RootInv(D, P)'
    <2>1. PICK n \in Nat \ {0} : n = Len(stack)
      BY <1>2, StackTop DEF TypeInv
    <2>2. 1 \in 1 .. Len(stack) /\ (n = 1 \/ n > 1)
      BY <2>1
    <2>3. stack[1].step # "reread" /\ stack'[1].step # "reread"
      <3>1. CASE n = 1
        BY <1>2, <1>4, <1>5, <1>9, <2>1, <3>1
      <3>2. CASE n > 1
        <4>1. 1 \in 1 .. Len(stack) - 1
          BY <2>1, <3>2
        <4> QED BY <1>4, <1>9, <2>1, <3>2, <4>1
      <3> QED BY <2>2, <3>1, <3>2
    <2> QED BY <1>2, <1>4, <1>12, <1>14, <2>2, <2>3, RootStays
  <1>17. ASSUME NEW i \in DOMAIN stack'
         PROVE  FrameInv(D, P, stack[i])' /\ LinkInv(i)'
    <2>1. i \in 1 .. Len(stack) + 1 /\ i \in Nat \ {0}
      BY <1>4, <1>10
    <2>2. CASE i = Len(stack) + 1
      <3>1. FrameInv(D, P, stack[i])'
        BY <1>6, <1>7, <1>9, <2>2 DEF FrameInv
      <3>2. stack'[i] = g /\ i > 1 /\ ~(i < Len(stack'))
        BY <1>4, <1>9, <2>1, <2>2
      <3>3. LinkInv(i)'
        BY <1>2, <1>4, <1>6, <1>7, <3>2 DEF LinkInv
      <3> QED BY <3>1, <3>3
    <2>3. CASE i = Len(stack)
      <3>1. stack'[i] = f /\ stack'[i + 1].ref = x
        BY <1>6, <1>9, <2>3
      <3>2. FrameInv(D, P, f)
        BY <1>2, <1>4, <1>5 DEF FrameInv
      <3>3. FrameInv(D, P, f)'
        BY <1>5, <1>11, <3>2, FrameStays
      <3>4. FrameInv(D, P, stack[i])'
        BY <3>1, <3>3
      <3>5. Uses[f.ref.art] \subseteq {y.art : y \in f.fresh} \cup {y.art : y \in f.todo}
              \cup {x.art}
        <4>1. ~(Len(stack) < Len(stack))
          BY <1>4
        <4>2. Uses[Top.ref.art] \subseteq {y.art : y \in Top.fresh} \cup {y.art : y \in Top.todo}
          BY <1>2, <1>4, <4>1 DEF LinkInv
        <4> QED BY <1>5, <4>2
      <3>6. i < Len(stack')
        BY <1>9, <2>1, <2>3
      <3>7. LinkInv(i)'
        BY <1>2, <1>4, <1>5, <2>3, <3>1, <3>5, <3>6 DEF LinkInv
      <3> QED BY <3>4, <3>7
    <2>4. CASE i \notin {Len(stack), Len(stack) + 1}
      <3>1. i \in 1 .. Len(stack) - 1 /\ i < Len(stack) /\ i < Len(stack')
            /\ i + 1 \in 1 .. Len(stack) /\ i \in DOMAIN stack
        BY <1>4, <1>9, <2>1, <2>4
      <3>2. FrameInv(D, P, stack[i]) /\ LinkInv(i)
        BY <3>1 DEF WalkInv
      <3>3. LinkInv(i)'
        BY <1>2, <1>9, <1>12, <2>1, <3>1, <3>2, LinkStays
      <3>4. PICK h : h = stack[i]
        OBVIOUS
      <3>5. FrameInv(D, P, h)'
        BY <1>11, <3>1, <3>2, <3>4, FrameStays DEF LinkInv
      <3> QED BY <1>9, <3>1, <3>3, <3>4, <3>5
    <2> QED BY <2>2, <2>3, <2>4
  <1> QED BY <1>2, <1>10, <1>13, <1>15, <1>16, <1>17 DEF WalkInv

\* What is made of what there is now tells its value, and of one version of each.
LEMMA HonestNow ==
    ASSUME TypeInv, NEW a \in Derived, Served(a), NEW c,
           c.cites = CitesNow(a), c.value = ValueNow(a)
    PROVE  Honest(c)
  <1>1. PICK n : n = Notebook[a]
    OBVIOUS
  <1>2. n \in Notebooks /\ a \in Artifacts
    BY <1>1 DEF Notebooks, Artifacts
  <1>3. c.cites = {Latest(x) : x \in Uses[a]} \cup Fetched(n) \cup {Code(n)}
    BY <1>1 DEF CitesNow
  <1>4. c.value.code = Code(n) /\ c.value.inputs = Inputs(n)
    BY <1>1 DEF ValueNow, Value
  <1>5. Inputs(n) \subseteq {Latest(x) : x \in Uses[a]} \cup Fetched(n)
    BY <1>1 DEF Inputs, Served
  <1>6. ASSUME NEW x \in c.cites
        PROVE  \/ x.art \in Uses[a] /\ x = Latest(x.art)
               \/ x.art = Source /\ x = Ref(Source, Answer)
               \/ x.art = n /\ x = Code(n)
    BY <1>3, <1>6, RefIs DEF Fetched, Code
  <1>7. /\ \A u \in Uses[a] : u # Source /\ u # n
        /\ n # Source
    BY <1>2, RankFalls, RefreshAssumption
  <1>8. \A x, y \in c.cites : x.art = y.art => x = y
    BY <1>6, <1>7
  <1> QED BY <1>3, <1>4, <1>5, <1>8 DEF Honest

\* What a walk publishes is what a run computes now, in the words it read.
LEMMA RederivedIs ==
    ASSUME TypeInv, stack # <<>>, NEW D \in SUBSET Derived, NEW P, WalkInv(D, P),
           NEW a, a = Top.ref.art,
           \/ Top.step = "persist"
           \/ Top.step = "walk" /\ Top.todo = {} /\ a \in Reports
    PROVE  /\ Uses[a] \subseteq D /\ Served(a) /\ Top.ref \in P.cited /\ Fits(P, Top.ref)
           /\ Rederived(Top).words = P.words[a]
           /\ Rederived(Top).cites = CitesNow(a) /\ Rederived(Top).value = ValueNow(a)
           /\ a \in Derived => kernel[Variable[a]] = ValueNow(a)
  <1>1. Top \in WalkFrame /\ FrameOK(Top) /\ FrameInv(D, P, Top) /\ a \in Artifacts
    BY TopIs
  <1>2. /\ Uses[a] \subseteq D /\ Served(a)
        /\ Top.fresh = {Latest(x) : x \in Uses[a]}
        /\ Top.objects = IF a \in Derived THEN Fetched(Notebook[a]) ELSE {}
        /\ Top.value = ValueNow(a)
        /\ a \in Derived => /\ Top.code = Code(Notebook[a])
                            /\ kernel[Variable[a]] = ValueNow(a)
    <2>1. CASE Top.step = "persist"
      <3>1. a \in Derived
        BY <1>1, <2>1 DEF FrameOK
      <3> QED BY <1>1, <2>1, <3>1 DEF FrameInv
    <2>2. CASE Top.step = "walk" /\ Top.todo = {} /\ a \in Reports
      <3>1. a \notin Derived
        BY <2>2, RefreshAssumption
      <3> QED BY <2>2, <3>1, FreshIs DEF ValueNow, Served
    <2> QED BY <2>1, <2>2
  <1>3. Top.ref \in P.cited /\ Fits(P, Top.ref)
    <2>1. Top.step # "reread"
      OBVIOUS
    <2> QED BY <1>1, <2>1 DEF FrameInv, WalkInv, PlanInv
  <1>4. ContentOK(a, Snapshot(Top.ref))
    BY <1>1, ArtifactRef DEF FrameOK
  <1> DEFINE new == {Latest(x) : x \in Uses[a]} \cup
                      IF a \in Derived THEN Fetched(Notebook[a]) ELSE {}
  <1>5. Sources(Top) = new
    <2>1. ASSUME NEW x \in Snapshot(Top.ref).cites, x.art \notin Notebooks
          PROVE  \E y \in new : y.art = x.art
      <3>1. x.art \in CitableArts(a)
        BY <1>4 DEF ContentOK
      <3>2. a \in Derived => Notebook[a] \in Notebooks
        BY DEF Notebooks
      <3>3. x.art \in Uses[a] \/ (a \in Derived /\ x.art = Source)
        BY <2>1, <3>1, <3>2 DEF CitableArts
      <3>4. CASE x.art \in Uses[a]
        <4>1. Latest(x.art) \in new
          BY <3>4
        <4> QED BY <4>1, RefIs
      <3>5. CASE a \in Derived /\ x.art = Source
        <4>1. CitesSource(Top.ref)
          BY <3>5 DEF CitesSource
        <4>2. LatestRecipe(Notebook[a]).fetches
          BY <1>3, <3>5, <4>1 DEF Fits, Follows
        <4>3. Ref(Source, Answer) \in new
          BY <3>5, <4>2 DEF Fetched
        <4> QED BY <3>5, <4>3, RefIs
      <3> QED BY <3>3, <3>4, <3>5
    <2>2. Top.fresh \cup Top.objects = new
      BY <1>2
    <2> HIDE DEF new
    <2> QED BY <2>1, <2>2 DEF Sources
  <1>6. /\ Rederived(Top).words = P.words[a]
        /\ Rederived(Top).cites = CitesNow(a) /\ Rederived(Top).value = ValueNow(a)
    <2>1. Rederived(Top).words = Snapshot(Top.ref).words
      BY DEF Rederived
    <2>2. Rederived(Top).cites = CitesNow(a)
      BY <1>2, <1>5 DEF Rederived, CitesNow
    <2>3. Rederived(Top).value = ValueNow(a)
      BY <1>2 DEF Rederived
    <2> QED BY <1>3, <2>1, <2>2, <2>3 DEF Fits
  <1> QED BY <1>2, <1>3, <1>6

\* What a step adds to the logs of the datasets and charts is honest.
Tells == \A a \in Derived : Len(log'[a]) > Len(log[a]) => Honest(Last(log[a])')

\* A step that adds nothing.
LEMMA NothingTells == TypeInv /\ log' = log => Tells
  <1> SUFFICES ASSUME TypeInv, log' = log, NEW a \in Derived
               PROVE  ~(Len(log'[a]) > Len(log[a]))
    BY DEF Tells
  <1>1. Len(log[a]) \in Nat
    BY LatestIs DEF Artifacts
  <1> QED BY <1>1

\* What becomes of the content c of a that a step of the walk publishes as r.
Made(D, P, a, c, r) ==
    /\ stack # <<>> /\ a \in Artifacts /\ r \in AnyRef /\ ~spoiled'
    /\ UNCHANGED <<cache, kernel, recipe, origin, regular>>
    /\ Grows /\ Steady(D) /\ Tells
    /\ \A b \in Artifacts : b # a => log'[b] = log[b]
    /\ r = Latest(a)' /\ Newest(a)' = c /\ UpToDate(P, a)' /\ Uses[a] \subseteq D
    /\ Top.ref \in P.cited /\ Fits(P, Top.ref)
    /\ a \in Derived => kernel[Variable[a]] = ValueNow(a)'
    /\ Again => log' = log
    /\ (\E i \in DOMAIN log[a] : log[a][i] = c) => log' = log

\* Publishing what a walk computed makes it the newest version of its artifact,
\* and changes nothing that the walk has been through.
LEMMA Published ==
    ASSUME TypeInv, Distinct, NEW D \in SUBSET Derived, NEW P \in Plan, WalkInv(D, P),
           Persist, ~spoiled, ~spoiled' \/ Again,
           NEW a, NEW c, NEW r,
           a = Top.ref.art, c = Rederived(Top), r = Ref(a, Version(a, c))
    PROVE  Made(D, P, a, c, r)
  <1>1. /\ stack # <<>> /\ Keep(a, c)
        /\ \/ Top.step = "persist"
           \/ Top.step = "walk" /\ Top.todo = {} /\ a \in Reports
        /\ UNCHANGED <<cache, kernel, recipe, origin, regular>>
    BY DEF Persist, At, still
  <1>2. /\ Top \in WalkFrame /\ FrameOK(Top) /\ a \in Artifacts
    BY <1>1, TopIs
  <1>3. c \in Content /\ ContentOK(a, c)
    <2>1. Top.ref.art \in Derived => Top.step = "persist"
      BY <1>1, RefreshAssumption
    <2> QED BY <1>2, <2>1, RederivedTyped
  <1>4. /\ Uses[a] \subseteq D /\ Served(a) /\ Top.ref \in P.cited /\ Fits(P, Top.ref)
        /\ c.words = P.words[a]
        /\ c.cites = CitesNow(a) /\ c.value = ValueNow(a)
        /\ a \in Derived => kernel[Variable[a]] = ValueNow(a)
    BY <1>1, RederivedIs
  <1>5. ASSUME UpToDate(P, a)
        PROVE  log' = log /\ ~spoiled'
    <2>1. Newest(a) \in Content
      BY <1>2, LatestIs
    <2>2. Newest(a) = c
      BY <1>3, <1>4, <1>5, <2>1 DEF UpToDate, Content
    <2> QED BY <1>1, <1>2, <2>2, NewestKept
  <1>6. Again => UpToDate(P, a)
    <2> SUFFICES ASSUME Again PROVE UpToDate(P, a)
      OBVIOUS
    <2>1. PICK b : b = settled.ref.art
      OBVIOUS
    <2>2. ComesFrom(P, b, settled.ref) /\ \A x \in P.cited : x.art \in D \cup {b}
      BY <1>1, <2>1 DEF WalkInv, SettledInv, Again
    <2>3. a \in D \/ a = b
      BY <1>4, <2>2
    <2> QED BY <2>2, <2>3 DEF ComesFrom, WalkInv, DoneInv
  <1>7. ~spoiled' /\ (Again => log' = log)
    BY <1>5, <1>6
  <1>8. PICK v : v = Version(a, c)
    OBVIOUS
  <1>9. log' = Logged(a, c) /\ v = Len(log'[a])
    BY <1>1, <1>2, <1>3, <1>7, <1>8, Kept
  <1>10. /\ \A b \in Artifacts : b # a => log'[b] = log[b]
         /\ \A i \in DOMAIN log[a] : i \in DOMAIN log'[a] /\ log'[a][i] = log[a][i]
         /\ v \in DOMAIN log'[a] /\ log'[a][v] = c
         /\ (\E i \in DOMAIN log[a] : log[a][i] = c) => log' = log
    <2>1. /\ \A b \in Artifacts : b # a => log'[b] = log[b]
          /\ \A i \in DOMAIN log[a] : i \in DOMAIN log'[a] /\ log'[a][i] = log[a][i]
          /\ Version(a, c) \in DOMAIN log'[a] /\ log'[a][Version(a, c)] = c
          /\ (\E i \in DOMAIN log[a] : log[a][i] = c) => log' = log
      BY <1>2, <1>3, <1>9, LoggedIs
    <2> QED BY <1>8, <2>1
  <1>11. Grows
    BY <1>1, <1>10 DEF Grows
  <1>12. r \in AnyRef
    BY <1>1, <1>2, <1>3, <1>9, KeepTyped
  <1>13. \A x \in D : log'[x] = log[x]
    <2> SUFFICES ASSUME a \in D PROVE log' = log
      BY <1>10 DEF Artifacts
    <2>1. UpToDate(P, a)
      BY DEF WalkInv, DoneInv
    <2> QED BY <1>5, <2>1
  <1>14. Steady(D)
    BY <1>1, <1>13 DEF Steady
  <1>15. CitesNow(a)' = CitesNow(a) /\ ValueNow(a)' = ValueNow(a) /\ Served(a)'
    BY <1>4, <1>14, NowStays
  <1>16. Newest(a)' = c /\ r = Latest(a)'
    BY <1>8, <1>9, <1>10 DEF Newest, Latest
  <1>17. UpToDate(P, a)'
    BY <1>4, <1>15, <1>16 DEF UpToDate
  <1>18. Tells
    <2> SUFFICES ASSUME NEW b \in Derived, Len(log'[b]) > Len(log[b])
                 PROVE  Honest(Last(log[b])')
      BY DEF Tells
    <2>1. b \in Artifacts /\ Len(log[b]) \in Nat
      BY LatestIs DEF Artifacts
    <2>2. b = a
      BY <1>10, <2>1
    <2>3. Honest(c)
      BY <1>4, <2>2, HonestNow
    <2> QED BY <1>16, <2>2, <2>3 DEF Last, Newest
  <1> QED BY <1>1, <1>2, <1>4, <1>7, <1>10, <1>11, <1>12, <1>14, <1>15, <1>16, <1>17, <1>18 DEF Made

\* An inner refresh hands the newest version to the one that called it.
LEMMA CleanReturn ==
    ASSUME TypeInv, Distinct, NEW D \in SUBSET Derived, NEW P \in Plan, WalkInv(D, P),
           Persist, ~spoiled, ~spoiled' \/ Again,
           Len(stack) > 1
    PROVE  stack' # <<>> /\ \E E \in SUBSET Derived : WalkInv(E, P)'
  <1>1. PICK a, c, r : a = Top.ref.art /\ c = Rederived(Top) /\ r = Ref(a, Version(a, c))
    OBVIOUS
  <1>2. /\ stack # <<>> /\ a \in Artifacts /\ r \in AnyRef
        /\ UNCHANGED <<cache, kernel, recipe, origin>>
        /\ Grows /\ Steady(D)
        /\ \A b \in Artifacts : b # a => log'[b] = log[b]
        /\ r = Latest(a)' /\ UpToDate(P, a)' /\ Uses[a] \subseteq D
    <2>1. Made(D, P, a, c, r)
      BY <1>1, Published
    <2> QED BY <2>1 DEF Made
  <1>3. PICK k \in Nat \ {0} : Len(stack) = k + 1
    <2>1. Len(stack) \in Nat \ {0}
      BY <1>2, StackTop DEF TypeInv
    <2>2. PICK n \in Nat \ {0} : n = Len(stack)
      BY <2>1
    <2>3. n > 1 => n - 1 \in Nat \ {0} /\ n = (n - 1) + 1
      OBVIOUS
    <2> QED BY <2>2, <2>3
  <1>4. /\ DOMAIN stack = 1 .. k + 1 /\ Top = stack[k + 1]
        /\ RootInv(D, P) /\ stack[1].step = "walk" /\ origin.art \in Artifacts
        /\ Rank[a] < Rank[origin.art]
    BY <1>1, <1>2, <1>3, TopIs
  <1>5. a \in Uses[stack[k].ref.art]
    <2>1. k + 1 > 1 /\ (k + 1) - 1 = k /\ k + 1 \in DOMAIN stack
      BY <1>3, <1>4
    <2> QED BY <1>1, <1>4, <2>1 DEF TypeInv, Chained
  <1>6. k \in DOMAIN stack /\ k < Len(stack)
    BY <1>3, <1>4
  <1>7. PICK caller, told :
          /\ caller = stack[k]
          /\ told = [caller EXCEPT !.fresh = {x \in caller.fresh : x.art # r.art} \cup {r}]
    OBVIOUS
  <1>8. /\ caller \in WalkFrame /\ caller.ref.art \in Artifacts
        /\ FrameInv(D, P, caller) /\ LinkInv(k) /\ caller.step = "walk"
    <2>1. caller \in WalkFrame
      BY <1>6, <1>7 DEF TypeInv
    <2>2. FrameOK(caller)
      BY <1>6, <1>7 DEF TypeInv
    <2>3. FrameInv(D, P, caller) /\ LinkInv(k)
      BY <1>6, <1>7 DEF WalkInv
    <2> QED BY <1>6, <1>7, <2>1, <2>2, <2>3 DEF FrameOK, LinkInv
  <1>9. /\ stack' = [Below EXCEPT ![Len(Below)].fresh =
                      {x \in @ : x.art # r.art} \cup {r}]
        /\ settled' = settled
    BY <1>1 DEF Persist
  <1>10. /\ stack' \in Seq(WalkFrame) /\ Len(stack') = k /\ stack'[k] = told
         /\ \A i \in 1 .. k - 1 : stack'[i] = stack[i]
    <2>1. Len(stack) - 1 = k /\ Len(stack) - 2 = k - 1 /\ stack \in Seq(WalkFrame)
      BY <1>3 DEF TypeInv
    <2> QED BY <1>2, <1>7, <1>9, <2>1, StackShrinks
  <1>11. DOMAIN stack' = 1 .. k /\ stack' # <<>>
    BY <1>10, EmptySeq
  <1>12. /\ told.ref = caller.ref /\ told.step = "walk" /\ told.todo = caller.todo
         /\ told.objects = caller.objects /\ told.value = caller.value
         /\ told.fresh = {x \in caller.fresh : x.art # a} \cup {r}
    BY <1>1, <1>7, <1>8, RefIs DEF WalkFrame
  <1>13. \A i \in 1 .. k : stack'[i].ref = stack[i].ref /\ i \in DOMAIN stack
    <2> TAKE i \in 1 .. k
    <2>1. (i = k \/ i \in 1 .. k - 1) /\ i \in 1 .. k + 1
      OBVIOUS
    <2> QED BY <1>4, <1>7, <1>10, <1>12, <2>1
  <1> DEFINE E == D \cup {a}
  <1>14. a \in Derived /\ E \in SUBSET Derived /\ D \subseteq E
    BY <1>5, <1>7, <1>8, RankFalls
  <1>15. \A x \in E : Rank[x] < Rank[origin.art]
    BY <1>4 DEF RootInv
  <1>16. log'[origin.art] = log[origin.art]
    <2>1. origin.art # a
      <3>1. Rank[a] \in Int
        BY <1>2, RankFalls
      <3> QED BY <1>4, <3>1
    <2> QED BY <1>2, <1>4, <2>1
  <1>17. DoneInv(E, P)'
    <2>1. DoneInv(D, P)'
      BY <1>2, DoneStays DEF WalkInv
    <2> QED BY <1>2, <2>1 DEF DoneInv
  <1> HIDE DEF E
  <1>18. SettledInv(E, P)' /\ PlanInv(P)'
    BY <1>2, <1>9, <1>11, <1>14, <1>15, <1>16, SettledStays, PlanStays DEF WalkInv
  <1>19. RootInv(E, P)'
    <2>1. 1 \in 1 .. k /\ (k = 1 \/ 1 \in 1 .. k - 1)
      BY <1>3
    <2>2. stack'[1].ref = stack[1].ref
      BY <1>13, <2>1
    <2>3. stack'[1].step # "reread"
      BY <1>4, <1>10, <1>12, <2>1
    <2> QED BY <1>2, <1>4, <1>14, <1>15, <1>16, <2>2, <2>3, RootStays
  <1>20. ASSUME NEW i \in DOMAIN stack'
         PROVE  FrameInv(E, P, stack[i])' /\ LinkInv(i)'
    <2>1. i \in 1 .. k /\ i \in Nat \ {0}
      BY <1>11
    <2>2. CASE i = k
      <3>1. FrameInv(E, P, caller)'
        BY <1>2, <1>8, <1>14, FrameStays
      <3>2. r.art = a /\ a \in E
        BY <1>1, RefIs DEF E
      <3>3. \A x \in told.fresh : x.art \in E /\ x = Latest(x.art)'
        BY <1>2, <1>12, <3>1, <3>2 DEF FrameInv
      <3>4. FrameInv(E, P, told)'
        BY <1>8, <1>12, <3>1, <3>3 DEF FrameInv
      <3>5. FrameInv(E, P, stack[i])'
        BY <1>10, <2>2, <3>4
      <3>6. Uses[caller.ref.art] \subseteq {x.art : x \in told.fresh} \cup {x.art : x \in told.todo}
        <4>1. Uses[caller.ref.art] \subseteq
                {x.art : x \in caller.fresh} \cup {x.art : x \in caller.todo} \cup {a}
          <5>1. stack[k + 1].ref.art = a
            BY <1>1, <1>4
          <5> QED BY <1>6, <1>7, <1>8, <5>1 DEF LinkInv
        <4>2. ASSUME NEW x \in caller.fresh, x.art # a PROVE x \in told.fresh
          BY <1>12, <4>2
        <4>3. r \in told.fresh
          BY <1>12
        <4> QED BY <1>12, <3>2, <4>1, <4>2, <4>3
      <3>7. ~(i < Len(stack'))
        BY <1>10, <2>1, <2>2
      <3>8. i > 1 => Rank[caller.ref.art] < Rank[origin.art]
        BY <1>7, <1>8, <2>2 DEF LinkInv
      <3>9. stack'[i] = told
        BY <1>10, <2>2
      <3>10. LinkInv(i)'
        BY <1>2, <1>12, <3>6, <3>7, <3>8, <3>9 DEF LinkInv
      <3> QED BY <3>5, <3>10
    <2>3. CASE i # k
      <3>1. i \in 1 .. k - 1 /\ i < Len(stack) /\ i < Len(stack') /\ i + 1 \in 1 .. k
        BY <1>3, <1>10, <2>1, <2>3
      <3>2. i \in DOMAIN stack
        BY <1>13, <2>1
      <3>3. FrameInv(D, P, stack[i]) /\ LinkInv(i)
        BY <3>2 DEF WalkInv
      <3>4. LinkInv(i)'
        BY <1>2, <1>10, <1>13, <2>1, <3>1, <3>3, LinkStays
      <3>5. PICK f : f = stack[i]
        OBVIOUS
      <3>6. FrameInv(E, P, f)'
        BY <1>2, <1>14, <3>1, <3>3, <3>5, FrameStays DEF LinkInv
      <3> QED BY <1>10, <3>1, <3>4, <3>5, <3>6
    <2> QED BY <2>2, <2>3
  <1> QED BY <1>11, <1>14, <1>17, <1>18, <1>19, <1>20 DEF WalkInv

\* What a walk ends with, and what a walk after another ends with.
EndsAs(r) ==
    /\ outcome' = r /\ origin' = origin
    /\ settled' = [ref |-> origin, result |-> r, regular |-> regular'] /\ settled' # None
    /\ Again => r = settled.result

\* The outermost refresh publishes what it will end with.
LEMMA RootPublished ==
    ASSUME TypeInv, Distinct, NEW D \in SUBSET Derived, NEW P \in Plan, WalkInv(D, P),
           Persist, ~spoiled, ~spoiled' \/ Again, Len(stack) = 1,
           NEW a, NEW c, NEW r,
           a = Top.ref.art, c = Rederived(Top), r = Ref(a, Version(a, c))
    PROVE  /\ a = origin.art /\ Top = stack[1] /\ ComesFrom(P, a, origin)'
           /\ Again => log' = log /\ settled.result = Latest(a)
  <1>1. Made(D, P, a, c, r)
    BY Published
  <1>2. /\ stack # <<>> /\ a \in Artifacts /\ Grows
        /\ Newest(a)' = c /\ UpToDate(P, a)' /\ Fits(P, Top.ref)
        /\ Again => log' = log
        /\ (\E i \in DOMAIN log[a] : log[a][i] = c) => log' = log
        /\ UNCHANGED <<origin, recipe>>
    BY <1>1 DEF Made
  <1>3. /\ Top = stack[1] /\ RootInv(D, P) /\ a = origin.art
    BY <1>2, TopIs
  <1>4. Top.step # "reread"
    BY RefreshAssumption DEF Persist, At
  <1>5. /\ Top.ref = origin /\ origin = Latest(a)
    BY <1>3, <1>4 DEF RootInv
  <1>6. Again => log' = log /\ settled.result = Latest(a)
    BY <1>2, <1>3 DEF WalkInv, SettledInv, Again
  <1>7. origin.ver \in DOMAIN log[a]
    BY <1>2, <1>5, LatestIs
  <1>8. Snapshot(origin)' = Snapshot(origin) /\ origin.ver \in DOMAIN log'[a]
    BY <1>2, <1>3, <1>7 DEF Snapshot, Grows
  <1>9. Newest(a)' = Snapshot(origin)' => Latest(a)' = origin
    <2> SUFFICES ASSUME c = Snapshot(origin) PROVE Latest(a)' = Latest(a)
      BY <1>2, <1>5, <1>8
    <2>1. log[a][origin.ver] = c
      BY <1>3 DEF Snapshot
    <2>2. log' = log
      BY <1>2, <1>7, <2>1
    <2> QED BY <2>2 DEF Latest, Ref
  <1>10. Snapshot(origin)'.words = P.words[a]
    BY <1>2, <1>3, <1>5, <1>8 DEF Fits
  <1>11. a \in Derived => (CitesSource(origin)' => LatestRecipe(Notebook[a])'.fetches)
    BY <1>2, <1>3, <1>5, <1>8 DEF Fits, Follows, CitesSource, LatestRecipe
  <1>12. ComesFrom(P, a, origin)'
    BY <1>2, <1>3, <1>8, <1>9, <1>10, <1>11 DEF ComesFrom
  <1> QED BY <1>3, <1>6, <1>12

\* A dataset or a chart is handed to the tool.
LEMMA CleanHandOver ==
    ASSUME TypeInv, Distinct, NEW D \in SUBSET Derived, NEW P \in Plan, WalkInv(D, P),
           Persist, ~spoiled, ~spoiled' \/ Again,
           Len(stack) = 1, Top.ref.art \in Derived
    PROVE  WalkInv(D, P)' /\ stack' # <<>>
  <1>1. PICK a, c, r : a = Top.ref.art /\ c = Rederived(Top) /\ r = Ref(a, Version(a, c))
    OBVIOUS
  <1>2. PICK g : g = [Top EXCEPT !.step = "reread", !.ref = r]
    OBVIOUS
  <1>3. /\ stack # <<>> /\ a \in Artifacts /\ a \in Derived /\ r \in AnyRef
        /\ UNCHANGED <<cache, kernel, recipe, origin>>
        /\ Grows /\ Steady(D)
        /\ r = Latest(a)' /\ Uses[a] \subseteq D /\ UpToDate(P, a)'
        /\ kernel[Variable[a]] = ValueNow(a)'
    <2>1. Made(D, P, a, c, r)
      BY <1>1, Published
    <2> QED BY <1>1, <2>1 DEF Made
  <1>4. /\ a = origin.art /\ Top = stack[1] /\ ComesFrom(P, a, origin)'
        /\ Again => log' = log
    BY <1>1, RootPublished
  <1>5. Top \in WalkFrame /\ FrameInv(D, P, Top) /\ RootInv(D, P)
    BY <1>3, TopIs
  <1>6. Stay(g) /\ settled' = settled
    BY <1>1, <1>2, <1>3 DEF Persist
  <1>7. /\ g \in WalkFrame /\ g.ref = r /\ g.step = "reread" /\ g.todo = Top.todo
        /\ g.fresh = Top.fresh
    BY <1>2, <1>3, <1>5 DEF WalkFrame
  <1>8. /\ stack' \in Seq(WalkFrame) /\ Len(stack') = 1 /\ stack'[1] = g /\ stack' # <<>>
    BY <1>3, <1>6, <1>7, StackStays DEF TypeInv
  <1>9. DOMAIN stack' = {1}
    BY <1>8
  <1>10. DoneInv(D, P)' /\ PlanInv(P)'
    BY <1>3, DoneStays, PlanStays DEF WalkInv
  <1>11. \A x \in D : Rank[x] < Rank[origin.art]
    BY <1>5 DEF RootInv
  <1>12. SettledInv(D, P)'
    BY <1>3, <1>4, <1>6, <1>8, <1>11, SettledStays DEF WalkInv
  <1>13. RootInv(D, P)'
    <2>1. r.art = a
      BY <1>1, RefIs
    <2>2. ComesFrom(P, origin.art, origin)'
      <3>1. a = origin'.art
        BY <1>3, <1>4
      <3> QED BY <1>4, <3>1 DEF ComesFrom
    <2> QED BY <1>3, <1>4, <1>5, <1>7, <1>8, <1>11, <2>1, <2>2 DEF RootInv
  <1>14. FrameInv(D, P, g)'
    <2>1. r.art = a
      BY <1>1, RefIs
    <2>2. g.todo \subseteq P.cited
      BY <1>5, <1>7 DEF FrameInv
    <2>3. \A x \in g.fresh : x.art \in D /\ x = Latest(x.art)'
      BY <1>3, <1>5, <1>7 DEF FrameInv, Steady, Latest, Ref
    <2>4. Served(a)'
      BY <1>3 DEF UpToDate
    <2> QED BY <1>3, <1>7, <2>1, <2>2, <2>3, <2>4 DEF FrameInv
  <1>15. LinkInv(1)'
    BY <1>7, <1>8 DEF LinkInv
  <1> QED BY <1>8, <1>9, <1>10, <1>12, <1>13, <1>14, <1>15 DEF WalkInv

\* A report ends the walk.
LEMMA CleanReport ==
    ASSUME TypeInv, Distinct, NEW D \in SUBSET Derived, NEW P \in Plan, WalkInv(D, P),
           Persist, ~spoiled, ~spoiled' \/ Again, regular \in BOOLEAN,
           Len(stack) = 1, Top.ref.art \notin Derived
    PROVE  WalkInv(D, P)' /\ \E r : EndsAs(r)
  <1>1. PICK a, c, r : a = Top.ref.art /\ c = Rederived(Top) /\ r = Ref(a, Version(a, c))
    OBVIOUS
  <1>2. /\ a \in Artifacts /\ UNCHANGED <<origin, recipe, regular>> /\ Steady(D) /\ Grows
        /\ r = Latest(a)' /\ r \in AnyRef /\ Uses[a] \subseteq D /\ ~spoiled'
    <2>1. Made(D, P, a, c, r)
      BY <1>1, Published
    <2> QED BY <2>1 DEF Made
  <1>3. /\ a = origin.art /\ ComesFrom(P, a, origin)'
        /\ Again => log' = log /\ settled.result = Latest(a)
    BY <1>1, RootPublished
  <1>4. /\ stack' = <<>> /\ outcome' = r
        /\ settled' = [ref |-> origin, result |-> r, regular |-> regular]
    BY <1>1, <1>2 DEF Persist, Finish
  <1>5. RootInv(D, P)
    BY TopIs DEF Persist, At
  <1>6. DoneInv(D, P)' /\ PlanInv(P)'
    BY <1>2, DoneStays, PlanStays DEF WalkInv
  <1>7. \A x \in D : Rank[x] < Rank[a]
    BY <1>3, <1>5 DEF RootInv
  <1>8. settled'.ref = origin /\ settled'.result = r
    BY <1>4
  <1>9. SettledInv(D, P)'
    <2>1. ComesFrom(P, a, settled.ref)'
      BY <1>2, <1>3, <1>8 DEF ComesFrom, Snapshot, CitesSource
    <2> QED BY <1>2, <1>3, <1>4, <1>7, <1>8, <2>1 DEF SettledInv
  <1>10. DOMAIN stack' = {}
    BY <1>4
  <1>11. Again => r = settled.result
    BY <1>2, <1>3 DEF Latest, Ref
  <1>12. settled' # None
    <2>1. [ref |-> origin, result |-> r, regular |-> regular]
            \in [ref : AnyRef, result : AnyRef, regular : BOOLEAN]
      BY <1>2, <1>5 DEF RootInv
    <2> QED BY <1>4, <2>1, NoneAssumption
  <1> QED BY <1>12, <1>2, <1>4, <1>6, <1>9, <1>10, <1>11 DEF WalkInv, EndsAs

\* What the tool reads back is what the walk has just published.
LEMMA CleanReread ==
    ASSUME TypeInv, Distinct, NEW D \in SUBSET Derived, NEW P \in Plan, WalkInv(D, P),
           Reread, ~spoiled, regular \in BOOLEAN
    PROVE  WalkInv(D, P)' /\ (\E r : EndsAs(r)) /\ ~spoiled' /\ log' = log
  <1>1. PICK r, a, found, c :
          /\ r = Top.ref /\ a = r.art /\ found = kernel[Variable[a]]
          /\ c = [Snapshot(r) EXCEPT !.value = found]
    OBVIOUS
  <1>2. stack # <<>> /\ Top.step = "reread"
    BY DEF Reread, At
  <1>3. /\ Top = stack[Len(stack)] /\ FrameOK(Top) /\ FrameInv(D, P, Top)
        /\ LinkInv(Len(stack)) /\ RootInv(D, P) /\ a \in Artifacts
    BY <1>1, <1>2, TopIs
  <1>4. Len(stack) = 1
    <2>1. PICK n \in Nat \ {0} : n = Len(stack)
      BY <1>2, StackTop DEF TypeInv
    <2>2. ~(n > 1)
      BY <1>2, <1>3, <2>1 DEF LinkInv
    <2> QED BY <2>1, <2>2
  <1>5. /\ a = origin.art /\ r = Latest(a) /\ ComesFrom(P, a, origin)
        /\ \A x \in D : Rank[x] < Rank[a]
        /\ origin \in AnyRef
    BY <1>1, <1>2, <1>3, <1>4 DEF RootInv
  <1>6. a \in Derived /\ found = ValueNow(a) /\ Uses[a] \subseteq D
    BY <1>1, <1>2, <1>3 DEF FrameOK, FrameInv
  <1>7. found # None
    BY <1>6, ValueNowIs
  <1>8. /\ stack' = <<>> /\ Keep(a, c) /\ Finish(Ref(a, Version(a, c)))
        /\ UNCHANGED <<cache, kernel, recipe, origin, regular>>
    BY <1>1, <1>7 DEF Reread, still
  <1>9. /\ Newest(a) \in Content /\ Snapshot(r) = Newest(a)
    BY <1>3, <1>5, LatestIs
  <1>10. c = Newest(a)
    <2>1. Newest(a).value = found
      BY <1>5, <1>6 DEF ComesFrom, UpToDate
    <2> QED BY <1>1, <1>9, <2>1 DEF Content
  <1>11. log' = log /\ Version(a, c) = Len(log[a]) /\ ~spoiled'
    BY <1>3, <1>8, <1>10, NewestKept
  <1>12. Ref(a, Version(a, c)) = Latest(a)
    BY <1>11 DEF Latest
  <1>13. /\ outcome' = Latest(a)
         /\ settled' = [ref |-> origin, result |-> Latest(a), regular |-> regular]
    BY <1>8, <1>11, <1>12 DEF Finish
  <1>14. Steady(D) /\ Grows
    BY <1>8, <1>11 DEF Steady, Grows
  <1>15. DoneInv(D, P)' /\ PlanInv(P)'
    BY <1>8, <1>14, DoneStays, PlanStays DEF WalkInv
  <1>16. settled'.ref = origin /\ settled'.result = Latest(a)
    BY <1>13
  <1>17. SettledInv(D, P)'
    <2>1. Latest(a)' = Latest(a)
      BY <1>11 DEF Latest
    <2>2. PICK o : o = origin
      OBVIOUS
    <2>3. ComesFrom(P, a, o)'
      <3>1. ComesFrom(P, a, o) /\ log'[a] = log[a]
        BY <1>5, <1>11, <2>2
      <3> QED BY <1>3, <1>6, <1>14, <3>1, ComesFromStays
    <2>4. ComesFrom(P, a, settled.ref)'
      BY <1>16, <2>2, <2>3
    <2> QED BY <1>3, <1>5, <1>6, <1>8, <1>16, <2>1, <2>4 DEF SettledInv
  <1>18. Again => Latest(a) = settled.result
    BY <1>2, <1>5 DEF WalkInv, SettledInv, Again
  <1>19. DOMAIN stack' = {}
    BY <1>8
  <1>20. settled' # None
    <2>1. Latest(a) \in AnyRef
      BY <1>3, LatestIs
    <2>2. [ref |-> origin, result |-> Latest(a), regular |-> regular]
            \in [ref : AnyRef, result : AnyRef, regular : BOOLEAN]
      BY <1>5, <2>1
    <2> QED BY <1>13, <2>2, NoneAssumption
  <1> QED BY <1>8, <1>11, <1>13, <1>15, <1>17, <1>18, <1>19, <1>20 DEF WalkInv, EndsAs
-----------------------------------------------------------------------------
(***************************************************************************)
(* The closure of a reference: nothing that it does not lead to, and all   *)
(* that its snapshot cites.                                                *)
(***************************************************************************)

\* Induction, for a set.
LEMMA SetInduction ==
    ASSUME NEW S, 0 \in S, \A n \in Nat : n \in S => n + 1 \in S
    PROVE  Nat \subseteq S
  <1> DEFINE less == OpToRel(<, Nat)
             gap == Nat \ S
  <1> SUFFICES ASSUME gap # {} PROVE FALSE
    OBVIOUS
  <1>1. \A x, y \in Nat : x < y => <<x, y>> \in less
    BY DEF OpToRel
  <1>2. IsWellFoundedOn(less, Nat)
    BY NatLessThanWellFounded
  <1> HIDE DEF less
  <1>3. PICK x \in gap : \A y \in gap : <<y, x>> \notin less
    <2>1. gap \subseteq Nat /\ gap # {}
      OBVIOUS
    <2> HIDE DEF gap
    <2> QED BY <1>2, <2>1, WFMin
  <1>4. x # 0 /\ x - 1 \in Nat /\ x - 1 < x /\ (x - 1) + 1 = x
    BY <1>3
  <1>5. x - 1 \in gap
    BY <1>3, <1>4
  <1> QED BY <1>1, <1>3, <1>4, <1>5

Grown(X) == X \cup UNION {Children(x) : x \in X}

\* R tells, after each number of steps, what is reached.
Reached(R, r, N) ==
    /\ Closure(r) = R[N] /\ R[0] = {r}
    /\ \A n \in Nat : n + 1 \in 0 .. N => R[n + 1] = Grown(R[n])

\* The recursion has a value: what is reached after as many steps as there are
\* artifacts.
LEMMA ReachIs ==
    ASSUME NEW r, NEW N \in Nat, N = Cardinality(Artifacts)
    PROVE  \E R : Reached(R, r, N)
  <1> DEFINE step(f, i) == IF i = 0 THEN {r} ELSE Grown(f[i - 1])
             upto(f, n) == f = [i \in 0 .. n |-> step(f, i)]
  <1>0. PICK some : some = {n \in Nat : \E f : upto(f, n)}
    OBVIOUS
  <1>1. 0 \in some
    <2> DEFINE g == [i \in 0 .. 0 |-> {r}]
    <2>1. g = [i \in 0 .. 0 |-> step(g, i)]
      OBVIOUS
    <2> HIDE DEF g
    <2>2. upto(g, 0)
      BY <2>1
    <2> QED BY <1>0, <2>2
  <1>2. ASSUME NEW n \in Nat, n \in some PROVE n + 1 \in some
    <2>1. PICK f : upto(f, n)
      BY <1>0, <1>2
    <2> DEFINE g == [i \in 0 .. n + 1 |-> IF i = n + 1 THEN step(f, n + 1) ELSE f[i]]
    <2>2. ASSUME NEW i \in 0 .. n + 1 PROVE g[i] = step(g, i)
      <3>1. CASE i = 0
        BY <2>1, <3>1
      <3>2. CASE i # 0 /\ i # n + 1
        <4>1. i \in 0 .. n /\ i - 1 \in 0 .. n /\ i - 1 # n + 1 /\ i - 1 \in 0 .. n + 1
          BY <3>2
        <4>2. g[i] = f[i] /\ g[i - 1] = f[i - 1]
          BY <3>2, <4>1
        <4>3. f[i] = step(f, i)
          BY <2>1, <4>1
        <4> QED BY <3>2, <4>2, <4>3
      <3>3. CASE i = n + 1
        <4>1. g[n + 1] = step(f, n + 1) /\ g[n] = f[n] /\ (n + 1) - 1 = n /\ n + 1 # 0
          OBVIOUS
        <4> HIDE DEF g
        <4> QED BY <3>3, <4>1
      <3> QED BY <3>1, <3>2, <3>3
    <2>3. g = [i \in 0 .. n + 1 |-> g[i]]
      OBVIOUS
    <2> HIDE DEF g, step
    <2>4. g = [i \in 0 .. n + 1 |-> step(g, i)]
      BY <2>2, <2>3
    <2>5. upto(g, n + 1)
      BY <2>4
    <2> HIDE DEF upto
    <2> QED BY <1>0, <2>5
  <1>3. N \in some
    <2> HIDE DEF upto
    <2> QED BY <1>1, <1>2, SetInduction
  <1> DEFINE reach == CHOOSE f : upto(f, N)
  <1>4. upto(reach, N)
    BY <1>0, <1>3
  <1>5. Closure(r) = reach[N]
    BY DEF Closure, Grown
  <1> HIDE DEF reach
  <1>6. ASSUME NEW i \in 0 .. N PROVE reach[i] = step(reach, i)
    BY <1>4
  <1>7. reach[0] = {r}
    BY <1>6
  <1>8. ASSUME NEW n \in Nat, n + 1 \in 0 .. N PROVE reach[n + 1] = Grown(reach[n])
    <2>1. n + 1 # 0 /\ (n + 1) - 1 = n
      OBVIOUS
    <2> QED BY <1>6, <1>8, <2>1
  <1> QED BY <1>5, <1>7, <1>8 DEF Reached

\* A set of references that leads nowhere else has the closures of its members.
LEMMA ClosureStays ==
    ASSUME NEW S, NEW r \in S, \A x \in S : Children(x) \subseteq S
    PROVE  Closure(r) \subseteq S
  <1>1. PICK N \in Nat : N = Cardinality(Artifacts)
    BY DerivationAssumption, FS_CardinalityType
  <1>2. PICK R : Reached(R, r, N)
    BY <1>1, ReachIs
  <1>3. PICK good : good = {n \in Nat : n <= N => R[n] \subseteq S}
    OBVIOUS
  <1>4. 0 \in good
    BY <1>2, <1>3 DEF Reached
  <1>5. ASSUME NEW n \in Nat, n \in good PROVE n + 1 \in good
    <2> SUFFICES ASSUME n + 1 <= N PROVE R[n + 1] \subseteq S
      BY <1>3
    <2>1. n <= N /\ n + 1 \in 0 .. N
      OBVIOUS
    <2>2. R[n] \subseteq S /\ R[n + 1] = Grown(R[n])
      BY <1>2, <1>3, <1>5, <2>1 DEF Reached
    <2> QED BY <2>2 DEF Grown
  <1>6. N \in good
    BY <1>4, <1>5, SetInduction
  <1> QED BY <1>2, <1>3, <1>6 DEF Reached

\* A closure has what its root cites.
LEMMA ClosureHas ==
    ASSUME NEW r, Artifacts # {}
    PROVE  r \in Closure(r) /\ Children(r) \subseteq Closure(r)
  <1>1. PICK N \in Nat : N = Cardinality(Artifacts)
    BY DerivationAssumption, FS_CardinalityType
  <1>2. PICK R : Reached(R, r, N)
    BY <1>1, ReachIs
  <1>3. N # 0
    BY <1>1, DerivationAssumption, FS_EmptySet
  <1>4. PICK good : good = {n \in Nat : n + 1 <= N => {r} \cup Children(r) \subseteq R[n + 1]}
    OBVIOUS
  <1>5. 0 \in good
    <2>1. R[0 + 1] = Grown(R[0])
      <3>1. 0 + 1 \in 0 .. N
        BY <1>3
      <3> QED BY <1>2, <3>1 DEF Reached
    <2>2. {r} \cup Children(r) \subseteq Grown({r})
      BY DEF Grown
    <2> QED BY <1>2, <1>4, <2>1, <2>2 DEF Reached
  <1>6. ASSUME NEW n \in Nat, n \in good PROVE n + 1 \in good
    <2> SUFFICES ASSUME (n + 1) + 1 <= N PROVE {r} \cup Children(r) \subseteq R[(n + 1) + 1]
      BY <1>4
    <2>1. n + 1 <= N /\ n + 1 \in Nat /\ (n + 1) + 1 \in 0 .. N
      OBVIOUS
    <2>2. {r} \cup Children(r) \subseteq R[n + 1] /\ R[(n + 1) + 1] = Grown(R[n + 1])
      BY <1>2, <1>4, <1>6, <2>1 DEF Reached
    <2> QED BY <2>2 DEF Grown
  <1>7. N - 1 \in Nat /\ (N - 1) + 1 = N /\ N <= N
    BY <1>3
  <1>8. N - 1 \in good
    BY <1>5, <1>6, <1>7, SetInduction
  <1>9. {r} \cup Children(r) \subseteq R[N]
    BY <1>4, <1>7, <1>8
  <1> QED BY <1>2, <1>9 DEF Reached

\* What is reached stays reached.
LEMMA ReachGrows ==
    ASSUME NEW R, NEW r, NEW N \in Nat, Reached(R, r, N)
    PROVE  \A k \in 0 .. N : R[k] \subseteq R[N]
  <1>1. PICK good : good = {n \in Nat : n <= N => \A k \in 0 .. n : R[k] \subseteq R[n]}
    OBVIOUS
  <1>2. 0 \in good
    <2>1. \A k \in 0 .. 0 : k = 0
      OBVIOUS
    <2> QED BY <1>1, <2>1
  <1>3. ASSUME NEW n \in Nat, n \in good PROVE n + 1 \in good
    <2> SUFFICES ASSUME n + 1 <= N, NEW k \in 0 .. n + 1 PROVE R[k] \subseteq R[n + 1]
      BY <1>1
    <2>1. n <= N /\ n + 1 \in 0 .. N /\ (k = n + 1 \/ k \in 0 .. n)
      OBVIOUS
    <2>2. R[n + 1] = Grown(R[n])
      BY <2>1 DEF Reached
    <2>3. R[n] \subseteq R[n + 1]
      BY <2>2 DEF Grown
    <2>4. k \in 0 .. n => R[k] \subseteq R[n]
      BY <1>1, <1>3, <2>1
    <2> QED BY <2>1, <2>3, <2>4
  <1>4. N \in good
    BY <1>2, <1>3, SetInduction
  <1> QED BY <1>1, <1>4

\* A closure is of what there is, and has all that its snapshots cite: there are as
\* many steps as a lineage can be deep.
LEMMA ClosureClosed ==
    ASSUME TypeInv, NEW r \in AllRefs, r.art \in Artifacts
    PROVE  /\ r \in Closure(r) /\ Closure(r) \subseteq AllRefs
           /\ \A x \in Closure(r) : Children(x) \subseteq Closure(r)
  <1>1. PICK N \in Nat : N = Cardinality(Artifacts)
    BY DerivationAssumption, FS_CardinalityType
  <1>2. PICK R : Reached(R, r, N)
    BY <1>1, ReachIs
  <1>3. ASSUME NEW x \in AllRefs PROVE Children(x) \subseteq AllRefs
    <2>1. CASE x.art \in Artifacts
      <3>1. ContentOK(x.art, Snapshot(x))
        BY <2>1, ArtifactRef
      <3> QED BY <2>1, <3>1 DEF Children, ContentOK, IsContent
    <2>2. CASE x.art \notin Artifacts
      BY <2>2 DEF Children
    <2> QED BY <2>1, <2>2
  <1>4. PICK S : S = AllRefs
    OBVIOUS
  <1>5. Closure(r) \subseteq S
    BY <1>3, <1>4, ClosureStays
  <1>6. /\ \A k \in 0 .. N : R[k] \subseteq R[N]
        /\ Closure(r) = R[N] /\ R[0] = {r} /\ 0 \in 0 .. N
    BY <1>2, ReachGrows DEF Reached
  <1>7. \A a \in Artifacts : Rank[a] \in 1 .. N
    BY <1>1, RankFalls
  <1> DEFINE Low(n, x) == \E k \in 0 .. n : x \in R[k] /\ Rank[x.art] + k <= N
  <1>8. PICK good : good = {n \in Nat : n <= N =>
                              \A x \in R[n] : x.art \in Artifacts => Low(n, x)}
    OBVIOUS
  <1>9. 0 \in good
    <2>1. \A x \in R[0] : Low(0, x)
      <3> SUFFICES Low(0, r)
        BY <1>6
      <3>1. Rank[r.art] + 0 <= N /\ 0 \in 0 .. 0
        BY <1>7
      <3> QED BY <1>6, <3>1
    <2> QED BY <1>8, <2>1
  <1>10. ASSUME NEW n \in Nat, n \in good PROVE n + 1 \in good
    <2> SUFFICES ASSUME n + 1 <= N, NEW x \in R[n + 1], x.art \in Artifacts
                 PROVE  Low(n + 1, x)
      BY <1>8
    <2>1. n <= N /\ n + 1 \in 0 .. N /\ n \in 0 .. N
      OBVIOUS
    <2>2. R[n + 1] = Grown(R[n])
      BY <1>2, <2>1 DEF Reached
    <2>3. \A y \in R[n] : y.art \in Artifacts => Low(n, y)
      BY <1>8, <1>10, <2>1
    <2>4. CASE x \in R[n]
      <3>1. PICK k \in 0 .. n : x \in R[k] /\ Rank[x.art] + k <= N
        BY <2>3, <2>4
      <3>2. k \in 0 .. n + 1
        OBVIOUS
      <3> QED BY <3>1, <3>2
    <2>5. CASE x \notin R[n]
      <3>1. PICK y \in R[n] : x \in Children(y)
        BY <2>2, <2>5 DEF Grown
      <3>2. y.art \in Artifacts /\ y \in AllRefs /\ x \in Snapshot(y).cites
        BY <1>4, <1>5, <1>6, <2>1, <3>1 DEF Children
      <3>3. PICK k \in 0 .. n : y \in R[k] /\ Rank[y.art] + k <= N
        BY <2>3, <3>1, <3>2
      <3>4. Rank[x.art] < Rank[y.art]
        <4>1. ContentOK(y.art, Snapshot(y))
          BY <3>2, ArtifactRef
        <4>2. x.art \in CitableArts(y.art)
          BY <3>2, <4>1 DEF ContentOK
        <4>3. x.art \notin Notebooks /\ x.art # Source
          BY RefreshAssumption
        <4>4. x.art \in Uses[y.art]
          BY <4>2, <4>3 DEF CitableArts, Notebooks
        <4> QED BY <3>2, <4>4, RankFalls
      <3>5. Rank[x.art] \in Nat /\ Rank[y.art] \in Nat
        BY <1>7, <3>2
      <3>6. k \in Nat /\ k + 1 \in 0 .. n + 1 /\ k + 1 \in 0 .. N /\ Rank[x.art] + (k + 1) <= N
        BY <2>1, <3>3, <3>4, <3>5
      <3>7. x \in R[k + 1]
        <4>1. R[k + 1] = Grown(R[k])
          BY <1>2, <3>6 DEF Reached
        <4> QED BY <3>1, <3>3, <4>1 DEF Grown
      <3> QED BY <3>6, <3>7
    <2> QED BY <2>4, <2>5
  <1>11. N \in good
    BY <1>9, <1>10, SetInduction
  <1>12. ASSUME NEW x \in R[N] PROVE Children(x) \subseteq R[N]
    <2>1. CASE x.art \notin Artifacts
      BY <2>1 DEF Children
    <2>2. CASE x.art \in Artifacts
      <3>1. PICK k \in 0 .. N : x \in R[k] /\ Rank[x.art] + k <= N
        BY <1>8, <1>11, <1>12, <2>2
      <3>2. Rank[x.art] \in 1 .. N
        BY <1>7, <2>2
      <3>3. k \in Nat /\ k + 1 \in 0 .. N
        BY <3>1, <3>2
      <3>4. R[k + 1] = Grown(R[k])
        BY <1>2, <3>3 DEF Reached
      <3>5. Children(x) \subseteq R[k + 1]
        BY <3>1, <3>4 DEF Grown
      <3> QED BY <1>6, <3>3, <3>5
    <2> QED BY <2>1, <2>2
  <1> QED BY <1>4, <1>5, <1>6, <1>12

-----------------------------------------------------------------------------
(***************************************************************************)
(* A walk begins.                                                          *)
(***************************************************************************)

\* When nothing goes on and nothing is to be followed there is nothing to say.
LEMMA Quiet ==
    /\ stack = <<>> /\ ~Follow => Planned
    /\ stack' = <<>> /\ ~Follow' => Planned'
  <1>1. PICK P : P = [words |-> [a \in Artifacts |-> 0], cited |-> {}]
    OBVIOUS
  <1>2. P \in Plan /\ P.cited = {}
    BY <1>1 DEF Plan
  <1>3. DOMAIN <<>> = {} /\ {} \in SUBSET Derived
    OBVIOUS
  <1>4. stack = <<>> /\ ~Follow => WalkInv({}, P)
    BY <1>2, <1>3 DEF WalkInv, PlanInv, DoneInv, SettledInv
  <1>5. stack' = <<>> /\ ~Follow' => WalkInv({}, P)'
    BY <1>2, <1>3 DEF WalkInv, PlanInv, DoneInv, SettledInv
  <1> QED BY <1>2, <1>3, <1>4, <1>5 DEF Planned

\* The first refresh has done nothing yet.
LEMMA BeginsWith ==
    ASSUME TypeInv, NEW a \in Artifacts, Begin(a),
           NEW D \in SUBSET Derived, NEW Q \in Plan, PlanInv(Q), DoneInv(D, Q),
           Latest(a) \in Q.cited, \A x \in D : Rank[x] < Rank[a],
           SettledInv(D, Q)'
    PROVE  Planned'
  <1>1. /\ stack' = <<Frame(Latest(a))>> /\ origin' = Latest(a)
        /\ UNCHANGED <<cache, log, recipe>>
    BY DEF Begin, tree
  <1>2. PICK f : f = Frame(Latest(a))
    OBVIOUS
  <1>3. /\ f.ref = Latest(a) /\ f.step = "read" /\ f.todo = {} /\ f.fresh = {}
        /\ f.objects = {} /\ f.value = None
    BY <1>2 DEF Frame
  <1>4. /\ DOMAIN stack' = {1} /\ stack'[1] = f /\ Len(stack') = 1
    BY <1>1, <1>2
  <1>5. Latest(a).art = a /\ Latest(a) \in AnyRef /\ Latest(a)' = Latest(a)
    BY <1>1, LatestIs DEF Latest, Ref
  <1>6. PlanInv(Q)' /\ DoneInv(D, Q)'
    <2>1. Grows /\ Steady(D)
      BY <1>1 DEF Grows, Steady
    <2> QED BY <1>1, <2>1, PlanStays, DoneStays
  <1>7. FrameInv(D, Q, f)'
    BY <1>3 DEF FrameInv
  <1>8. LinkInv(1)'
    BY <1>3, <1>4 DEF LinkInv
  <1>9. RootInv(D, Q)'
    BY <1>1, <1>3, <1>4, <1>5 DEF RootInv
  <1>10. WalkInv(D, Q)'
    BY <1>4, <1>6, <1>7, <1>8, <1>9 DEF WalkInv
  <1> QED BY <1>10 DEF Planned

\* What is up to date cites the latest version of what it is made from, and follows
\* its notebook.
LEMMA LatestFits ==
    ASSUME TypeInv, NEW P, NEW Q, NEW D \in SUBSET Derived, NEW x \in Artifacts,
           Uses[x] \subseteq D, UpToDate(P, x), Q.words = P.words,
           \A u \in D : Latest(u) \in Q.cited
    PROVE  Fits(Q, Latest(x))
  <1>1. /\ Latest(x) \in AllRefs /\ Latest(x).art = x
        /\ Snapshot(Latest(x)) = Newest(x)
    BY LatestIs
  <1>2. /\ Newest(x).words = Q.words[x] /\ Newest(x).cites = CitesNow(x) /\ Served(x)
    BY DEF UpToDate
  <1>3. ASSUME NEW y \in CitesNow(x)
        PROVE  \/ \E u \in Uses[x] : y = Latest(u)
               \/ x \in Derived /\ y \in Fetched(Notebook[x])
               \/ x \in Derived /\ y = Code(Notebook[x])
    BY <1>3 DEF CitesNow
  <1>4. \A n : Code(n).art = n /\ \A y \in Fetched(n) : y.art = Source
    BY RefIs DEF Code, Fetched
  <1>5. \A u : Latest(u).art = u
    BY RefIs
  <1>6. x \in Derived => Notebook[x] \in Notebooks
    BY DEF Notebooks
  <1>7. ASSUME NEW y \in CitesNow(x), y.art \in Derived PROVE y \in Q.cited
    <2>1. y.art # Source /\ y.art \notin Notebooks
      BY <1>7, RefreshAssumption DEF Artifacts
    <2>2. \E u \in Uses[x] : y = Latest(u)
      BY <1>3, <1>4, <1>6, <2>1
    <2> QED BY <2>2
  <1>8. ASSUME NEW y \in CitesNow(x), y.art = Source
        PROVE  x \in Derived => LatestRecipe(Notebook[x]).fetches
    <2>1. Source \notin Artifacts /\ Source \notin Notebooks /\ Uses[x] \subseteq Artifacts
      BY RefreshAssumption DEF Artifacts
    <2>2. x \in Derived => y \in Fetched(Notebook[x])
      BY <1>3, <1>4, <1>5, <1>6, <1>8, <2>1
    <2> QED BY <2>2 DEF Fetched
  <1>9. x \in Derived => Follows(Latest(x))
    BY <1>1, <1>2, <1>8 DEF Follows, Served, CitesSource
  <1> QED BY <1>1, <1>2, <1>7, <1>9 DEF Fits

\* The refresh of the same artifact again may meet what the last one left.
LEMMA BeginsAgain ==
    ASSUME TypeInv, NEW a \in Artifacts, Begin(a), Planned, Follow, settled.ref.art = a
    PROVE  Planned'
  <1>1. stack = <<>> /\ UNCHANGED <<cache, log, recipe, settled>>
    BY DEF Begin, tree
  <1>2. PICK D \in SUBSET Derived, P \in Plan : WalkInv(D, P)
    BY DEF Planned
  <1>3. PICK r : r = settled.ref
    OBVIOUS
  <1>4. /\ settled.result = Latest(a) /\ ComesFrom(P, a, r)
        /\ Uses[a] \subseteq D /\ \A x \in D : Rank[x] < Rank[a]
    BY <1>1, <1>2, <1>3 DEF WalkInv, SettledInv
  <1>5. PICK Q : Q = [words |-> P.words, cited |-> {Latest(x) : x \in D \cup {a}}]
    OBVIOUS
  <1>6. D \subseteq Artifacts
    BY DEF Artifacts
  <1>7. Q \in Plan
    <2>1. \A x \in D \cup {a} : Latest(x) \in AnyRef
      BY <1>6, LatestIs
    <2>2. {Latest(x) : x \in D \cup {a}} \in SUBSET AnyRef
      BY <2>1
    <2> QED BY <1>5, <2>2 DEF Plan
  <1>8. Q.words = P.words /\ Q.cited = {Latest(x) : x \in D \cup {a}}
    BY <1>5
  <1>9. \A x : UpToDate(Q, x) <=> UpToDate(P, x)
    BY <1>8 DEF UpToDate
  <1>10. DoneInv(D, Q)
    BY <1>2, <1>9 DEF WalkInv, DoneInv
  <1>11. \A x \in D \cup {a} : x \in Artifacts /\ Uses[x] \subseteq D /\ UpToDate(P, x)
    BY <1>2, <1>4, <1>6 DEF WalkInv, DoneInv, ComesFrom
  <1>12. PlanInv(Q)
    <2>1. ASSUME NEW x \in D \cup {a} PROVE Fits(Q, Latest(x))
      <3>1. x \in Artifacts /\ Uses[x] \subseteq D /\ UpToDate(P, x)
        BY <1>11
      <3>2. Q.words = P.words /\ \A u \in D : Latest(u) \in Q.cited
        BY <1>8
      <3> QED BY <3>1, <3>2, LatestFits
    <2> QED BY <1>8, <2>1 DEF PlanInv
  <1>13. SettledInv(D, Q)'
    <2>1. ComesFrom(Q, a, r)
      BY <1>4, <1>8, <1>9 DEF ComesFrom
    <2>2. Steady(D)
      BY <1>1 DEF Steady
    <2>3. ComesFrom(Q, a, r)'
      BY <1>1, <1>4, <2>1, <2>2, ComesFromStays
    <2>4. Latest(a)' = Latest(a)
      BY <1>1 DEF Latest
    <2>5. \A x \in Q.cited : x.art \in D \cup {a}
      BY <1>8, RefIs
    <2> QED BY <1>1, <1>3, <1>4, <2>3, <2>4, <2>5 DEF SettledInv
  <1>14. Latest(a) \in Q.cited
    BY <1>8
  <1> QED BY <1>4, <1>7, <1>10, <1>12, <1>13, <1>14, BeginsWith

\* A walk from a regular lineage meets nothing but what is in it.
LEMMA BeginsRegular ==
    ASSUME TypeInv, NEW a \in Artifacts, Begin(a), Regular(Latest(a)), ~Again'
    PROVE  Planned'
  <1>1. PICK r : r = Latest(a)
    OBVIOUS
  <1>2. r \in AllRefs /\ r.art = a
    BY <1>1, LatestIs
  <1>3. PICK X : X = {x \in Closure(r) : x.art \in Artifacts}
    OBVIOUS
  <1>4. /\ r \in X
        /\ \A x \in X : x \in AllRefs /\ x.art \in Artifacts
        /\ \A x \in X : \A y \in Snapshot(x).cites : y.art \in Derived => y \in X
    <2>1. /\ r \in Closure(r) /\ Closure(r) \subseteq AllRefs
          /\ \A x \in Closure(r) : Children(x) \subseteq Closure(r)
      BY <1>2, ClosureClosed
    <2> QED BY <1>2, <1>3, <2>1 DEF Children, Artifacts
  <1>5. /\ \A x \in X : x.art \in Derived => Follows(x)
        /\ \A x, y \in X : x.art = y.art => Snapshot(x).words = Snapshot(y).words
    BY <1>1, <1>3 DEF Regular
  <1>6. \A x \in X : Snapshot(x).words \in Nat
    BY <1>4, ArtifactRef DEF Content
  <1> DEFINE said(b) == {w \in Nat : \E x \in X : x.art = b /\ Snapshot(x).words = w}
  <1>7. PICK W : W = [b \in Artifacts |-> IF said(b) = {} THEN 0 ELSE CHOOSE w \in said(b) : TRUE]
    OBVIOUS
  <1>8. W \in [Artifacts -> Nat]
    <2>1. \A b \in Artifacts : (IF said(b) = {} THEN 0 ELSE CHOOSE w \in said(b) : TRUE) \in Nat
      <3> TAKE b \in Artifacts
      <3>1. said(b) \subseteq Nat
        OBVIOUS
      <3> HIDE DEF said
      <3> QED BY <3>1
    <2> HIDE DEF said
    <2> QED BY <1>7, <2>1
  <1>9. ASSUME NEW x \in X PROVE Snapshot(x).words = W[x.art]
    <2>1. Snapshot(x).words \in said(x.art) /\ x.art \in Artifacts
      BY <1>4, <1>6
    <2>2. \A w \in said(x.art) : w = Snapshot(x).words
      BY <1>5
    <2> HIDE DEF said
    <2> QED BY <1>7, <2>1, <2>2
  <1>10. PICK Q : Q = [words |-> W, cited |-> X]
    OBVIOUS
  <1>11. Q \in Plan /\ Q.words = W /\ Q.cited = X
    BY <1>4, <1>8, <1>10, RefsTyped DEF Plan
  <1>12. PlanInv(Q)
    BY <1>4, <1>5, <1>9, <1>11 DEF PlanInv, Fits
  <1>13. DoneInv({}, Q)
    BY DEF DoneInv
  <1>14. SettledInv({}, Q)'
    <2>1. stack' # <<>>
      BY DEF Begin
    <2> QED BY <2>1 DEF SettledInv
  <1>15. Latest(a) \in Q.cited
    BY <1>1, <1>4, <1>11
  <1> HIDE DEF said
  <1> QED BY <1>11, <1>12, <1>13, <1>14, <1>15, BeginsWith

\* Either it follows one that is known, or its lineage is regular, or nothing is said.
LEMMA CleanBegin ==
    ASSUME TypeInv, CleanInv, NEW a \in Artifacts, Begin(a)
    PROVE  CleanInv'
  <1>1. /\ stack = <<>> /\ stack' # <<>> /\ settled' = settled
        /\ spoiled' = FALSE /\ regular' = Regular(Latest(a)) /\ origin' = Latest(a)
    BY DEF Begin
  <1>2. Latest(a).art = a
    BY RefIs
  <1>3. Again' <=> Follow /\ settled.ref.art = a
    BY <1>1, <1>2 DEF Again, Follow
  <1>4. Planned
    BY <1>1 DEF CleanInv
  <1>5. CASE Again'
    BY <1>1, <1>3, <1>4, <1>5, BeginsAgain DEF CleanInv
  <1>6. CASE ~Again' /\ Regular(Latest(a))
    BY <1>1, <1>6, BeginsRegular DEF CleanInv
  <1>7. CASE ~Again' /\ ~Regular(Latest(a))
    BY <1>1, <1>7 DEF CleanInv, Sound
  <1> QED BY <1>5, <1>6, <1>7

-----------------------------------------------------------------------------
(***************************************************************************)
(* Every step keeps it.                                                    *)
(***************************************************************************)

\* What a walk that ends, ends with.
Ends == stack # <<>> /\ stack' = <<>> /\ outcome' # Refused => \E r : EndsAs(r)

\* A sound walk, in a step that does not spoil it.
LEMMA CleanWalk ==
    ASSUME TypeInv, Distinct, NEW D \in SUBSET Derived, NEW P \in Plan, WalkInv(D, P),
           Walk, ~NotebookRaises, ~spoiled, ~spoiled' \/ Again, regular \in BOOLEAN
    PROVE  ~spoiled' /\ Planned' /\ Ends /\ Tells
  <1>1. ASSUME WalkInv(D, P)', stack' # <<>>, UNCHANGED <<log, spoiled>>
        PROVE  ~spoiled' /\ Planned' /\ Ends /\ Tells
    <2>1. Tells
      BY <1>1, NothingTells
    <2> QED BY <1>1, <2>1 DEF Planned, Ends
  <1>2. CASE ReadSnapshot
    BY <1>1, <1>2, CleanRead
  <1>3. CASE Descend
    BY <1>1, <1>3, CleanDescend
  <1>4. CASE RunNotebook
    BY <1>1, <1>4, CleanRun
  <1>5. CASE GetVariable
    BY <1>1, <1>5, CleanGet
  <1>6. CASE Persist
    <2>1. PICK a, c, r : a = Top.ref.art /\ c = Rederived(Top) /\ r = Ref(a, Version(a, c))
      OBVIOUS
    <2>2. Made(D, P, a, c, r)
      BY <1>6, <2>1, Published
    <2>3. ~spoiled' /\ Tells /\ stack # <<>>
      BY <2>2 DEF Made
    <2>4. CASE Len(stack) > 1
      BY <1>6, <2>3, <2>4, CleanReturn DEF Planned, Ends
    <2>5. CASE Len(stack) = 1 /\ Top.ref.art \in Derived
      BY <1>6, <2>3, <2>5, CleanHandOver DEF Planned, Ends
    <2>6. CASE Len(stack) = 1 /\ Top.ref.art \notin Derived
      BY <1>6, <2>3, <2>6, CleanReport DEF Planned, Ends
    <2>7. Len(stack) > 1 \/ Len(stack) = 1
      <3>1. PICK n \in Nat \ {0} : n = Len(stack)
        BY <2>3, TopIs
      <3>2. n > 1 \/ n = 1
        OBVIOUS
      <3> QED BY <3>1, <3>2
    <2> QED BY <2>4, <2>5, <2>6, <2>7
  <1>7. CASE Reread
    <2>1. WalkInv(D, P)' /\ (\E r : EndsAs(r)) /\ ~spoiled' /\ log' = log
      BY <1>7, CleanReread
    <2>2. Tells
      BY <2>1, NothingTells
    <2> QED BY <2>1, <2>2 DEF Planned, Ends
  <1> QED BY <1>2, <1>3, <1>4, <1>5, <1>6, <1>7 DEF Walk

\* What any step of a walk does to what is remembered of it.
Still ==
    /\ UNCHANGED <<recipe, origin, regular>> /\ stack # <<>>
    /\ spoiled => spoiled'
    /\ \/ stack' # <<>> /\ settled' \in {settled, None}
       \/ stack' = <<>> /\ settled' = None
       \/ stack' = <<>> /\ ~spoiled' /\ settled'.regular = regular

\* A frame that is replaced or joined leaves a stack that is not empty.
LEMMA NotEmpty ==
    ASSUME TypeInv, stack # <<>>
    PROVE  /\ \A f : Stay(f) => stack' # <<>>
           /\ \A f, g : stack' = Append(Append(Below, f), g) => stack' # <<>>
  <1>1. ASSUME NEW S, NEW s \in Seq(S), NEW f PROVE Append(s, f) # <<>> /\ Append(s, f) \in Seq(S \cup {f})
    <2>1. PICK T : T = S \cup {f}
      OBVIOUS
    <2>2. s \in Seq(T) /\ f \in T
      BY <2>1
    <2>3. PICK t : t = Append(s, f)
      OBVIOUS
    <2>4. t \in Seq(T) /\ Len(t) = Len(s) + 1 /\ Len(s) \in Nat
      BY <2>2, <2>3, AppendProperties
    <2>5. t # <<>>
      BY <2>4
    <2> QED BY <2>1, <2>3, <2>4, <2>5
  <1>2. Below \in Seq(WalkFrame)
    BY StackTop DEF TypeInv
  <1> QED BY <1>1, <1>2 DEF Stay

\* A walk that ends forgets, or is remembered as it was.
LEMMA WalkStill ==
    ASSUME TypeInv, Walk
    PROVE  Still
  <1>1. ASSUME Refuse, stack # <<>> PROVE Still
    BY <1>1 DEF Refuse, still, Still
  <1>2. CASE ReadSnapshot
    BY <1>2, NotEmpty DEF ReadSnapshot, At, still, Still
  <1>3. CASE Descend
    BY <1>3, NotEmpty DEF Descend, At, still, Still
  <1>4. CASE RunNotebook
    BY <1>4, NotEmpty DEF RunNotebook, At, still, Still
  <1>5. CASE NotebookRaises
    BY <1>5, NotEmpty DEF NotebookRaises, At, Still
  <1>6. CASE GetVariable
    BY <1>1, <1>6, NotEmpty DEF GetVariable, At, still, Still
  <1>7. CASE Persist
    <2>1. PICK c, r : c = Rederived(Top) /\ r = Ref(Top.ref.art, Version(Top.ref.art, c))
      OBVIOUS
    <2>2. /\ stack # <<>> /\ UNCHANGED <<recipe, origin, regular>>
          /\ Keep(Top.ref.art, c)
      BY <1>7, <2>1 DEF Persist, At, still
    <2>3. spoiled => spoiled'
      BY <2>2 DEF Keep
    <2>4. CASE Len(stack) > 1
      <3>1. settled' = settled /\ stack' = [Below EXCEPT ![Len(Below)].fresh =
                              {x \in @ : x.art # r.art} \cup {r}]
        BY <1>7, <2>1, <2>4 DEF Persist
      <3>2. stack' # <<>>
        <4>1. Len(Below) = Len(stack) - 1 /\ Below \in Seq(WalkFrame) /\ Len(stack) \in Nat
          BY <2>2, StackTop DEF TypeInv
        <4>2. DOMAIN Below # {}
          <5>1. PICK n \in Nat : n = Len(stack)
            BY <4>1
          <5>2. n - 1 \in 1 .. n - 1
            BY <2>4, <5>1
          <5>3. DOMAIN Below = 1 .. Len(Below)
            BY <4>1
          <5> QED BY <4>1, <5>1, <5>2, <5>3
        <4>3. DOMAIN stack' = DOMAIN Below
          BY <3>1
        <4> QED BY <4>2, <4>3
      <3> QED BY <2>2, <2>3, <3>1, <3>2 DEF Still
    <2>5. CASE ~(Len(stack) > 1) /\ Top.ref.art \in Derived
      <3>1. settled' = settled /\ \E f : Stay(f)
        BY <1>7, <2>5 DEF Persist
      <3> QED BY <2>2, <2>3, <3>1, NotEmpty DEF Still
    <2>6. CASE ~(Len(stack) > 1) /\ Top.ref.art \notin Derived
      <3>1. stack' = <<>> /\ Finish(r)
        BY <1>7, <2>1, <2>6 DEF Persist
      <3> QED BY <2>2, <2>3, <3>1 DEF Finish, Still
    <2> QED BY <2>4, <2>5, <2>6
  <1>8. CASE Reread
    <2>1. PICK c : c = [Snapshot(Top.ref) EXCEPT !.value = kernel[Variable[Top.ref.art]]]
      OBVIOUS
    <2>2. CASE Refuse
      BY <1>1, <1>8, <2>2 DEF Reread, At
    <2>3. CASE ~Refuse
      <3>1. /\ stack # <<>> /\ stack' = <<>> /\ Keep(Top.ref.art, c)
            /\ Finish(Ref(Top.ref.art, Version(Top.ref.art, c)))
            /\ UNCHANGED <<recipe, origin, regular>>
        BY <1>8, <2>1, <2>3 DEF Reread, At, still
      <3> QED BY <3>1 DEF Finish, Keep, Still
    <2> QED BY <2>2, <2>3
  <1> QED BY <1>2, <1>3, <1>4, <1>5, <1>6, <1>7, <1>8 DEF Walk

\* The source moves, or nothing happens.
LEMMA CleanStays ==
    ASSUME CleanInv, TypeInv,
           UNCHANGED <<cache, kernel, recipe, log, stack, origin, regular, spoiled>>,
           settled' \in {settled, None}
    PROVE  CleanInv'
  <1>1. (Again' => Again) /\ (Follow' => Follow) /\ (Sound' => Sound)
    BY DEF Again, Follow, Sound
  <1>2. ASSUME NEW D \in SUBSET Derived, NEW P \in Plan, WalkInv(D, P)
        PROVE  WalkInv(D, P)'
    <2>1. Grows /\ Steady(D) /\ Steady(Derived)
      BY DEF Grows, Steady
    <2>2. PlanInv(P)' /\ DoneInv(D, P)'
      BY <1>2, <2>1, PlanStays, DoneStays DEF WalkInv
    <2>3. \A x : Latest(x)' = Latest(x) /\ Newest(x)' = Newest(x)
      BY DEF Latest, Ref, Newest
    <2>4. \A a \in Artifacts : Uses[a] \subseteq Derived
      BY RefreshAssumption
    <2>5. \A a \in Artifacts : \A r : ComesFrom(P, a, r) => ComesFrom(P, a, r)'
      BY <2>1, <2>4, ComesFromStays
    <2>6. SettledInv(D, P)'
      BY <1>1, <1>2, <2>3, <2>5 DEF WalkInv, SettledInv, Follow
    <2>7. stack # <<>> => RootInv(D, P)'
      <3> SUFFICES ASSUME stack # <<>> PROVE RootInv(D, P)'
        OBVIOUS
      <3>1. RootInv(D, P) /\ origin.art \in Artifacts
        BY <1>2, TopIs DEF WalkInv
      <3> QED BY <2>3, <2>5, <3>1 DEF RootInv
    <2>8. ASSUME NEW i \in DOMAIN stack PROVE FrameInv(D, P, stack[i])' /\ LinkInv(i)'
      <3>1. FrameInv(D, P, stack[i]) /\ LinkInv(i) /\ FrameOK(stack[i])
        BY <1>2 DEF WalkInv, TypeInv
      <3>2. LinkInv(i)'
        BY <3>1 DEF LinkInv
      <3>3. PICK f, a : f = stack[i] /\ a = f.ref.art
        OBVIOUS
      <3>4. f.step \in {"get", "persist", "reread"} => a \in Derived /\ Served(a)
        BY <3>1, <3>3 DEF FrameInv, FrameOK
      <3>5. f.step \in {"get", "persist", "reread"} =>
              /\ ValueNow(a)' = ValueNow(a) /\ Served(a)'
              /\ Fetched(Notebook[a])' = Fetched(Notebook[a])
              /\ Code(Notebook[a])' = Code(Notebook[a])
        BY <2>1, <2>4, <3>4, NowStays DEF Artifacts
      <3>6. FrameInv(D, P, f)'
        BY <2>3, <3>1, <3>3, <3>5 DEF FrameInv
      <3> QED BY <3>2, <3>3, <3>6
    <2> QED BY <2>2, <2>6, <2>7, <2>8 DEF WalkInv
  <1>3. Planned => Planned'
    BY <1>2 DEF Planned
  <1> QED BY <1>1, <1>3 DEF CleanInv

\* Whatever else happens is not followed, and spoils the walk.
LEMMA CleanEvent ==
    ASSUME Event, Meddle
    PROVE  CleanInv'
  <1>1. settled' = None /\ stack' = stack /\ (stack # <<>> => spoiled')
    BY DEF Event, Meddle
  <1>2. ~Follow' /\ ~Again' /\ (stack' # <<>> => ~Sound')
    BY <1>1 DEF Follow, Again, Sound
  <1> QED BY <1>1, <1>2, Quiet DEF CleanInv

\* A step of the walk keeps it, and does as it should if it is sound.
LEMMA CleanWalks ==
    ASSUME TypeInv, Distinct, CleanInv, Walk, regular \in BOOLEAN
    PROVE  /\ CleanInv'
           /\ Sound /\ (~spoiled' \/ Again) /\ ~NotebookRaises => ~spoiled' /\ Ends /\ Tells
  <1>1. Still /\ stack # <<>>
    BY WalkStill DEF Still
  <1>2. CASE NotebookRaises
    <2>1. settled' = None /\ spoiled'
      BY <1>2 DEF NotebookRaises
    <2>2. ~Follow' /\ ~Again' /\ ~Sound'
      BY <2>1 DEF Follow, Again, Sound
    <2> QED BY <1>2, <2>2, Quiet DEF CleanInv
  <1>3. CASE ~NotebookRaises /\ Sound /\ (~spoiled' \/ Again)
    <2>1. PICK D \in SUBSET Derived, P \in Plan : WalkInv(D, P)
      BY <1>3 DEF CleanInv, Planned
    <2>2. ~spoiled' /\ Planned' /\ Ends /\ Tells
      BY <1>3, <2>1, CleanWalk DEF Sound
    <2> QED BY <2>2 DEF CleanInv
  <1>4. CASE ~(Sound /\ (~spoiled' \/ Again))
    <2>1. ~Again /\ (spoiled' \/ ~regular)
      BY <1>1, <1>4 DEF CleanInv, Sound, Still
    <2>2. CASE stack' # <<>>
      <3>1. ~Again'
        BY <1>1, <2>1, <2>2 DEF Again, Follow, Still
      <3>2. ~Sound'
        BY <1>1, <2>1, <3>1 DEF Sound, Still
      <3> QED BY <1>4, <2>2, <3>1, <3>2 DEF CleanInv
    <2>3. CASE stack' = <<>>
      <3>1. ~Follow'
        BY <1>1, <2>1, <2>3 DEF Follow, Still
      <3>2. Planned' /\ ~Again'
        BY <2>3, <3>1, Quiet DEF Again
      <3> QED BY <1>4, <2>3, <3>2 DEF CleanInv
    <2> QED BY <2>2, <2>3
  <1> QED BY <1>2, <1>3, <1>4

\* No step puts a content into a log twice.
LEMMA DistinctStays ==
    ASSUME TypeInv, Distinct, [Next]_vars
    PROVE  Distinct'
  <1>1. ASSUME log' = log PROVE Distinct'
    BY <1>1 DEF Distinct
  <1>2. ASSUME NEW a, Begin(a) PROVE Distinct'
    BY <1>1, <1>2 DEF Begin, tree
  <1>3. CASE Walk
    <2>1. CASE ReadSnapshot \/ Descend \/ RunNotebook \/ NotebookRaises
      BY <1>1, <2>1 DEF ReadSnapshot, Descend, RunNotebook, NotebookRaises
    <2>2. Refuse => log' = log
      BY DEF Refuse
    <2>3. CASE GetVariable
      BY <1>1, <2>2, <2>3 DEF GetVariable
    <2>4. stack # <<>> => Top.ref.art \in Artifacts
      BY TopTyped DEF FrameOK
    <2>5. CASE Persist
      <3>1. stack # <<>> /\ Keep(Top.ref.art, Rederived(Top))
        BY <2>5 DEF Persist, At
      <3>2. log' = Logged(Top.ref.art, Rederived(Top))
        BY <3>1 DEF Keep
      <3> QED BY <2>4, <3>1, <3>2, DistinctLogged
    <2>6. CASE Reread
      <3>1. PICK c : c = [Snapshot(Top.ref) EXCEPT !.value = kernel[Variable[Top.ref.art]]]
        OBVIOUS
      <3>2. stack # <<>> /\ (Refuse \/ Keep(Top.ref.art, c))
        BY <2>6, <3>1 DEF Reread, At
      <3>3. log' = log \/ log' = Logged(Top.ref.art, c)
        BY <2>2, <3>2 DEF Keep
      <3> QED BY <1>1, <2>4, <3>2, <3>3, DistinctLogged
    <2> QED BY <1>3, <2>1, <2>3, <2>5, <2>6 DEF Walk
  <1>4. CASE Move \/ Restart
    BY <1>1, <1>4 DEF Move, Restart, tree
  <1>5. ASSUME NEW n \in Notebooks, NEW rc \in Recipe, Edit(n, rc) PROVE Distinct'
    BY <1>1, <1>5 DEF Edit
  <1>6. ASSUME NEW a \in Derived, NEW words \in Words(a), ReturnDerived(a, words)
        PROVE  Distinct'
    <2>1. PICK c : c = [words |-> words, cites |-> Inputs(Notebook[a]) \cup {Code(Notebook[a])},
                        value |-> Value(Code(Notebook[a]), Inputs(Notebook[a]))]
      OBVIOUS
    <2>2. log' = log \/ log' = Logged(a, c)
      BY <1>6, <2>1 DEF ReturnDerived
    <2>3. a \in Artifacts
      BY DEF Artifacts
    <2> QED BY <1>1, <2>2, <2>3, DistinctLogged
  <1>7. ASSUME NEW r \in Reports, NEW words \in Words(r), ReturnReport(r, words)
        PROVE  Distinct'
    <2>1. PICK c : c = [words |-> words, cites |-> {Latest(x) : x \in Uses[r]}, value |-> None]
      OBVIOUS
    <2>2. log' = Logged(r, c)
      BY <1>7, <2>1 DEF ReturnReport
    <2>3. r \in Artifacts
      BY DEF Artifacts
    <2> QED BY <2>2, <2>3, DistinctLogged
  <1>8. ASSUME NEW n \in Names, Intrude(n) PROVE Distinct'
    BY <1>1, <1>8 DEF Intrude, tree
  <1>9. CASE UNCHANGED vars
    BY <1>1, <1>9 DEF vars, tree
  <1> QED BY <1>2, <1>3, <1>4, <1>5, <1>6, <1>7, <1>8, <1>9 DEF Next

\* The inductive invariant.
RefreshInv == TypeInv /\ Distinct /\ regular \in BOOLEAN /\ CleanInv

\* Every step keeps it.
LEMMA CleanStep ==
    ASSUME RefreshInv, [Next]_vars
    PROVE  regular' \in BOOLEAN /\ CleanInv'
  <1> USE DEF RefreshInv
  <1>1. ASSUME NEW a \in Artifacts, Begin(a) PROVE regular' \in BOOLEAN /\ CleanInv'
    <2>1. Regular(Latest(a)) \in BOOLEAN
      BY DEF Regular
    <2> QED BY <1>1, <2>1, CleanBegin DEF Begin
  <1>2. CASE Walk
    BY <1>2, CleanWalks, WalkStill DEF Still
  <1>3. ASSUME Event, Meddle PROVE regular' \in BOOLEAN /\ CleanInv'
    BY <1>3, CleanEvent DEF Event
  <1>4. CASE Move
    BY <1>4, CleanStays DEF Move, Event, tree
  <1>5. CASE Restart
    BY <1>3, <1>5 DEF Restart
  <1>6. ASSUME NEW n, NEW rc, Edit(n, rc) PROVE regular' \in BOOLEAN /\ CleanInv'
    BY <1>3, <1>6 DEF Edit
  <1>7. ASSUME NEW a, NEW words, ReturnDerived(a, words) PROVE regular' \in BOOLEAN /\ CleanInv'
    BY <1>3, <1>7 DEF ReturnDerived
  <1>8. ASSUME NEW r, NEW words, ReturnReport(r, words) PROVE regular' \in BOOLEAN /\ CleanInv'
    BY <1>3, <1>8 DEF ReturnReport
  <1>9. ASSUME NEW n, Intrude(n) PROVE regular' \in BOOLEAN /\ CleanInv'
    BY <1>3, <1>9 DEF Intrude
  <1>10. CASE UNCHANGED vars
    BY <1>10, CleanStays DEF vars, tree
  <1> QED BY <1>1, <1>2, <1>4, <1>5, <1>6, <1>7, <1>8, <1>9, <1>10 DEF Next

\* Spec => []RefreshInv: what has been refreshed in a clean walk is up to date, and
\* the rest waits for it.
THEOREM InductiveRefresh == Spec => []RefreshInv
  <1>1. Init => RefreshInv
    <2> SUFFICES ASSUME Init PROVE RefreshInv
      OBVIOUS
    <2>1. stack = <<>> /\ settled = None /\ regular = TRUE
      BY DEF Init
    <2>2. Distinct
      <3>1. \A a \in Artifacts : log[a] = <<FirstContent(a)>>
        BY DEF Init
      <3> QED BY <3>1 DEF Distinct
    <2>3. CleanInv
      BY <2>1, Quiet DEF CleanInv, Follow
    <2> QED BY <2>1, <2>2, <2>3, InitTyped DEF RefreshInv
  <1>2. TypeInv' /\ RefreshInv /\ [Next]_vars => RefreshInv'
    BY DistinctStays, CleanStep DEF RefreshInv
  <1> QED BY <1>1, <1>2, InductiveTypes, PTL DEF Spec

\* A clean walk does as it should in each step, and so does one that follows it in
\* its last.
LEMMA CleanSteps ==
    ASSUME RefreshInv, [Next]_vars, stack # <<>>
    PROVE  /\ Clean' => Tells
           /\ Ended /\ (Clean' \/ Again) => ~spoiled' /\ \E r : EndsAs(r)
  <1> USE DEF RefreshInv
  <1>1. CASE Walk
    <2> SUFFICES ASSUME Clean' \/ (Ended /\ Again)
                 PROVE  ~spoiled' /\ Ends /\ Tells
      BY DEF Ended, Ends
    <2>1. Still
      BY <1>1, WalkStill
    <2>2. ASSUME NotebookRaises PROVE FALSE
      <3>1. spoiled' /\ stack' # <<>>
        BY <2>2, NotEmpty DEF NotebookRaises
      <3> QED BY <3>1 DEF Clean, Ended
    <2>3. Sound /\ (~spoiled' \/ Again)
      BY <2>1 DEF Clean, Still, Sound, CleanInv
    <2> QED BY <1>1, <2>2, <2>3, CleanWalks
  <1>2. ASSUME log' = log \/ spoiled', stack' # <<>>
        PROVE  (Clean' => Tells) /\ ~Ended
    BY <1>2, NothingTells DEF Clean, Ended
  <1>3. ASSUME Event, Meddle PROVE spoiled' /\ stack' # <<>>
    BY <1>3 DEF Event, Meddle
  <1>4. ASSUME NEW a, Begin(a) PROVE FALSE
    BY <1>4 DEF Begin
  <1>5. CASE Move
    BY <1>2, <1>5 DEF Move, Event, tree
  <1>6. CASE Restart
    BY <1>2, <1>3, <1>6 DEF Restart
  <1>7. ASSUME NEW n, NEW rc, Edit(n, rc) PROVE (Clean' => Tells) /\ ~Ended
    BY <1>2, <1>3, <1>7 DEF Edit
  <1>8. ASSUME NEW a, NEW words, ReturnDerived(a, words) PROVE (Clean' => Tells) /\ ~Ended
    BY <1>2, <1>3, <1>8 DEF ReturnDerived
  <1>9. ASSUME NEW r, NEW words, ReturnReport(r, words) PROVE (Clean' => Tells) /\ ~Ended
    BY <1>2, <1>3, <1>9 DEF ReturnReport
  <1>10. ASSUME NEW n, Intrude(n) PROVE (Clean' => Tells) /\ ~Ended
    BY <1>2, <1>3, <1>10 DEF Intrude
  <1>11. CASE UNCHANGED vars
    BY <1>2, <1>11 DEF vars, tree
  <1> QED BY <1>1, <1>4, <1>5, <1>6, <1>7, <1>8, <1>9, <1>10, <1>11 DEF Next

-----------------------------------------------------------------------------
(***************************************************************************)
(* What a walk publishes, and what a second one does.                      *)
(***************************************************************************)

\* What a clean walk publishes cites the code, the versions and the data that its
\* value came from (LineageTellsTheValue).
THEOREM LineageTells == Spec => LineageTellsTheValue
  <1> DEFINE Step == stack # <<>> /\ Clean' =>
                       \A a \in Derived :
                          Len(log'[a]) > Len(log[a]) => Honest(Last(log[a])')
  <1>1. RefreshInv /\ [Next]_vars => [Step]_vars
    BY CleanSteps DEF Tells
  <1> HIDE DEF Step
  <1>2. [][Step]_vars => LineageTellsTheValue
    BY PTL DEF Step, LineageTellsTheValue
  <1> QED BY <1>1, <1>2, InductiveRefresh, PTL DEF Spec

\* With nothing changed since a clean walk from a regular lineage, a refresh of the
\* same artifact ends with the same version (Idempotent).
THEOREM RefreshIsIdempotent == Spec => Idempotent
  <1> DEFINE Step == Ended /\ settled # None /\ settled.regular => SameAgain
  <1>1. RefreshInv /\ [Next]_vars => [Step]_vars
    <2> SUFFICES ASSUME RefreshInv, [Next]_vars, Ended, settled # None, settled.regular,
                        settled.ref.art = origin.art
                 PROVE  outcome' = settled.result
      BY DEF SameAgain
    <2>1. Again /\ stack # <<>>
      BY DEF Again, Follow, Ended
    <2>2. PICK r : EndsAs(r)
      BY <2>1, CleanSteps
    <2> QED BY <2>1, <2>2 DEF EndsAs
  <1> HIDE DEF Step
  <1>2. [][Step]_vars => Idempotent
    BY PTL DEF Step, Idempotent
  <1> QED BY <1>1, <1>2, InductiveRefresh, PTL DEF Spec

-----------------------------------------------------------------------------
(***************************************************************************)
(* What a walk leaves behind.                                              *)
(***************************************************************************)

\* What an artifact that is up to date leads to: the newest versions of what was
\* done, the newest recipes, and what the cache answers.
NewestRefs(D, a) ==
    {Latest(x) : x \in D \cup {a}} \cup {Code(n) : n \in Notebooks}
      \cup {Ref(Source, Answer)}

\* Below what is up to date lies the newest version of each.
LEMMA NewestAreClosed ==
    ASSUME TypeInv, NEW D \in SUBSET Derived, NEW P, DoneInv(D, P), NEW a \in Artifacts,
           UpToDate(P, a), Uses[a] \subseteq D
    PROVE  Closure(Latest(a)) \subseteq NewestRefs(D, a)
  <1>1. ASSUME NEW x \in D \cup {a} PROVE Children(Latest(x)) \subseteq NewestRefs(D, a)
    <2>1. UpToDate(P, x) /\ Uses[x] \subseteq D /\ x \in Artifacts
      BY <1>1 DEF DoneInv, Artifacts
    <2>2. Children(Latest(x)) = CitesNow(x)
      BY <2>1, LatestIs DEF Children, UpToDate
    <2>3. x \in Derived => Notebook[x] \in Notebooks
      BY DEF Notebooks
    <2> QED BY <2>1, <2>2, <2>3 DEF CitesNow, Fetched, NewestRefs
  <1>2. ASSUME NEW n \in Notebooks PROVE Children(Code(n)) = {}
    <2>1. n \notin Artifacts
      BY RefreshAssumption
    <2> QED BY <2>1, RefIs DEF Children, Code
  <1>3. Children(Ref(Source, Answer)) = {}
    BY RefreshAssumption, RefIs DEF Children
  <1>4. PICK S, r : S = NewestRefs(D, a) /\ r = Latest(a)
    OBVIOUS
  <1>5. r \in S /\ \A x \in S : Children(x) \subseteq S
    BY <1>1, <1>2, <1>3, <1>4 DEF NewestRefs
  <1>6. Closure(r) \subseteq S
    BY <1>5, ClosureStays
  <1> QED BY <1>4, <1>6

\* There is one of each.
LEMMA NewestIsCoherent ==
    ASSUME TypeInv, NEW D \in SUBSET Derived, NEW P, DoneInv(D, P), NEW a \in Artifacts,
           UpToDate(P, a), Uses[a] \subseteq D
    PROVE  Coherent(Latest(a))
  <1>1. ASSUME NEW x \in NewestRefs(D, a), NEW y \in NewestRefs(D, a), x.art = y.art
        PROVE  x = y
    <2> DEFINE arts == D \cup {a}
    <2>1. arts \subseteq Artifacts /\ arts \cap (Notebooks \cup {Source}) = {} /\ Source \notin Notebooks
      BY RefreshAssumption DEF Artifacts
    <2>2. ASSUME NEW z \in NewestRefs(D, a)
          PROVE  \/ z.art \in arts /\ z = Latest(z.art)
                 \/ z.art \in Notebooks /\ z = Code(z.art)
                 \/ z.art = Source /\ z = Ref(Source, Answer)
      BY <2>2, RefIs DEF NewestRefs, Code
    <2> HIDE DEF arts
    <2>3. CASE x.art \in arts
      BY <1>1, <2>1, <2>2, <2>3
    <2>4. CASE x.art \in Notebooks
      BY <1>1, <2>1, <2>2, <2>4
    <2>5. CASE x.art = Source
      BY <1>1, <2>1, <2>2, <2>5
    <2> QED BY <2>2, <2>3, <2>4, <2>5
  <1> QED BY <1>1, NewestAreClosed DEF Coherent

SettledCoherent == Follow /\ stack = <<>> => Coherent(settled.result)

\* What a walk ends with mixes no two versions.
LEMMA SettledIsCoherent == RefreshInv => SettledCoherent
  <1> SUFFICES ASSUME RefreshInv, Follow, stack = <<>> PROVE Coherent(settled.result)
    BY DEF SettledCoherent
  <1>1. PICK D \in SUBSET Derived, P \in Plan : WalkInv(D, P)
    BY DEF RefreshInv, CleanInv, Planned
  <1>2. PICK a : a = settled.ref.art
    OBVIOUS
  <1>3. /\ a \in Artifacts /\ settled.result = Latest(a) /\ UpToDate(P, a)
        /\ Uses[a] \subseteq D /\ DoneInv(D, P)
    BY <1>1, <1>2 DEF WalkInv, SettledInv, ComesFrom
  <1>4. Coherent(Latest(a))
    BY <1>3, NewestIsCoherent DEF RefreshInv
  <1> QED BY <1>3, <1>4

\* What a clean walk ends with is what is remembered of it.
LEMMA CleanEnd ==
    ASSUME RefreshInv, [Next]_vars, Ended, Clean'
    PROVE  /\ Follow' /\ stack' = <<>>
           /\ settled'.ref = origin' /\ settled'.result = outcome'
  <1>1. stack # <<>> /\ stack' = <<>>
    BY DEF Ended
  <1>2. PICK r : EndsAs(r)
    BY <1>1, CleanSteps
  <1> QED BY <1>1, <1>2 DEF EndsAs, Follow, Clean

\* A clean walk leaves one version of each thing below what it ends with
\* (EndsCoherent).
THEOREM RefreshEndsCoherent == Spec => EndsCoherent
  <1> DEFINE Step == Ended /\ Clean' => Coherent(outcome)'
  <1>1. RefreshInv /\ SettledCoherent' /\ [Next]_vars => [Step]_vars
    <2> SUFFICES ASSUME RefreshInv, SettledCoherent', [Next]_vars, Ended, Clean'
                 PROVE  Coherent(outcome)'
      OBVIOUS
    <2>1. Follow' /\ stack' = <<>> /\ settled'.result = outcome'
      BY CleanEnd
    <2>2. Coherent(settled.result)'
      BY <2>1 DEF SettledCoherent
    <2>3. PICK r : r = outcome'
      OBVIOUS
    <2>4. Coherent(r)'
      BY <2>1, <2>2, <2>3
    <2> QED BY <2>3, <2>4
  <1> HIDE DEF Step
  <1>2. RefreshInv => SettledCoherent
    BY SettledIsCoherent
  <1>3. [][Step]_vars => EndsCoherent
    BY PTL DEF Step, EndsCoherent
  <1> QED BY <1>1, <1>2, <1>3, InductiveRefresh, PTL DEF Spec

-----------------------------------------------------------------------------
(***************************************************************************)
(* What the diff tells.                                                    *)
(***************************************************************************)

Upstream(r) == {x \in Closure(r) : x.art # r.art}

\* A coherent closure has one dictionary, and loses nothing in it.
LEMMA KeyedAll ==
    ASSUME NEW r, Coherent(r), NEW K \in Keyed(r)
    PROVE  K = Upstream(r)
  <1>1. /\ K \subseteq Upstream(r)
        /\ \A x \in Upstream(r) : \E y \in K : y.art = x.art
    BY DEF Keyed, Upstream
  <1>2. ASSUME NEW x \in Upstream(r) PROVE x \in K
    <2>1. PICK y \in K : y.art = x.art
      BY <1>1
    <2>2. x = y
      BY <1>1, <2>1 DEF Upstream, Coherent
    <2> QED BY <2>1, <2>2
  <1> QED BY <1>1, <1>2

\* So if no difference is found there is none.
LEMMA NoDifference ==
    ASSUME NEW r, NEW s, Coherent(r), Coherent(s), {} \in Diffs(r, s)
    PROVE  Upstream(r) = Upstream(s)
  <1>1. PICK old \in Keyed(r), new \in Keyed(s) :
          {x.art : x \in (old \ new) \cup (new \ old)} = {}
    BY DEF Diffs
  <1>2. (old \ new) \cup (new \ old) = {}
    BY <1>1
  <1>3. old = Upstream(r) /\ new = Upstream(s)
    BY KeyedAll
  <1> QED BY <1>2, <1>3

\* The code of a, its inputs and what is cited of them, in a snapshot c.
Cited(a, c) ==
    /\ \A x \in c.cites : x.art \in CitableArts(a)
    /\ \A u \in Uses[a] : \E x \in c.cites : x.art = u
    /\ a \in Derived =>
         /\ c.value \in AnyValue
         /\ c.value.code \in c.cites /\ c.value.inputs \subseteq c.cites
         /\ c.value.code = Code(Notebook[a])
         /\ {x.art : x \in c.value.inputs} = Wants(LatestRecipe(Notebook[a]))

\* What is up to date cites what its notebook wants.
LEMMA NowCited ==
    ASSUME TypeInv, NEW P, NEW a \in Artifacts, UpToDate(P, a)
    PROVE  Cited(a, Newest(a))
  <1>1. PICK c, n : c = Newest(a) /\ n = Notebook[a]
    OBVIOUS
  <1>2. /\ c.cites = CitesNow(a) /\ c.value = ValueNow(a) /\ Served(a)
        /\ ContentOK(a, c)
    <2>1. Snapshot(Latest(a)) = c /\ Latest(a) \in AllRefs /\ Latest(a).art = a
      BY <1>1, LatestIs
    <2>2. ContentOK(a, c)
      BY <2>1, ArtifactRef
    <2> QED BY <1>1, <2>2 DEF UpToDate
  <1>3. ASSUME a \in Derived
        PROVE  /\ c.value \in AnyValue
               /\ c.value.code \in c.cites /\ c.value.inputs \subseteq c.cites
               /\ c.value.code = Code(n)
               /\ {x.art : x \in c.value.inputs} = Wants(LatestRecipe(n))
    <2>1. c.value \in AnyValue
      BY <1>2, <1>3, ValueNowIs
    <2>2. c.value.code = Code(n) /\ c.value.inputs = Inputs(n)
      BY <1>1, <1>2, <1>3 DEF ValueNow, Value
    <2>3. Honest(c)
      BY <1>2, <1>3, HonestNow
    <2>4. {x.art : x \in Inputs(n)} = Wants(LatestRecipe(n))
      <3>1. \A x : Latest(x).art = x
        BY RefIs
      <3>2. \A x \in Fetched(n) : x.art = Source
        BY RefIs DEF Fetched
      <3>3. LatestRecipe(n).fetches <=> Fetched(n) # {}
        BY DEF Fetched
      <3> QED BY <3>1, <3>2, <3>3 DEF Inputs, Wants
    <2> QED BY <2>1, <2>2, <2>3, <2>4 DEF Honest
  <1> QED BY <1>1, <1>2, <1>3 DEF Cited, ContentOK

\* What was honest, and cites the code there is now, did too.
LEMMA ThenCited ==
    ASSUME TypeInv, NEW a \in Artifacts, NEW c \in Content, ContentOK(a, c),
           a \in Derived => Honest(c) /\ \A x \in c.cites : x.art = Notebook[a] => x = Code(Notebook[a])
    PROVE  Cited(a, c)
  <1>1. ASSUME a \in Derived
        PROVE  /\ c.value \in AnyValue
               /\ c.value.code \in c.cites /\ c.value.inputs \subseteq c.cites
               /\ c.value.code = Code(Notebook[a])
               /\ {x.art : x \in c.value.inputs} = Wants(LatestRecipe(Notebook[a]))
    <2>1. c.value # None /\ ValueOK(c.value) /\ c.value \in AnyValue
      BY <1>1 DEF ContentOK, Content
    <2>2. c.value.code \in c.cites /\ c.value.inputs \subseteq c.cites
      BY <1>1 DEF Honest
    <2>3. c.value.code # None
      BY <2>2, NoneAssumption DEF Content
    <2>4. PICK m, k :
            /\ m \in Notebooks /\ k \in DOMAIN recipe[m]
            /\ c.value.code = Ref(m, k)
            /\ {x.art : x \in c.value.inputs} = Wants(recipe[m][k])
      BY <2>1, <2>3 DEF ValueOK, Computed
    <2>5. m = Notebook[a]
      <3>1. m \in CitableArts(a)
        BY <2>2, <2>4, RefIs DEF ContentOK
      <3>2. m # Source /\ m \notin Uses[a]
        <4>1. Uses[a] \subseteq Artifacts
          BY RefreshAssumption DEF Artifacts
        <4>2. m \in Notebooks /\ m \notin Artifacts /\ Source \notin Notebooks
          BY <2>4, RefreshAssumption
        <4> QED BY <4>1, <4>2
      <3> QED BY <1>1, <3>1, <3>2 DEF CitableArts
    <2>6. Ref(m, k) = Code(m)
      BY <1>1, <2>2, <2>4, <2>5, RefIs
    <2>7. k = Len(recipe[m])
      BY <2>6, RefIs DEF Code
    <2> QED BY <2>1, <2>2, <2>4, <2>5, <2>6, <2>7 DEF LatestRecipe
  <1> QED BY <1>1 DEF Cited, ContentOK

\* Two snapshots of an artifact that agree on what they cite, as far as both do, are
\* the same.
LEMMA SameSnapshot ==
    ASSUME NEW a \in Artifacts, NEW c \in Content, NEW d \in Content,
           Cited(a, c), Cited(a, d), c.words = d.words,
           a \notin Derived => c.value = None /\ d.value = None,
           a \in Derived => ((\E x \in c.cites : x.art = Source) <=> (\E x \in d.cites : x.art = Source)),
           \A x, y \in c.cites \cup d.cites : x.art = y.art => x = y
    PROVE  c = d
  <1>1. {x.art : x \in c.cites} = {x.art : x \in d.cites}
    <2> DEFINE arts(e) == {x.art : x \in e.cites}
    <2>1. Uses[a] \subseteq arts(c) /\ Uses[a] \subseteq arts(d)
      BY DEF Cited
    <2>2. a \in Derived => Notebook[a] \in arts(c) /\ Notebook[a] \in arts(d)
      <3>1. Code(Notebook[a]).art = Notebook[a]
        BY RefIs DEF Code
      <3> QED BY <3>1 DEF Cited
    <2>3. arts(c) \subseteq CitableArts(a) /\ arts(d) \subseteq CitableArts(a)
      BY DEF Cited
    <2>4. a \in Derived => (Source \in arts(c) <=> Source \in arts(d))
      OBVIOUS
    <2> HIDE DEF arts
    <2>5. arts(c) = arts(d)
      <3>1. CASE a \in Derived
        <4>1. CitableArts(a) = Uses[a] \cup {Notebook[a], Source}
          BY <3>1 DEF CitableArts
        <4>2. PICK A, B, U, n : A = arts(c) /\ B = arts(d) /\ U = Uses[a] /\ n = Notebook[a]
          OBVIOUS
        <4>3. /\ U \subseteq A /\ U \subseteq B /\ n \in A /\ n \in B
              /\ A \subseteq U \cup {n, Source} /\ B \subseteq U \cup {n, Source}
          BY <2>1, <2>2, <2>3, <3>1, <4>1, <4>2
        <4>4. Source \in A <=> Source \in B
          BY <2>4, <3>1, <4>2
        <4>5. A \subseteq B
          BY <4>3, <4>4
        <4>6. B \subseteq A
          BY <4>3, <4>4
        <4> QED BY <4>2, <4>5, <4>6
      <3>2. CASE a \notin Derived
        BY <2>1, <2>3, <3>2 DEF CitableArts
      <3> QED BY <3>1, <3>2
    <2> QED BY <2>5 DEF arts
  <1>2. c.cites = d.cites
    <2>1. ASSUME NEW x \in c.cites PROVE x \in d.cites
      <3>1. PICK y \in d.cites : y.art = x.art
        BY <1>1
      <3> QED BY <3>1
    <2>2. ASSUME NEW y \in d.cites PROVE y \in c.cites
      <3>1. PICK x \in c.cites : x.art = y.art
        BY <1>1
      <3> QED BY <3>1
    <2> QED BY <2>1, <2>2
  <1>3. ASSUME a \in Derived PROVE c.value = d.value
    <2>1. PICK u, v : u = c.value /\ v = d.value
      OBVIOUS
    <2>2. /\ u \in AnyValue /\ v \in AnyValue /\ u.code = v.code
          /\ u.inputs \subseteq c.cites /\ v.inputs \subseteq d.cites
          /\ {x.art : x \in u.inputs} = {x.art : x \in v.inputs}
      BY <1>3, <2>1 DEF Cited
    <2>3. ASSUME NEW x \in u.inputs PROVE x \in v.inputs
      <3>1. PICK y \in v.inputs : y.art = x.art
        BY <2>2
      <3> QED BY <2>2, <3>1
    <2>4. ASSUME NEW y \in v.inputs PROVE y \in u.inputs
      <3>1. PICK x \in u.inputs : x.art = y.art
        BY <2>2
      <3> QED BY <2>2, <3>1
    <2>5. u.inputs = v.inputs
      BY <2>3, <2>4
    <2>6. u = v
      BY <2>2, <2>5 DEF AnyValue
    <2> QED BY <2>1, <2>6
  <1>4. c.value = d.value
    BY <1>3
  <1> QED BY <1>2, <1>4 DEF Content

SettledExplained ==
    Follow /\ stack = <<>> /\ settled.result # settled.ref /\ Coherent(settled.ref)
      /\ (settled.ref.art \in Derived => Honest(Snapshot(settled.ref)))
    => {} \notin Diffs(settled.ref, settled.result)

\* A walk that ends with a new version has a difference below it.
LEMMA SettledIsExplained == RefreshInv => SettledExplained
  <1> SUFFICES ASSUME RefreshInv, Follow, stack = <<>>, Coherent(settled.ref),
                      settled.ref.art \in Derived => Honest(Snapshot(settled.ref)),
                      {} \in Diffs(settled.ref, settled.result)
               PROVE  settled.result = settled.ref
    BY DEF SettledExplained
  <1>1. PICK D \in SUBSET Derived, P \in Plan : WalkInv(D, P)
    BY DEF RefreshInv, CleanInv, Planned
  <1>2. PICK a, old, new : a = settled.ref.art /\ old = settled.ref /\ new = settled.result
    OBVIOUS
  <1>3. /\ a \in Artifacts /\ new = Latest(a) /\ ComesFrom(P, a, old)
        /\ Uses[a] \subseteq D /\ DoneInv(D, P) /\ TypeInv
    BY <1>1, <1>2 DEF WalkInv, SettledInv, RefreshInv
  <1>4. /\ UpToDate(P, a) /\ old.art = a /\ old.ver \in DOMAIN log[a]
        /\ Snapshot(old).words = P.words[a] /\ Newest(a).words = P.words[a]
        /\ a \in Derived => (CitesSource(old) => LatestRecipe(Notebook[a]).fetches)
        /\ Newest(a) = Snapshot(old) => new = old
    BY <1>3 DEF ComesFrom, UpToDate
  <1>5. PICK c, d : c = Snapshot(old) /\ d = Newest(a)
    OBVIOUS
  <1>6. /\ c \in Content /\ ContentOK(a, c) /\ d \in Content /\ ContentOK(a, d)
    <2>1. /\ new \in AllRefs /\ new.art = a /\ Snapshot(new) = d
      BY <1>3, <1>5, LatestIs
    <2>2. d \in Content /\ ContentOK(a, d)
      BY <1>3, <2>1, ArtifactRef
    <2>3. c \in Content /\ ContentOK(a, c)
      BY <1>3, <1>4, <1>5 DEF TypeInv, Snapshot
    <2> QED BY <2>2, <2>3
  <1>7. Coherent(new)
    BY <1>3, <1>4, NewestIsCoherent
  <1>8. /\ \A x \in c.cites : x \in Closure(new)
        /\ \A x \in d.cites : x \in Closure(new)
    <2>1. new.art = a /\ Snapshot(new) = d
      BY <1>3, <1>5, LatestIs
    <2>2. Children(old) = c.cites /\ Children(new) = d.cites
      BY <1>3, <1>4, <1>5, <2>1 DEF Children
    <2>3. c.cites \subseteq Closure(old) /\ d.cites \subseteq Closure(new)
      BY <1>3, <2>2, ClosureHas
    <2>4. Upstream(old) = Upstream(new)
      BY <1>2, <1>7, NoDifference
    <2>5. ASSUME NEW x \in c.cites PROVE x.art # a
      <3>1. x.art \in CitableArts(a)
        BY <1>6 DEF ContentOK
      <3>2. a \notin Uses[a]
        BY <1>3, RankFalls
      <3>3. a \in Derived => a # Notebook[a] /\ a # Source
        BY <1>3, RefreshAssumption DEF Notebooks
      <3> QED BY <3>1, <3>2, <3>3 DEF CitableArts
    <2> QED BY <1>4, <2>1, <2>3, <2>4, <2>5 DEF Upstream
  <1>9. \A x, y \in c.cites \cup d.cites : x.art = y.art => x = y
    BY <1>7, <1>8 DEF Coherent
  <1>10. Cited(a, d)
    BY <1>3, <1>4, <1>5, NowCited
  <1>11. Cited(a, c)
    <2>1. a \in Derived => Honest(c)
      BY <1>2, <1>5
    <2>2. ASSUME a \in Derived, NEW x \in c.cites, x.art = Notebook[a]
          PROVE  x = Code(Notebook[a])
      <3>1. Code(Notebook[a]) \in d.cites /\ Code(Notebook[a]).art = Notebook[a]
        BY <1>10, <2>2, RefIs DEF Cited, Code
      <3> QED BY <1>9, <2>2, <3>1
    <2> QED BY <1>3, <1>6, <2>1, <2>2, ThenCited
  <1>12. a \in Derived => ((\E x \in c.cites : x.art = Source) <=> (\E x \in d.cites : x.art = Source))
    <2> SUFFICES ASSUME a \in Derived
                 PROVE  (\E x \in c.cites : x.art = Source) <=> (\E x \in d.cites : x.art = Source)
      OBVIOUS
    <2> DEFINE rc == LatestRecipe(Notebook[a])
    <2>1. ASSUME NEW e \in {c, d}, rc.fetches PROVE \E x \in e.cites : x.art = Source
      <3>1. Cited(a, e) /\ Source \in Wants(rc)
        BY <1>10, <1>11, <2>1 DEF Wants
      <3> HIDE DEF rc
      <3>2. {x.art : x \in e.value.inputs} = Wants(rc) /\ e.value.inputs \subseteq e.cites
        BY <3>1 DEF Cited, rc
      <3> QED BY <3>1, <3>2
    <2>2. (\E x \in c.cites : x.art = Source) => rc.fetches
      BY <1>4, <1>5 DEF CitesSource
    <2>3. (\E x \in d.cites : x.art = Source) => rc.fetches
      <3>1. d.cites = CitesNow(a)
        BY <1>4, <1>5 DEF UpToDate
      <3>2. /\ \A u \in Uses[a] : Latest(u).art # Source
            /\ Code(Notebook[a]).art # Source
            /\ \A x \in Fetched(Notebook[a]) : rc.fetches
        <4>1. Source \notin Notebooks /\ Source \notin Artifacts /\ Uses[a] \subseteq Artifacts
              /\ Notebook[a] \in Notebooks
          BY <1>3, RefreshAssumption DEF Notebooks, Artifacts
        <4> QED BY <4>1, RefIs DEF Code, Fetched
      <3> QED BY <3>1, <3>2 DEF CitesNow
    <2> QED BY <2>1, <2>2, <2>3
  <1>13. c = d
    <2>1. a \notin Derived => c.value = None /\ d.value = None
      BY <1>6 DEF ContentOK
    <2>2. c.words = d.words
      BY <1>4, <1>5
    <2> QED BY <1>3, <1>6, <1>9, <1>10, <1>11, <1>12, <2>1, <2>2, SameSnapshot
  <1> QED BY <1>2, <1>4, <1>5, <1>13

\* A version that a clean walk makes is explained by what is below it, if what it
\* started from was honest and coherent (DiffExplains).
THEOREM DiffTellsWhy == Spec => DiffExplains
  <1> DEFINE Step == Ended /\ Clean' => Explained'
  <1>1. RefreshInv /\ SettledExplained' /\ [Next]_vars => [Step]_vars
    <2> SUFFICES ASSUME RefreshInv, SettledExplained', [Next]_vars, Ended, Clean'
                 PROVE  Explained'
      OBVIOUS
    <2>1. /\ Follow' /\ stack' = <<>>
          /\ settled'.ref = origin' /\ settled'.result = outcome'
      BY CleanEnd
    <2>2. PICK o, r : o = origin' /\ r = outcome'
      OBVIOUS
    <2>3. r # o /\ Coherent(o)' /\ (o.art \in Derived => Honest(Snapshot(o))')
            => {} \notin Diffs(o, r)'
      BY <2>1, <2>2 DEF SettledExplained
    <2> QED BY <2>2, <2>3 DEF Explained
  <1> HIDE DEF Step
  <1>2. RefreshInv => SettledExplained
    BY SettledIsExplained
  <1>3. [][Step]_vars => DiffExplains
    BY PTL DEF Step, DiffExplains
  <1> QED BY <1>1, <1>2, <1>3, InductiveRefresh, PTL DEF Spec

==============================================================================
