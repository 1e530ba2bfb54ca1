------------------------- MODULE TenancyMemory_proofs -------------------------
(***************************************************************************)
(* What the memory of a user keeps as long as its writers take turns, for  *)
(* any number of facts, uploads, turns and threads.                        *)
(***************************************************************************)
EXTENDS TenancyMemory, TLAPS

\* Type correctness: every variable keeps its type, and a writer merges only
\* facts of its own kind.
THEOREM TypeCorrect == Spec => []TypeOK
<1> USE MemoryAssumption
<1>1. Init => TypeOK
  BY DEF Init, TypeOK, Supplied, Nothing, Writer
<1>2. TypeOK /\ [Next]_vars => TypeOK'
  <2> SUFFICES ASSUME TypeOK, [Next]_vars PROVE TypeOK'
    OBVIOUS
  <2>1. ASSUME NEW u \in Upload, NEW K \in SUBSET Key, Extract(u, K)
        PROVE  TypeOK'
    <3>1. [k \in Key |-> IF k \in K THEN u ELSE None] \in [Key -> {u, None}]
      OBVIOUS
    <3>2. u \in Writer /\ u \notin Turn
      BY DEF Writer
    <3>3. new' \in [Writer -> Supplied]
      BY <2>1, <3>1, <3>2 DEF Extract, TypeOK, Supplied
    <3>4. \A v \in Upload : new'[v] \in [Key -> {v, None}]
      BY <2>1, <3>1, <3>2 DEF Extract, TypeOK, Writer
    <3>5. \A w \in Turn : new'[w] \in [Key -> Turn \cup {None}]
      BY <2>1, <3>2 DEF Extract, TypeOK, Writer
    <3> QED BY <2>1, <3>3, <3>4, <3>5 DEF Extract, TypeOK
  <2>2. ASSUME NEW w \in Turn, NEW t \in Thread, NEW K \in SUBSET Key,
               Answered(w, t, K)
        PROVE  TypeOK'
    <3>1. said[t] \in [Key -> Turn \cup {None}]
      BY DEF TypeOK
    <3>2. [k \in Key |-> IF k \in K THEN w ELSE said[t][k]]
            \in [Key -> Turn \cup {None}]
      BY <3>1
    <3>3. w \in Writer /\ w \notin Upload
      BY DEF Writer
    <3>4. said' \in [Thread -> [Key -> Turn \cup {None}]]
      BY <2>2, <3>2 DEF Answered, TypeOK
    <3>5. new' = [new EXCEPT ![w] = [k \in Key |-> IF k \in K THEN w
                                                   ELSE said[t][k]]]
      BY <2>2 DEF Answered, Collected
    <3>6. [Key -> Turn \cup {None}] \subseteq Supplied
      BY DEF Supplied, Writer
    <3>7. new' \in [Writer -> Supplied]
      BY <3>2, <3>5, <3>6 DEF TypeOK
    <3>8. \A v \in Upload : new'[v] \in [Key -> {v, None}]
      BY <3>3, <3>5 DEF TypeOK, Writer
    <3>9. \A v \in Turn : new'[v] \in [Key -> Turn \cup {None}]
      BY <3>2, <3>5 DEF TypeOK, Writer
    <3> QED BY <2>2, <3>4, <3>7, <3>8, <3>9 DEF Answered, TypeOK
  <2>3. ASSUME NEW w \in Writer, GetFacts(w) PROVE TypeOK'
    BY <2>3 DEF GetFacts, TypeOK
  <2>4. ASSUME NEW w \in Writer, PutFacts(w) PROVE TypeOK'
    <3>1. new[w] \in Supplied /\ readFacts[w] \in Supplied
      BY DEF TypeOK
    <3>2. Merged(w) \in Supplied
      BY <3>1 DEF Merged, Supplied
    <3> QED BY <2>4, <3>2 DEF PutFacts, TypeOK
  <2>5. ASSUME NEW w \in Writer, GetLabels(w) PROVE TypeOK'
    BY <2>5 DEF GetLabels, TypeOK
  <2>6. ASSUME NEW w \in Writer, PutLabels(w) PROVE TypeOK'
    <3>1. Relabelled(w) \subseteq Key
      BY DEF Relabelled, Given, TypeOK
    <3> QED BY <2>6, <3>1 DEF PutLabels, TypeOK
  <2>7. ASSUME NEW w \in Writer, StoreFails(w) PROVE TypeOK'
    BY <2>7 DEF StoreFails, TypeOK
  <2>8. CASE UNCHANGED vars
    BY <2>8 DEF vars, TypeOK
  <2> QED BY <2>1, <2>2, <2>3, <2>4, <2>5, <2>6, <2>7, <2>8 DEF Next
<1> QED BY <1>1, <1>2, PTL DEF Spec

-----------------------------------------------------------------------------
LEMMA OneWriterStep ==
  ASSUME ~Overlap, TypeOK, OneWriter, [Next]_vars
  PROVE  OneWriter'
<1>1. ASSUME NEW u \in Upload, NEW K \in SUBSET Key, Extract(u, K)
      PROVE  OneWriter'
  BY <1>1 DEF Extract, MayStart, Quiet, OneWriter, Running, TypeOK, Writer
<1>2. ASSUME NEW w \in Turn, NEW t \in Thread, NEW K \in SUBSET Key,
             Answered(w, t, K)
      PROVE  OneWriter'
  BY <1>2 DEF Answered, MayStart, Quiet, OneWriter, Running, TypeOK, Writer
<1>3. ASSUME NEW w \in Writer,
             GetFacts(w) \/ PutFacts(w) \/ GetLabels(w) \/ PutLabels(w)
               \/ StoreFails(w)
      PROVE  OneWriter'
  <2>1. \A v \in Writer : pc'[v] # pc[v] => v = w /\ Running(w)
    BY <1>3 DEF GetFacts, PutFacts, GetLabels, PutLabels, StoreFails,
                Running, TypeOK
  <2> QED BY <2>1 DEF OneWriter, Running
<1>4. CASE UNCHANGED vars
  BY <1>4 DEF vars, OneWriter, Running
<1> QED BY <1>1, <1>2, <1>3, <1>4 DEF Next

LEMMA FreshStep ==
  ASSUME ~Overlap, TypeOK, OneWriter, Fresh, [Next]_vars
  PROVE  Fresh'
<1>1. ASSUME NEW u \in Upload, NEW K \in SUBSET Key, Extract(u, K)
      PROVE  Fresh'
  BY <1>1 DEF Extract, Fresh, TypeOK, Writer
<1>2. ASSUME NEW w \in Turn, NEW t \in Thread, NEW K \in SUBSET Key,
             Answered(w, t, K)
      PROVE  Fresh'
  BY <1>2 DEF Answered, Fresh, TypeOK, Writer
<1>3. ASSUME NEW w \in Writer, GetFacts(w) PROVE Fresh'
  BY <1>3 DEF GetFacts, Fresh, TypeOK
<1>4. ASSUME NEW w \in Writer, PutFacts(w) PROVE Fresh'
  BY <1>4 DEF PutFacts, Fresh, OneWriter, Running, TypeOK
<1>5. ASSUME NEW w \in Writer, GetLabels(w) PROVE Fresh'
  BY <1>5 DEF GetLabels, Fresh, TypeOK
<1>6. ASSUME NEW w \in Writer, PutLabels(w) PROVE Fresh'
  BY <1>6 DEF PutLabels, Fresh, OneWriter, Running, TypeOK
<1>7. ASSUME NEW w \in Writer, StoreFails(w) PROVE Fresh'
  BY <1>7 DEF StoreFails, Fresh, TypeOK
<1>8. CASE UNCHANGED vars
  BY <1>8 DEF vars, Fresh
<1> QED BY <1>1, <1>2, <1>3, <1>4, <1>5, <1>6, <1>7, <1>8 DEF Next

\* Writers that take turns never lose a fact, even when the store fails in
\* the middle of one: a key that has a value keeps one.
THEOREM SerialKeepsFacts ==
  ASSUME ~Overlap
  PROVE  Spec => FactsKept
<1>1. Init => OneWriter /\ Fresh
  BY DEF Init, OneWriter, Fresh, Running
<1>2. TypeOK /\ OneWriter /\ Fresh /\ [Next]_vars => (OneWriter /\ Fresh)'
  BY OneWriterStep, FreshStep
<1>3. TypeOK /\ Fresh /\ [Next]_vars
        => [\A k \in Key : facts[k] # None => facts'[k] # None]_facts
  <2> SUFFICES ASSUME TypeOK, Fresh, [Next]_vars, facts' # facts,
                      NEW k \in Key, facts[k] # None
               PROVE  facts'[k] # None
    OBVIOUS
  <2>1. PICK w \in Writer : PutFacts(w)
    BY DEF Next, vars, Extract, Answered, GetFacts, GetLabels, PutLabels,
           StoreFails
  <2> QED BY <2>1 DEF PutFacts, Merged, Fresh
<1> QED BY <1>1, <1>2, <1>3, TypeCorrect, PTL DEF Spec, FactsKept

-----------------------------------------------------------------------------
\* While one writer runs no other one has stored anything yet.
LEMMA OnlyWritten ==
  ASSUME OneWriter, NEW w \in Writer, Running(w)
  PROVE  \A v \in Writer : Written(v) => v = w
BY DEF OneWriter, Running, Written

LEMMA PutFactsAgree ==
  ASSUME TypeOK, OneWriter, Fresh, OthersAgree,
         NEW w \in Writer, PutFacts(w)
  PROVE  OthersAgree'
<1>1. Running(w) /\ ~Written(w)
  BY DEF PutFacts, Running, Written
<1>2. \A v \in Writer : ~Written(v)
  BY <1>1, OnlyWritten
<1>3. \A v \in Writer : Written(v)' <=> v = w
  BY <1>2 DEF PutFacts, Written, TypeOK
<1>4. \A v \in Writer : Halfway(v)' <=> Halfway(v) \/ v = w
  BY <1>2, <1>3 DEF PutFacts, Halfway, TypeOK
<1>5. \A k \in Given(new[w]) : facts'[k] = new'[w][k]
  BY DEF PutFacts, Merged, Given
<1>6. \A k \in Key : k \notin Given(new[w]) => facts'[k] = facts[k]
  BY DEF PutFacts, Merged, Given, Fresh
<1>7. new' = new /\ labelled' = labelled
  BY DEF PutFacts
<1>8. \A v \in Writer : Written(v)' =>
        \A k \in Given(new[v])' : facts'[k] = new'[v][k]
  BY <1>3, <1>5, <1>7 DEF Given
<1>9. ASSUME NEW k \in Key,
             \A v \in Writer : Halfway(v)' => k \notin Given(new[v])'
      PROVE  Agree(k)'
  <2>1. \A v \in Writer : Halfway(v) \/ v = w => k \notin Given(new[v])
    BY <1>4, <1>7, <1>9 DEF Given
  <2>2. Agree(k)
    BY <2>1 DEF OthersAgree
  <2> QED BY <1>6, <1>7, <2>1, <2>2 DEF Agree
<1> QED BY <1>8, <1>9 DEF OthersAgree

LEMMA PutLabelsAgree ==
  ASSUME TypeOK, OneWriter, Fresh, OthersAgree,
         NEW w \in Writer, PutLabels(w)
  PROVE  OthersAgree'
<1>1. Running(w) /\ Written(w)
  BY DEF PutLabels, Running, Written
<1>2. \A v \in Writer : Written(v) => v = w
  BY <1>1, OnlyWritten
<1>3. labelled' = Relabelled(w) /\ readLabels[w] = labelled
  BY DEF PutLabels, Fresh
<1>4. \A v \in Writer : ~Written(v)'
  BY <1>2 DEF PutLabels, Written, TypeOK
<1>5. facts' = facts /\ new' = new
  BY DEF PutLabels
<1>6. \A v \in Writer : Halfway(v) => Halfway(v)' \/ v = w
  BY <1>2 DEF PutLabels, Halfway, TypeOK
<1>7. ASSUME NEW k \in Key,
             \A v \in Writer : Halfway(v)' => k \notin Given(new[v])'
      PROVE  Agree(k)'
  <2>1. CASE k \in Given(new[w])
    <3>1. facts[k] = new[w][k] /\ new[w][k] # None
      BY <1>1, <2>1 DEF OthersAgree, Given
    <3>2. CASE w \in Upload
      <4>1. facts[k] = w
        BY <3>1, <3>2 DEF TypeOK
      <4> QED BY <1>3, <1>5, <2>1, <3>2, <4>1 DEF Agree, Relabelled
    <3>3. CASE w \notin Upload
      <4>1. facts[k] \in Turn
        BY <3>1, <3>3 DEF TypeOK, Writer
      <4>2. facts[k] \notin Upload
        BY <4>1, MemoryAssumption
      <4> QED BY <1>3, <1>5, <2>1, <3>3, <4>2 DEF Agree, Relabelled
    <3> QED BY <3>2, <3>3
  <2>2. CASE k \notin Given(new[w])
    <3>1. \A v \in Writer : Halfway(v) => k \notin Given(new[v])
      BY <1>5, <1>6, <1>7, <2>2 DEF Given
    <3>2. Agree(k)
      BY <3>1 DEF OthersAgree
    <3> QED BY <1>3, <1>5, <2>2, <3>2 DEF Agree, Relabelled
  <2> QED BY <2>1, <2>2
<1> QED BY <1>4, <1>7 DEF OthersAgree

LEMMA OthersAgreeStep ==
  ASSUME ~Overlap, TypeOK, OneWriter, Fresh, OthersAgree, [Next]_vars
  PROVE  OthersAgree'
<1>1. ASSUME NEW w \in Writer, MayStart(w), facts' = facts,
             labelled' = labelled,
             \A v \in Writer : v # w => pc'[v] = pc[v] /\ new'[v] = new[v],
             pc'[w] \in {"get_facts", "done"}
      PROVE  OthersAgree'
  <2>1. \A v \in Writer : ~Written(v) /\ ~Written(v)'
    BY <1>1 DEF MayStart, Quiet, Running, Written
  <2>2. \A v \in Writer :
          Halfway(v) => v # w /\ Halfway(v)' /\ new'[v] = new[v]
    BY <1>1, <2>1 DEF Halfway, MayStart
  <2>3. \A k \in Key :
          (\A v \in Writer : Halfway(v)' => k \notin Given(new[v])')
            => \A v \in Writer : Halfway(v) => k \notin Given(new[v])
    BY <2>2 DEF Given
  <2> QED BY <1>1, <2>1, <2>3 DEF OthersAgree, Agree
<1>2. ASSUME NEW u \in Upload, NEW K \in SUBSET Key, Extract(u, K)
      PROVE  OthersAgree'
  BY <1>1, <1>2 DEF Extract, TypeOK, Writer
<1>3. ASSUME NEW w \in Turn, NEW t \in Thread, NEW K \in SUBSET Key,
             Answered(w, t, K)
      PROVE  OthersAgree'
  BY <1>1, <1>3 DEF Answered, TypeOK, Writer
<1>4. ASSUME NEW w \in Writer, GetFacts(w) \/ GetLabels(w)
      PROVE  OthersAgree'
  <2>1. /\ facts' = facts /\ labelled' = labelled /\ new' = new
        /\ \A v \in Writer : Written(v)' <=> Written(v)
        /\ \A v \in Writer : Halfway(v)' <=> Halfway(v)
    BY <1>4 DEF GetFacts, GetLabels, Written, Halfway, TypeOK
  <2> QED BY <2>1 DEF OthersAgree, Agree, Given
<1>5. ASSUME NEW w \in Writer, StoreFails(w) PROVE OthersAgree'
  <2>1. /\ facts' = facts /\ labelled' = labelled /\ new' = new
        /\ \A v \in Writer : Written(v)' => Written(v)
        /\ \A v \in Writer : Halfway(v) => Halfway(v)'
    BY <1>5 DEF StoreFails, Written, Halfway, TypeOK
  <2> QED BY <2>1 DEF OthersAgree, Agree, Given
<1>6. CASE UNCHANGED vars
  BY <1>6 DEF vars, OthersAgree, Agree, Given, Written, Halfway
<1> QED BY <1>2, <1>3, <1>4, <1>5, <1>6, PutFactsAgree, PutLabelsAgree
    DEF Next

\* The invariant of writers that take turns, also when the store fails.
THEOREM SerialInvariant ==
  ASSUME ~Overlap
  PROVE  Spec => []SerialInv
<1>1. Init => SerialInv
  BY MemoryAssumption
     DEF Init, SerialInv, OneWriter, Fresh, OthersAgree, Agree, Running,
         Written, Halfway, Nothing, Writer
<1>2. TypeOK /\ SerialInv /\ [Next]_vars => SerialInv'
  BY OneWriterStep, FreshStep, OthersAgreeStep DEF SerialInv
<1> QED BY <1>1, <1>2, TypeCorrect, PTL DEF Spec

\* Then the label "from the contract" in the profile is exact: it marks the
\* facts that came from a contract and no others, except for the keys of a
\* writer the store failed on.
THEOREM SerialLabels ==
  ASSUME ~Overlap
  PROVE  Spec => [](LabelHonest /\ LabelComplete)
<1>1. TypeOK /\ SerialInv => LabelHonest /\ LabelComplete
  <2> SUFFICES ASSUME TypeOK, SerialInv, Quiet
               PROVE  \A k \in Key \ Spoilt : Agree(k)
    BY DEF LabelHonest, LabelComplete, Agree, TypeOK
  <2>1. \A w \in Writer : Halfway(w) => pc[w] = "failed"
    BY DEF Quiet, Running, Written, Halfway
  <2> QED BY <2>1 DEF SerialInv, OthersAgree, Spoilt
<1> QED BY <1>1, TypeCorrect, SerialInvariant, PTL
=============================================================================
