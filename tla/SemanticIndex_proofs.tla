------------------------ MODULE SemanticIndex_proofs ------------------------
(***************************************************************************)
(* What holds of SemanticIndex for every set of files, models and calls,   *)
(* every chunking, both backends and every bound; and, below, of Calls for *)
(* every number of units a stage of work has.                              *)
(***************************************************************************)
EXTENDS SemanticIndex, Calls, DataLemmas

(* The states of a call, as the actions write them.                        *)
LEMMA CallParts ==
  /\ Idle.step = "idle"
  /\ \A m, s : /\ Walking(m, s).step = "walking"
               /\ Walking(m, s).model = m /\ Walking(m, s).todo = s
  /\ \A m, s, f, v : /\ Embedding(m, s, f, v).step = "embedding"
                     /\ Embedding(m, s, f, v).model = m /\ Embedding(m, s, f, v).todo = s
                     /\ Embedding(m, s, f, v).path = f /\ Embedding(m, s, f, v).at = v
  /\ \A m : Walked(m).step = "walked" /\ Walked(m).model = m
  /\ \A m, s : /\ Warming(m, s).step = "warming"
               /\ Warming(m, s).model = m /\ Warming(m, s).todo = s
  /\ \A m, s : /\ Trusting(m, s).step = "trusting"
               /\ Trusting(m, s).model = m /\ Trusting(m, s).asked = s
  /\ \A m, s, h : /\ Ranking(m, s, h).step = "ranking" /\ Ranking(m, s, h).model = m
                  /\ Ranking(m, s, h).asked = s /\ Ranking(m, s, h).hits = h
  /\ \A m, s, h, f, v :
       /\ Answering(m, s, h, f, v).step = "answering" /\ Answering(m, s, h, f, v).model = m
       /\ Answering(m, s, h, f, v).asked = s /\ Answering(m, s, h, f, v).hits = h
       /\ Answering(m, s, h, f, v).path = f /\ Answering(m, s, h, f, v).at = v
BY DEF Idle, Walking, Embedding, Walked, Warming, Trusting, Ranking, Answering

LEMMA CallType ==
  /\ IsCall(Idle)
  /\ \A m \in Models, s \in SUBSET Files :
       /\ IsCall(Walking(m, s)) /\ IsCall(Walked(m)) /\ IsCall(Warming(m, s))
       /\ IsCall(Trusting(m, s))
       /\ \A f \in Files, v \in Versions : IsCall(Embedding(m, s, f, v))
       /\ \A h : AreHits(h) => IsCall(Ranking(m, s, h))
       /\ \A h, f, v : AreHits(h) /\ f \in Files /\ v \in Versions => IsCall(Answering(m, s, h, f, v))
BY CallParts DEF IsCall

(* A step of one call.                                                     *)
LEMMA GotoStep ==
  ASSUME TypeOK, NEW c \in Callers, NEW w, Goto(c, w)
  PROVE  /\ DOMAIN call' = Callers
         /\ \A b \in Callers : call'[b] = IF b = c THEN w ELSE call[b]
         /\ IsCall(w) => \A b \in Callers : IsCall(call'[b])
BY DEF Goto, TypeOK

LEMMA EntryKinds ==
  /\ \A v \in Versions : Plain(v) \in Entry
  /\ \A v \in Versions, m \in Models, w \in Versions : Embedded(v, m, w) \in Entry
  /\ None \notin Entry /\ None \notin Vector
BY SemanticAssumption DEF Entry, Vector, Plain, Embedded, Versions

LEMMA PutType ==
  ASSUME TypeOK, NEW f \in Files, NEW e \in Entry, Put(f, e)
  PROVE  /\ cache' \in [Files -> Entry \cup {None}]
         /\ puts' \in Seq(PutReq) /\ Len(puts') <= QueueCap
         /\ backend' = backend
<1>1. [key |-> f, val |-> e] \in PutReq
  BY DEF PutReq
<1>2. CASE backend = "bolt" /\ HasRoom /\ puts' = Append(puts, [key |-> f, val |-> e])
           /\ UNCHANGED cache
  BY <1>1, <1>2, AppendType, SemanticAssumption DEF Put, HasRoom, TypeOK
<1>3. CASE cache' = [cache EXCEPT ![f] = e] /\ UNCHANGED puts
  BY <1>3 DEF Put, TypeOK
<1>4. CASE UNCHANGED <<puts, cache>>
  BY <1>4 DEF Put, TypeOK
<1>5. QED
  BY <1>2, <1>3, <1>4 DEF Put

(* What a Load puts in place of a file's vectors.                          *)
LEMMA LoadStep ==
  ASSUME TypeOK, NEW c \in Callers, NEW f \in Files, Load(c, f)
  PROVE  /\ call[c].model \in Models
         /\ vec' \in [Models -> [Files -> [ChunkIds -> Vector \cup {None}]]]
         /\ \A m \in Models, g \in Files, i \in ChunkIds :
              \/ vec'[m][g][i] = vec[m][g][i]
              \/ /\ m = call[c].model /\ vec'[m][g][i] \in Vector
                 /\ vec'[m][g][i].by = m
<1> DEFINE m == call[c].model
           e == cache[f]
           row == [i \in ChunkIds |-> IF i <= Chunks[e.of] THEN [by |-> e.by, of |-> e.of]
                                                           ELSE vec[m][f][i]]
<1>1. m \in Models
  BY DEF Load, TypeOK, IsCall
<1>2. CASE UNCHANGED vec
  BY <1>1, <1>2 DEF TypeOK
<1>3. CASE Loadable(e, m) /\ vec' = [vec EXCEPT ![m][f] = row]
  <2>1. e \in Entry /\ e.by = m
    BY <1>3 DEF Loadable, TypeOK
  <2>2. [by |-> e.by, of |-> e.of] \in Vector
    BY <1>1, <2>1, SemanticAssumption DEF Entry, Vector
  <2>3. row \in [ChunkIds -> Vector \cup {None}]
    BY <1>1, <2>2 DEF TypeOK
  <2>4. \A i \in ChunkIds : \/ row[i] = vec[m][f][i]
                            \/ row[i] \in Vector /\ row[i].by = m
    BY <2>1, <2>2
  <2> HIDE DEF row
  <2>5. \A k \in Models, g \in Files : vec'[k][g] = IF k = m /\ g = f THEN row ELSE vec[k][g]
    BY <1>1, <1>3 DEF TypeOK
  <2>6. vec' \in [Models -> [Files -> [ChunkIds -> Vector \cup {None}]]]
    BY <1>1, <1>3, <2>3 DEF TypeOK
  <2>7. QED
    BY <1>1, <2>4, <2>5, <2>6
<1>4. QED
  BY <1>1, <1>2, <1>3 DEF Load

LEMMA DroppedHits ==
  ASSUME NEW h, AreHits(h), NEW f
  PROVE  /\ AreHits(Restrict(h, DOMAIN h \ {f}))
         /\ DOMAIN Restrict(h, DOMAIN h \ {f}) = DOMAIN h \ {f}
         /\ \A g \in DOMAIN h \ {f} : Restrict(h, DOMAIN h \ {f})[g] = h[g]
BY DEF AreHits, Restrict

-----------------------------------------------------------------------------
(* The type invariant.                                                     *)
THEOREM TypeCorrect == Spec => []TypeOK
<1>1. Init => TypeOK
  <2> SUFFICES ASSUME Init PROVE TypeOK
    OBVIOUS
  <2>1. puts \in Seq(PutReq) /\ Len(puts) <= QueueCap
    BY EmptyBatch, SemanticAssumption DEF Init
  <2>2. /\ disk \in [Files -> 0 .. MaxVersion] /\ written \in [Files -> 0 .. MaxVersion]
        /\ stamp \in 1 .. MaxStamp
        /\ coverage \in [Models -> 0 .. MaxStamp] /\ gapless \subseteq Models
    BY SemanticAssumption DEF Init
  <2>3. /\ cache \in [Files -> Entry \cup {None}]
        /\ vec \in [Models -> [Files -> [ChunkIds -> Vector \cup {None}]]]
    BY DEF Init
  <2>4. DOMAIN call = Callers /\ \A c \in Callers : IsCall(call[c])
    BY CallType DEF Init
  <2>5. backend \in Backends
    BY DEF Init
  <2>6. QED
    BY <2>1, <2>2, <2>3, <2>4, <2>5 DEF TypeOK
<1>2. TypeOK /\ [Next]_vars => TypeOK'
  <2> SUFFICES ASSUME TypeOK, [Next]_vars PROVE TypeOK'
    OBVIOUS
  <2>1. ASSUME NEW f \in Files, Edit(f) \/ Create(f) \/ Remove(f) PROVE TypeOK'
    <3>1. disk' \in [Files -> 0 .. MaxVersion] /\ written' \in [Files -> 0 .. MaxVersion]
      <4>1. CASE disk' = [disk EXCEPT ![f] = 0] /\ UNCHANGED written
        BY <4>1, SemanticAssumption DEF TypeOK
      <4>2. CASE /\ written[f] < MaxVersion
                 /\ written' = [written EXCEPT ![f] = @ + 1]
                 /\ disk' = [disk EXCEPT ![f] = written'[f]]
        <5>1. written[f] + 1 \in 0 .. MaxVersion
          BY <4>2, SemanticAssumption DEF TypeOK
        <5>2. written' \in [Files -> 0 .. MaxVersion] /\ written'[f] \in 0 .. MaxVersion
          BY <4>2, <5>1 DEF TypeOK
        <5>3. QED
          BY <4>2, <5>2 DEF TypeOK
      <4>3. QED
        BY <2>1, <4>1, <4>2 DEF Edit, Create, Remove
    <3>2. stamp' \in 1 .. MaxStamp
      BY <2>1, SemanticAssumption DEF TypeOK, Edit, Create, Remove
    <3>3. UNCHANGED <<cacheVars, indexVars, call>>
      BY <2>1 DEF Edit, Create, Remove
    <3>4. QED
      BY <3>1, <3>2, <3>3 DEF TypeOK, cacheVars, indexVars
  <2>2. ASSUME NEW f \in Files, OtherTool(f) PROVE TypeOK'
    <3>1. disk[f] \in Versions
      BY <2>2, SemanticAssumption DEF OtherTool, TypeOK, Versions
    <3>2. QED
      BY <2>2, <3>1, EntryKinds, PutType DEF OtherTool, TypeOK, treeVars, indexVars
  <2>3. ASSUME NEW c \in Callers, NEW m \in Models, Begin(c, m) PROVE TypeOK'
    <3>1. \A b \in Callers : IsCall(call'[b])
      <4>1. CASE \E left \in SUBSET Present : Goto(c, Walking(m, left))
        <5>1. PICK left \in SUBSET Present : Goto(c, Walking(m, left))
          BY <4>1
        <5>2. left \in SUBSET Files
          BY DEF Present
        <5>3. QED
          BY <5>1, <5>2, CallType, GotoStep
      <4>2. CASE Goto(c, Trusting(m, IF m \in gapless THEN Present ELSE {}))
        <5>1. (IF m \in gapless THEN Present ELSE {}) \in SUBSET Files
          BY DEF Present
        <5>2. QED
          BY <4>2, <5>1, CallType, GotoStep
      <4>3. QED
        BY <2>3, <4>1, <4>2 DEF Begin
    <3>2. DOMAIN call' = Callers
      BY <2>3, GotoStep DEF Begin
    <3>3. QED
      BY <2>3, <3>1, <3>2 DEF Begin, TypeOK, treeVars, cacheVars, indexVars
  <2>4. ASSUME NEW c \in Callers, NEW f \in Files, Visit(c, f) PROVE TypeOK'
    <3> DEFINE m == call[c].model
               others == call[c].todo \ {f}
    <3>1. m \in Models /\ others \in SUBSET Files
      BY <2>4 DEF Visit, TypeOK, IsCall
    <3>2. CASE Goto(c, Walking(m, others)) /\ UNCHANGED cacheVars
      BY <2>4, <3>1, <3>2, CallType, GotoStep DEF Visit, TypeOK, treeVars, cacheVars, indexVars
    <3>3. CASE disk[f] # 0 /\ Goto(c, Embedding(m, others, f, disk[f])) /\ UNCHANGED cacheVars
      <4>1. disk[f] \in Versions
        BY <3>3, SemanticAssumption DEF TypeOK, Versions
      <4>2. IsCall(Embedding(m, others, f, disk[f]))
        BY <3>1, <4>1, CallType
      <4>3. QED
        BY <2>4, <3>3, <4>2, GotoStep DEF Visit, TypeOK, treeVars, cacheVars, indexVars
    <3>4. CASE disk[f] # 0 /\ Goto(c, Embedding(m, others, f, disk[f])) /\ Put(f, Plain(disk[f]))
      <4>1. disk[f] \in Versions
        BY <3>4, SemanticAssumption DEF TypeOK, Versions
      <4>2. IsCall(Embedding(m, others, f, disk[f])) /\ Plain(disk[f]) \in Entry
        BY <3>1, <4>1, CallType, EntryKinds
      <4>3. QED
        BY <2>4, <3>4, <4>2, GotoStep, PutType DEF Visit, TypeOK, treeVars, indexVars
    <3>5. QED
      BY <2>4, <3>2, <3>3, <3>4 DEF Visit
  <2>5. ASSUME NEW c \in Callers, Embed(c) PROVE TypeOK'
    <3>1. call[c].model \in Models /\ call[c].todo \in SUBSET Files
          /\ call[c].path \in Files /\ call[c].at \in Versions
      BY <2>5 DEF Embed, TypeOK, IsCall
    <3>2. DOMAIN call' = Callers /\ \A b \in Callers : IsCall(call'[b])
      BY <2>5, <3>1, CallType, GotoStep DEF Embed
    <3>3. CASE UNCHANGED cacheVars
      BY <2>5, <3>2, <3>3 DEF Embed, TypeOK, treeVars, cacheVars, indexVars
    <3>4. CASE disk[call[c].path] # 0
               /\ Put(call[c].path, Embedded(call[c].at, call[c].model, disk[call[c].path]))
      <4>1. disk[call[c].path] \in Versions
        BY <3>1, <3>4, SemanticAssumption DEF TypeOK, Versions
      <4>2. Embedded(call[c].at, call[c].model, disk[call[c].path]) \in Entry
        BY <3>1, <4>1, EntryKinds
      <4>3. QED
        BY <2>5, <3>1, <3>2, <3>4, <4>2, PutType DEF Embed, TypeOK, treeVars, indexVars
    <3>5. QED
      BY <2>5, <3>3, <3>4 DEF Embed
  <2>6. ASSUME NEW c \in Callers, Cancel(c) PROVE TypeOK'
    BY <2>6, CallType, GotoStep DEF Cancel, TypeOK, treeVars, cacheVars, indexVars
  <2>7. ASSUME NEW c \in Callers, EndWalk(c) \/ List(c) PROVE TypeOK'
    <3>1. call[c].model \in Models
      BY <2>7 DEF EndWalk, List, TypeOK, IsCall
    <3>2. {f \in Files : cache[f] # None} \in SUBSET Files
      OBVIOUS
    <3>3. DOMAIN call' = Callers /\ \A b \in Callers : IsCall(call'[b])
      BY <2>7, <3>1, <3>2, CallType, GotoStep DEF EndWalk, List
    <3>4. QED
      BY <2>7, <3>3 DEF EndWalk, List, TypeOK, treeVars, cacheVars, indexVars
  <2>8. ASSUME NEW c \in Callers, NEW f \in Files, Load(c, f) PROVE TypeOK'
    <3>1. call[c].model \in Models /\ call[c].todo \ {f} \in SUBSET Files
      BY <2>8 DEF Load, TypeOK, IsCall
    <3>2. DOMAIN call' = Callers /\ \A b \in Callers : IsCall(call'[b])
      BY <2>8, <3>1, CallType, GotoStep DEF Load
    <3>3. QED
      BY <2>8, <3>2, LoadStep DEF Load, TypeOK, treeVars, cacheVars
  <2>9. ASSUME NEW c \in Callers, Record(c) PROVE TypeOK'
    <3>1. call[c].model \in Models
      BY <2>9 DEF Record, TypeOK, IsCall
    <3>2. coverage' \in [Models -> 0 .. MaxStamp] /\ gapless' \subseteq Models
      BY <2>9, <3>1, SemanticAssumption DEF Record, TypeOK
    <3>3. QED
      BY <2>9, <3>2, CallType, GotoStep DEF Record, TypeOK, treeVars, cacheVars
  <2>10. ASSUME NEW c \in Callers, Search(c) PROVE TypeOK'
    <3> DEFINE m == call[c].model
    <3>1. m \in Models /\ call[c].asked \in SUBSET Files
      BY <2>10 DEF Search, TypeOK, IsCall
    <3>2. PICK best \in [Known(m) -> ChunkIds] :
            /\ \A f \in Known(m) : vec[m][f][best[f]] # None
            /\ Goto(c, Ranking(m, call[c].asked, [f \in Known(m) |-> vec[m][f][best[f]]]))
      BY <2>10 DEF Search
    <3>3. AreHits([f \in Known(m) |-> vec[m][f][best[f]]])
      <4>1. Known(m) \subseteq Files
        BY DEF Known
      <4>2. \A f \in Known(m) : vec[m][f][best[f]] \in Vector
        BY <3>1, <3>2, <4>1 DEF TypeOK
      <4>3. QED
        BY <4>1, <4>2 DEF AreHits
    <3>4. PICK h : AreHits(h) /\ Goto(c, Ranking(m, call[c].asked, h))
      BY <3>2, <3>3
    <3>5. IsCall(Ranking(m, call[c].asked, h))
      BY <3>1, <3>4, CallType
    <3>6. DOMAIN call' = Callers /\ \A b \in Callers : IsCall(call'[b])
      BY <3>4, <3>5, GotoStep
    <3>7. QED
      BY <2>10, <3>6 DEF Search, TypeOK, treeVars, cacheVars, indexVars
  <2>11. ASSUME NEW c \in Callers, NEW f \in Files, Gate(c, f) PROVE TypeOK'
    <3>1. call[c].model \in Models /\ call[c].asked \in SUBSET Files /\ AreHits(call[c].hits)
      BY <2>11 DEF Gate, TypeOK, IsCall
    <3>2. CASE PassesGate(f)
               /\ Goto(c, Answering(call[c].model, call[c].asked, call[c].hits, f, disk[f]))
      <4>1. disk[f] \in Versions
        BY <3>2, SemanticAssumption DEF PassesGate, TypeOK, Versions
      <4>2. IsCall(Answering(call[c].model, call[c].asked, call[c].hits, f, disk[f]))
        BY <3>1, <4>1, CallType
      <4>3. QED
        BY <2>11, <3>2, <4>2, GotoStep DEF Gate, TypeOK, treeVars, cacheVars, indexVars
    <3>3. CASE Dropped(c, f)
      <4>1. IsCall(Ranking(call[c].model, call[c].asked \ {f},
                           Restrict(call[c].hits, DOMAIN call[c].hits \ {f})))
        BY <3>1, DroppedHits, CallType
      <4>2. QED
        BY <2>11, <3>3, <4>1, GotoStep DEF Gate, Dropped, TypeOK, treeVars, cacheVars, indexVars
    <3>4. QED
      BY <2>11, <3>2, <3>3 DEF Gate
  <2>12. ASSUME NEW c \in Callers, Build(c) PROVE TypeOK'
    <3> DEFINE f == call[c].path
    <3>1. /\ call[c].model \in Models /\ call[c].asked \in SUBSET Files
          /\ AreHits(call[c].hits) /\ f \in Files
      BY <2>12 DEF Build, TypeOK, IsCall
    <3>2. IsCall(Ranking(call[c].model, call[c].asked \ {f},
                         Restrict(call[c].hits, DOMAIN call[c].hits \ {f})))
      BY <3>1, DroppedHits, CallType
    <3>3. DOMAIN call' = Callers /\ \A b \in Callers : IsCall(call'[b])
      BY <2>12, <3>2, GotoStep DEF Build, Dropped
    <3>4. CASE UNCHANGED cacheVars
      BY <2>12, <3>3, <3>4 DEF Build, TypeOK, treeVars, cacheVars, indexVars
    <3>5. CASE disk[f] # 0 /\ Put(f, Plain(disk[f]))
      <4>1. Plain(disk[f]) \in Entry
        BY <3>1, <3>5, EntryKinds, SemanticAssumption DEF TypeOK, Versions
      <4>2. QED
        BY <2>12, <3>1, <3>3, <3>5, <4>1, PutType DEF Build, TypeOK, treeVars, indexVars
    <3>6. QED
      BY <2>12, <3>4, <3>5 DEF Build
  <2>13. ASSUME NEW c \in Callers, Return(c) PROVE TypeOK'
    BY <2>13, CallType, GotoStep DEF Return, TypeOK, treeVars, cacheVars, indexVars
  <2>14. CASE Write
    <3>1. Head(puts) \in PutReq /\ Tail(puts) \in Seq(PutReq) /\ Len(Tail(puts)) <= QueueCap
      BY <2>14, HeadTail, SemanticAssumption DEF Write, TypeOK
    <3>2. Head(puts).key \in Files /\ Head(puts).val \in Entry
      BY <3>1 DEF PutReq
    <3>3. cache' \in [Files -> Entry \cup {None}]
      BY <2>14, <3>2 DEF Write, TypeOK
    <3>4. QED
      BY <2>14, <3>1, <3>3 DEF Write, TypeOK, treeVars, indexVars
  <2>15. CASE UNCHANGED vars
    BY <2>15 DEF vars, TypeOK
  <2>16. QED
    BY <2>1, <2>2, <2>3, <2>4, <2>5, <2>6, <2>7, <2>8, <2>9, <2>10, <2>11, <2>12,
       <2>13, <2>14, <2>15 DEF Next
<1>3. QED
  BY <1>1, <1>2, PTL DEF Spec

-----------------------------------------------------------------------------
(* Vectors of different models never meet: they are loaded by the model    *)
(* they were made by, and hits are picked among those of the query's.      *)
THEOREM ModelsStayApart == Spec => []ModelsApart
<1>1. Init => ModelsApart
  BY CallParts DEF Init, ModelsApart, LoadedApart, HitsApart
<1>2. TypeOK /\ TypeOK' /\ ModelsApart /\ [Next]_vars => ModelsApart'
  <2> SUFFICES ASSUME TypeOK, TypeOK', ModelsApart, [Next]_vars PROVE ModelsApart'
    OBVIOUS
  <2>1. LoadedApart'
    <3>1. CASE UNCHANGED vec
      BY <3>1 DEF ModelsApart, LoadedApart
    <3>2. ASSUME NEW c \in Callers, NEW f \in Files, Load(c, f) PROVE LoadedApart'
      <4> SUFFICES ASSUME NEW m \in Models, NEW g \in Files, NEW i \in ChunkIds,
                          vec'[m][g][i] # None
                   PROVE  vec'[m][g][i].by = m
        BY DEF LoadedApart
      <4>1. CASE vec'[m][g][i] = vec[m][g][i]
        BY <4>1 DEF ModelsApart, LoadedApart
      <4>2. CASE vec'[m][g][i] # vec[m][g][i]
        BY <3>2, <4>2, LoadStep
      <4>3. QED
        BY <4>1, <4>2
    <3>3. QED
      BY <3>1, <3>2 DEF Next, vars, indexVars, Edit, Create, Remove, OtherTool, Begin, Visit,
         Embed, Cancel, EndWalk, List, Record, Search, Gate, Build, Return, Write
  <2>2. HitsApart'
    <3>1. CASE UNCHANGED call
      BY <3>1 DEF ModelsApart, HitsApart
    <3>2. ASSUME NEW c \in Callers, NEW w, Goto(c, w), w.step \notin {"ranking", "answering"}
          PROVE  HitsApart'
      BY <3>2, GotoStep DEF ModelsApart, HitsApart
    <3>3. ASSUME NEW c \in Callers, Search(c) PROVE HitsApart'
      <4> DEFINE m == call[c].model
      <4>1. m \in Models
        BY <3>3 DEF Search, TypeOK, IsCall
      <4>2. PICK best \in [Known(m) -> ChunkIds] :
              /\ \A f \in Known(m) : vec[m][f][best[f]] # None
              /\ Goto(c, Ranking(m, call[c].asked, [f \in Known(m) |-> vec[m][f][best[f]]]))
        BY <3>3 DEF Search
      <4>3. \A f \in Known(m) : vec[m][f][best[f]].by = m
        <5>1. Known(m) \subseteq Files
          BY DEF Known
        <5>2. QED
          BY <4>1, <4>2, <5>1 DEF ModelsApart, LoadedApart
      <4>4. PICK h : /\ \A f \in DOMAIN h : h[f].by = m
                     /\ Goto(c, Ranking(m, call[c].asked, h))
        BY <4>2, <4>3
      <4>5. \A b \in Callers : call'[b] = IF b = c THEN Ranking(m, call[c].asked, h) ELSE call[b]
        BY <4>4, GotoStep
      <4>6. QED
        BY <4>4, <4>5, CallParts DEF ModelsApart, HitsApart
    <3>4. ASSUME NEW c \in Callers, NEW f, Dropped(c, f),
                 call[c].step \in {"ranking", "answering"}
          PROVE  HitsApart'
      <4>1. AreHits(call[c].hits)
        BY <3>4 DEF TypeOK, IsCall
      <4>2. PICK h, s : /\ \A g \in DOMAIN h : g \in DOMAIN call[c].hits /\ h[g] = call[c].hits[g]
                        /\ Goto(c, Ranking(call[c].model, s, h))
        <5>1. \A g \in DOMAIN call[c].hits \ {f} :
                Restrict(call[c].hits, DOMAIN call[c].hits \ {f})[g] = call[c].hits[g]
          BY <4>1, DroppedHits
        <5>2. DOMAIN Restrict(call[c].hits, DOMAIN call[c].hits \ {f}) = DOMAIN call[c].hits \ {f}
          BY <4>1, DroppedHits
        <5>3. Goto(c, Ranking(call[c].model, call[c].asked \ {f},
                              Restrict(call[c].hits, DOMAIN call[c].hits \ {f})))
          BY <3>4 DEF Dropped
        <5>4. QED
          BY <5>1, <5>2, <5>3
      <4>3. \A b \in Callers : call'[b] = IF b = c THEN Ranking(call[c].model, s, h) ELSE call[b]
        BY <4>2, GotoStep
      <4>4. QED
        BY <3>4, <4>2, <4>3, CallParts DEF ModelsApart, HitsApart
    <3>5. ASSUME NEW c \in Callers, NEW f \in Files, Gate(c, f), ~Dropped(c, f) PROVE HitsApart'
      <4>1. Goto(c, Answering(call[c].model, call[c].asked, call[c].hits, f, disk[f]))
            /\ call[c].step = "ranking"
        BY <3>5 DEF Gate
      <4>2. \A b \in Callers : call'[b] =
              IF b = c THEN Answering(call[c].model, call[c].asked, call[c].hits, f, disk[f])
                       ELSE call[b]
        BY <4>1, GotoStep
      <4>3. QED
        BY <4>1, <4>2, CallParts DEF ModelsApart, HitsApart
    <3>6. QED
      <4>1. CASE \E f \in Files : Edit(f) \/ Create(f) \/ Remove(f) \/ OtherTool(f)
        BY <4>1, <3>1 DEF Edit, Create, Remove, OtherTool
      <4>2. ASSUME NEW c \in Callers, NEW m \in Models, Begin(c, m) PROVE HitsApart'
        BY <4>2, <3>2, CallParts DEF Begin
      <4>3. ASSUME NEW c \in Callers, NEW f \in Files, Visit(c, f) \/ Load(c, f)
            PROVE  HitsApart'
        BY <4>3, <3>2, CallParts DEF Visit, Load
      <4>4. ASSUME NEW c \in Callers, Embed(c) \/ Cancel(c) \/ EndWalk(c) \/ List(c)
                                      \/ Record(c) \/ Return(c)
            PROVE  HitsApart'
        BY <4>4, <3>2, CallParts DEF Embed, Cancel, EndWalk, List, Record, Return
      <4>5. ASSUME NEW c \in Callers, NEW f \in Files, Gate(c, f) PROVE HitsApart'
        BY <4>5, <3>4, <3>5 DEF Gate
      <4>6. ASSUME NEW c \in Callers, Build(c) PROVE HitsApart'
        BY <4>6, <3>4 DEF Build
      <4>7. CASE Write \/ UNCHANGED vars
        BY <4>7, <3>1 DEF Write, vars
      <4>8. QED
        BY <3>3, <4>1, <4>2, <4>3, <4>4, <4>5, <4>6, <4>7 DEF Next
  <2>3. QED
    BY <2>1, <2>2 DEF ModelsApart
<1>3. QED
  BY <1>1, <1>2, TypeCorrect, PTL DEF Spec

-----------------------------------------------------------------------------
(* Coverage is never recorded with a fingerprint the directory has yet to  *)
(* reach: what makes a change of the set of files visible.                 *)
NotAhead == \A m \in Models : coverage[m] <= stamp

WholeInv == NotAhead /\ CoverageWhole

(* Vectors are replaced, never withdrawn.                                  *)
LEMMA KnownGrows ==
  ASSUME TypeOK, [Next]_vars, NEW m \in Models
  PROVE  Known(m) \subseteq Known(m)'
<1>1. CASE UNCHANGED vec
  BY <1>1 DEF Known
<1>2. ASSUME NEW c \in Callers, NEW f \in Files, Load(c, f) PROVE Known(m) \subseteq Known(m)'
  <2> SUFFICES ASSUME NEW g \in Files, NEW i \in ChunkIds, vec[m][g][i] # None
               PROVE  vec'[m][g][i] # None
    BY DEF Known
  <2>1. QED
    BY <1>2, LoadStep, EntryKinds
<1>3. QED
  BY <1>1, <1>2 DEF Next, vars, indexVars, Edit, Create, Remove, OtherTool, Begin, Visit,
     Embed, Cancel, EndWalk, List, Record, Search, Gate, Build, Return, Write

(* A directory whose set of files grows has a new mtime.                   *)
LEMMA TreeMoves ==
  ASSUME TypeOK, [Next]_vars
  PROVE  /\ \/ stamp' = stamp /\ Present' = Present
            \/ stamp' = stamp + 1 /\ UNCHANGED <<coverage, gapless, call>>
<1>1. CASE UNCHANGED treeVars
  BY <1>1 DEF treeVars, Present
<1>2. ASSUME NEW f \in Files, Edit(f) PROVE stamp' = stamp /\ Present' = Present
  <2>1. written'[f] # 0
    BY <1>2, SemanticAssumption DEF Edit, TypeOK
  <2>2. QED
    BY <1>2, <2>1 DEF Edit, TypeOK, Present
<1>3. ASSUME NEW f \in Files, Create(f) \/ Remove(f)
      PROVE  stamp' = stamp + 1 /\ UNCHANGED <<coverage, gapless, call>>
  BY <1>3 DEF Create, Remove, indexVars
<1>4. QED
  BY <1>1, <1>2, <1>3 DEF Next, vars, treeVars, OtherTool, Begin, Visit, Load,
     Embed, Cancel, EndWalk, List, Record, Search, Gate, Build, Return, Write

(* Trust is well placed: coverage recorded without gaps stays without gaps *)
(* until the fingerprint differs, and a trusting call misses no file.      *)
THEOREM TrustIsWhole == Spec => []CoverageWhole
<1>1. Init => WholeInv
  BY CallParts DEF Init, WholeInv, NotAhead, CoverageWhole, TrustedWhole, FindsAll
<1>2. TypeOK /\ TypeOK' /\ WholeInv /\ [Next]_vars => WholeInv'
  <2> SUFFICES ASSUME TypeOK, TypeOK', WholeInv, [Next]_vars PROVE WholeInv'
    OBVIOUS
  <2>1. stamp \in Int /\ \A m \in Models : coverage[m] \in Int
    BY SemanticAssumption DEF TypeOK
  <2>2. NotAhead' /\ TrustedWhole'
    <3>1. CASE UNCHANGED <<coverage, gapless>>
      <4>1. CASE stamp' = stamp /\ Present' = Present
        BY <3>1, <4>1, KnownGrows DEF WholeInv, NotAhead, CoverageWhole, TrustedWhole, Covered, TypeOK
      <4>2. CASE stamp' = stamp + 1
        BY <2>1, <3>1, <4>2 DEF WholeInv, NotAhead, TrustedWhole, Covered, TypeOK
      <4>3. QED
        BY <4>1, <4>2, TreeMoves
    <3>2. ASSUME NEW c \in Callers, Record(c) PROVE NotAhead' /\ TrustedWhole'
      <4>1. stamp' = stamp /\ Present' = Present /\ \A m \in Models : Known(m)' = Known(m)
        BY <3>2 DEF Record, treeVars, Present, Known
      <4>2. call[c].model \in Models
        BY <3>2 DEF Record, TypeOK, IsCall
      <4>3. \A m \in Models : coverage'[m] = IF m = call[c].model THEN stamp ELSE coverage[m]
        BY <3>2, <4>2 DEF Record, TypeOK
      <4>4. \A m \in gapless' : \/ m \in gapless /\ m # call[c].model
                                \/ Present \subseteq Known(m)
        BY <3>2 DEF Record
      <4>5. NotAhead'
        BY <2>1, <4>1, <4>3 DEF WholeInv, NotAhead
      <4>6. ASSUME NEW m \in gapless', Covered(m)' PROVE Present' \subseteq Known(m)'
        <5>1. m \in Models
          BY <4>6 DEF TypeOK
        <5>2. CASE m \in gapless /\ m # call[c].model
          <6>1. coverage[m] # 0 /\ coverage[m] = stamp
            BY <4>1, <4>3, <4>6, <5>1, <5>2 DEF Covered
          <6>2. Present \subseteq Known(m)
            BY <5>2, <6>1 DEF WholeInv, CoverageWhole, TrustedWhole, Covered
          <6>3. QED
            BY <4>1, <5>1, <6>2
        <5>3. CASE Present \subseteq Known(m)
          BY <4>1, <5>1, <5>3
        <5>4. QED
          BY <4>4, <5>2, <5>3
      <4>7. TrustedWhole'
        BY <4>6 DEF TrustedWhole
      <4>8. QED
        BY <4>5, <4>7
    <3>3. QED
      BY <3>1, <3>2 DEF Next, vars, indexVars, Edit, Create, Remove, OtherTool, Begin, Visit, Load,
         Embed, Cancel, EndWalk, List, Search, Gate, Build, Return, Write
  <2>3. FindsAll'
    <3>1. CASE UNCHANGED call
      <4>1. \A c \in Callers : call[c].step = "trusting" => call[c].model \in Models
        BY DEF TypeOK, IsCall
      <4>2. QED
        BY <3>1, <4>1, KnownGrows DEF WholeInv, CoverageWhole, FindsAll
    <3>2. ASSUME NEW c \in Callers, NEW w, Goto(c, w),
                 w.step = "trusting" => w.model \in Models /\ w.asked \subseteq Known(w.model)',
                 w.step \in {"ranking", "answering"} => w.asked \subseteq DOMAIN w.hits
          PROVE  FindsAll'
      <4>1. \A b \in Callers : call[b].step = "trusting" => call[b].model \in Models
        BY DEF TypeOK, IsCall
      <4>2. \A b \in Callers : call'[b] = IF b = c THEN w ELSE call[b]
        BY <3>2, GotoStep
      <4> SUFFICES ASSUME NEW b \in Callers
                   PROVE  (/\ call[b].step = "trusting" =>
                                call[b].asked \subseteq Known(call[b].model)
                           /\ call[b].step \in {"ranking", "answering"} =>
                                call[b].asked \subseteq DOMAIN call[b].hits)'
        BY DEF FindsAll
      <4>3. CASE b = c
        BY <3>2, <4>2, <4>3 DEF Known
      <4>4. CASE b # c
        <5>1. call'[b] = call[b]
          BY <4>2, <4>4
        <5>2. /\ call[b].step = "trusting" => call[b].asked \subseteq Known(call[b].model)
              /\ call[b].step \in {"ranking", "answering"} =>
                   call[b].asked \subseteq DOMAIN call[b].hits
          BY DEF WholeInv, CoverageWhole, FindsAll
        <5>3. call[b].step = "trusting" =>
                /\ call[b].model \in Models
                /\ {f \in Files : \E i \in ChunkIds : vec[call[b].model][f][i] # None} \subseteq
                     {f \in Files : \E i \in ChunkIds : vec'[call[b].model][f][i] # None}
          BY <4>1, KnownGrows DEF Known
        <5>4. QED
          BY <5>1, <5>2, <5>3 DEF Known
      <4>5. QED
        BY <4>3, <4>4
    <3>3. ASSUME NEW c \in Callers, NEW m \in Models, Begin(c, m) PROVE FindsAll'
      <4>1. CASE Covered(m) /\ Goto(c, Trusting(m, IF m \in gapless THEN Present ELSE {}))
        <5>1. (IF m \in gapless THEN Present ELSE {}) \subseteq Known(m)'
          BY <4>1, KnownGrows DEF WholeInv, CoverageWhole, TrustedWhole
        <5>2. QED
          BY <3>2, <4>1, <5>1, CallParts
      <4>2. CASE \E left \in SUBSET Present : Goto(c, Walking(m, left))
        BY <3>2, <4>2, CallParts
      <4>3. QED
        BY <3>3, <4>1, <4>2 DEF Begin
    <3>4. ASSUME NEW c \in Callers, Search(c) PROVE FindsAll'
      <4> DEFINE m == call[c].model
      <4>1. call[c].asked \subseteq Known(m)
        BY <3>4 DEF Search, WholeInv, CoverageWhole, FindsAll
      <4>2. PICK h : DOMAIN h = Known(m) /\ Goto(c, Ranking(m, call[c].asked, h))
        BY <3>4 DEF Search
      <4>3. QED
        BY <3>2, <4>1, <4>2, CallParts
    <3>5. ASSUME NEW c \in Callers, NEW f, Dropped(c, f),
                 call[c].step \in {"ranking", "answering"}
          PROVE  FindsAll'
      <4>1. AreHits(call[c].hits) /\ call[c].asked \subseteq DOMAIN call[c].hits
        BY <3>5 DEF TypeOK, IsCall, WholeInv, CoverageWhole, FindsAll
      <4>2. PICK h : /\ DOMAIN h = DOMAIN call[c].hits \ {f}
                     /\ Goto(c, Ranking(call[c].model, call[c].asked \ {f}, h))
        <5>1. DOMAIN Restrict(call[c].hits, DOMAIN call[c].hits \ {f}) = DOMAIN call[c].hits \ {f}
          BY <4>1, DroppedHits
        <5>2. QED
          BY <3>5, <5>1 DEF Dropped
      <4>3. QED
        BY <3>2, <4>1, <4>2, CallParts
    <3>6. ASSUME NEW c \in Callers, NEW f \in Files, Gate(c, f), ~Dropped(c, f) PROVE FindsAll'
      <4>1. /\ Goto(c, Answering(call[c].model, call[c].asked, call[c].hits, f, disk[f]))
            /\ call[c].asked \subseteq DOMAIN call[c].hits
        BY <3>6 DEF Gate, WholeInv, CoverageWhole, FindsAll
      <4>2. QED
        BY <3>2, <4>1, CallParts
    <3>7. QED
      <4>1. CASE \E f \in Files : Edit(f) \/ Create(f) \/ Remove(f) \/ OtherTool(f)
        BY <4>1, <3>1 DEF Edit, Create, Remove, OtherTool
      <4>2. ASSUME NEW c \in Callers, NEW f \in Files, Visit(c, f) \/ Load(c, f)
            PROVE  FindsAll'
        BY <4>2, <3>2, CallParts DEF Visit, Load
      <4>3. ASSUME NEW c \in Callers, Embed(c) \/ Cancel(c) \/ EndWalk(c) \/ List(c)
                                      \/ Record(c) \/ Return(c)
            PROVE  FindsAll'
        BY <4>3, <3>2, CallParts DEF Embed, Cancel, EndWalk, List, Record, Return
      <4>4. ASSUME NEW c \in Callers, NEW f \in Files, Gate(c, f) PROVE FindsAll'
        BY <4>4, <3>5, <3>6 DEF Gate
      <4>5. ASSUME NEW c \in Callers, Build(c) PROVE FindsAll'
        BY <4>5, <3>5 DEF Build
      <4>6. CASE Write \/ UNCHANGED vars
        BY <4>6, <3>1 DEF Write, vars
      <4>7. QED
        BY <3>3, <3>4, <4>1, <4>2, <4>3, <4>4, <4>5, <4>6 DEF Next
  <2>4. QED
    BY <2>2, <2>3 DEF WholeInv, CoverageWhole
<1>3. WholeInv => CoverageWhole
  BY DEF WholeInv
<1>4. QED
  BY <1>1, <1>2, <1>3, TypeCorrect, PTL DEF Spec

(* Both: for any calls, models and files, a call is answered with vectors  *)
(* of its model only, and one that skips the walk misses no file.          *)
THEOREM WarmIsExact == Spec => []WarmExact
<1>1. ModelsApart /\ CoverageWhole => WarmExact
  BY DEF WarmExact
<1>2. QED
  BY <1>1, ModelsStayApart, TrustIsWhole, PTL

-----------------------------------------------------------------------------
(* Calls of tools and commands.  What is still to come of a program, by    *)
(* what it will do: tell that work was left undone, if the walk has ended  *)
(* with e; choose an exit code before rows are called complete; ...        *)
Tells(e) == IF e = "no" THEN LooksAtContext ELSE LooksAtWalk
Owes(r, e) == NextOf(r, 0, Tells(e), Work)
ChoosesExit(r) == NextOf(r, 0, Exits \cup {"forget"}, STRING \ Completes)
ChecksLate(r) == \A s \in Later(r, 0) : s.do \in Guards => ThingOf(s) \in LateChecks

(* A program is followed from its beginning to its end, so what is to come *)
(* is always the end of one.                                               *)
EndOf(s, r, k) ==
  /\ k \in 0 .. Len(r) /\ s \in Seq(Steps) /\ Len(s) = Len(r) - k
  /\ \A i \in 1 .. Len(s) : s[i] = r[i + k]

LEMMA EndLater ==
  ASSUME NEW r \in Seq(Steps), NEW s, NEW k, EndOf(s, r, k), NEW i \in 0 .. Len(s)
  PROVE  Later(s, i) = Later(r, i + k)
<1> DEFINE n == Len(r)
           m == Len(s)
<1>1. n \in Nat /\ m \in Nat /\ k \in 0 .. n /\ m = n - k /\ i \in 0 .. m
  BY DEF EndOf
<1>2. \A j \in 1 .. m : s[j] = r[j + k]
  BY DEF EndOf
<1> HIDE DEF n, m
<1>3. \A j \in i + 1 .. m : j \in 1 .. m /\ j + k \in i + k + 1 .. n
  BY <1>1
<1>4. \A j \in i + k + 1 .. n : j - k \in i + 1 .. m /\ (j - k) + k = j /\ j - k \in 1 .. m
  BY <1>1
<1>5. {s[j] : j \in i + 1 .. m} \subseteq {r[j] : j \in i + k + 1 .. n}
  BY <1>2, <1>3
<1>6. {r[j] : j \in i + k + 1 .. n} \subseteq {s[j] : j \in i + 1 .. m}
  BY <1>2, <1>4
<1> QED BY <1>5, <1>6 DEF Later, n, m

LEMMA EndNext ==
  ASSUME NEW r \in Seq(Steps), NEW s, NEW k, EndOf(s, r, k), NEW i \in 0 .. Len(s),
         NEW these, NEW between
  PROVE  NextOf(s, i, these, between) <=> NextOf(r, i + k, these, between)
<1> DEFINE n == Len(r)
           l == Len(s)
<1>1. n \in Nat /\ l \in Nat /\ k \in 0 .. n /\ l = n - k /\ i \in 0 .. l
  BY DEF EndOf
<1>2. \A j \in 1 .. l : s[j] = r[j + k]
  BY DEF EndOf
<1> HIDE DEF n, l
<1>3. ASSUME NextOf(s, i, these, between) PROVE NextOf(r, i + k, these, between)
  <2>1. PICK m \in i + 1 .. l : s[m].do \in these /\ \A j \in i + 1 .. m - 1 : s[j].do \in between
    BY <1>3 DEF NextOf, l
  <2>2. m + k \in i + k + 1 .. n /\ m \in 1 .. l
    BY <1>1
  <2>3. PICK q \in Int : q = m + k
    BY <1>1
  <2>4. q \in i + k + 1 .. n /\ r[q] = s[m]
    BY <2>2, <2>3, <1>2
  <2>5. ASSUME NEW j \in i + k + 1 .. q - 1 PROVE r[j].do \in between
    <3>1. j - k \in i + 1 .. m - 1 /\ j - k \in 1 .. l /\ (j - k) + k = j
      BY <1>1, <2>3
    <3> QED BY <3>1, <2>1, <1>2
  <2> QED BY <2>1, <2>4, <2>5 DEF NextOf, n
<1>4. ASSUME NextOf(r, i + k, these, between) PROVE NextOf(s, i, these, between)
  <2>1. PICK m \in i + k + 1 .. n : r[m].do \in these
                                    /\ \A j \in i + k + 1 .. m - 1 : r[j].do \in between
    BY <1>4 DEF NextOf, n
  <2>2. m - k \in i + 1 .. l /\ m - k \in 1 .. l /\ (m - k) + k = m
    BY <1>1
  <2>3. s[m - k].do \in these
    BY <2>1, <2>2, <1>2
  <2>4. ASSUME NEW j \in i + 1 .. m - k - 1 PROVE s[j].do \in between
    <3>1. j + k \in i + k + 1 .. m - 1 /\ j \in 1 .. l
      BY <1>1
    <3> QED BY <3>1, <2>1, <1>2
  <2> QED BY <2>2, <2>3, <2>4 DEF NextOf, l
<1> QED BY <1>3, <1>4

LEMMA EndOrdered ==
  ASSUME NEW p, NEW r \in Seq(Steps), WellOrdered(p, r), NEW s, NEW k, EndOf(s, r, k)
  PROVE  WellOrdered(p, s)
<1> DEFINE n == Len(r)
           l == Len(s)
<1>1. n \in Nat /\ l \in Nat /\ k \in 0 .. n /\ l = n - k /\ DOMAIN s = 1 .. l /\ DOMAIN r = 1 .. n
  BY DEF EndOf
<1>2. \A j \in 1 .. l : s[j] = r[j + k]
  BY DEF EndOf
<1> HIDE DEF n, l
<1> SUFFICES ASSUME NEW i \in 1 .. l PROVE CutTold(p, s, i) /\ StepsOrdered(p, s, i)
  BY <1>1 DEF WellOrdered
<1>3. s[i] = r[i + k] /\ i + k \in 1 .. n
  BY <1>1, <1>2
<1>4. CutTold(p, r, i + k) /\ StepsOrdered(p, r, i + k)
  BY <1>1, <1>3 DEF WellOrdered
<1>5. i \in 0 .. Len(s)
  BY <1>1 DEF l
<1>6. Later(s, i) = Later(r, i + k)
  BY <1>5, EndLater
<1>7. \A these, between : NextOf(s, i, these, between) <=> NextOf(r, i + k, these, between)
  BY <1>5, EndNext
<1>8. CutTold(p, s, i)
  <2>1. ASSUME p \notin Unmarked, s[i].do = "whileLive"
        PROVE  \E m \in i + 1 .. l - 1 : /\ s[m].do = "markBoth" /\ s[m + 1].do \in LooksAtContext
                                        /\ \A j \in i + 1 .. m - 1 : s[j].do # "markBoth"
    <3>1. PICK m \in i + k + 1 .. n - 1 : /\ r[m].do = "markBoth" /\ r[m + 1].do \in LooksAtContext
                                          /\ \A j \in i + k + 1 .. m - 1 : r[j].do # "markBoth"
      BY <1>3, <1>4, <2>1 DEF CutTold, n
    <3>2. /\ m - k \in i + 1 .. l - 1 /\ m - k \in 1 .. l /\ (m - k) + 1 \in 1 .. l
          /\ (m - k) + k = m /\ ((m - k) + 1) + k = m + 1
      BY <1>1
    <3>3. s[m - k].do = "markBoth" /\ s[(m - k) + 1].do \in LooksAtContext
      BY <3>1, <3>2, <1>2
    <3>4. ASSUME NEW j \in i + 1 .. m - k - 1 PROVE s[j].do # "markBoth"
      <4>1. j + k \in i + k + 1 .. m - 1 /\ j \in 1 .. l
        BY <1>1
      <4> QED BY <4>1, <3>1, <1>2
    <3> QED BY <3>2, <3>3, <3>4
  <2> QED BY <1>3, <1>4, <1>7, <2>1 DEF CutTold, l
<1>9. StepsOrdered(p, s, i)
  BY <1>3, <1>4, <1>6, <1>7 DEF StepsOrdered, LaterDoes
<1> QED BY <1>8, <1>9

(* The next step and what comes after it.                                  *)
LEMMA TailIsEnd ==
  ASSUME NEW r \in Seq(Steps), r # <<>>
  PROVE  EndOf(Tail(r), r, 1) /\ Head(r) = r[1] /\ 1 \in 1 .. Len(r) /\ Len(r) \in Nat
BY HeadTail DEF EndOf

LEMMA TailFacts ==
  ASSUME NEW p, NEW r \in Seq(Steps), r # <<>>, WellOrdered(p, r)
  PROVE  LET h == Head(r)
             s == Tail(r)
         IN  /\ s \in Seq(Steps) /\ WellOrdered(p, s) /\ CutTold(p, r, 1) /\ StepsOrdered(p, r, 1)
             /\ Later(s, 0) = Later(r, 1) /\ Later(r, 0) = {h} \cup Later(s, 0)
             /\ \A these, between :
                  /\ NextOf(r, 1, these, between) <=> NextOf(s, 0, these, between)
                  /\ NextOf(r, 0, these, between) =>
                       h.do \in these \/ (h.do \in between /\ NextOf(s, 0, these, between))
<1> DEFINE s == Tail(r)
           h == Head(r)
           n == Len(r)
<1>1. EndOf(s, r, 1) /\ h = r[1] /\ 1 \in 1 .. n /\ n \in Nat /\ s \in Seq(Steps) /\ 0 \in 0 .. Len(s)
      /\ DOMAIN r = 1 .. n
  BY TailIsEnd DEF EndOf
<1>2. WellOrdered(p, s) /\ CutTold(p, r, 1) /\ StepsOrdered(p, r, 1)
  BY <1>1, EndOrdered DEF WellOrdered
<1>3. Later(s, 0) = Later(r, 1)
  BY <1>1, EndLater, 0 + 1 = 1
<1>4. \A these, between : NextOf(r, 1, these, between) <=> NextOf(s, 0, these, between)
  BY <1>1, EndNext, 0 + 1 = 1
<1> HIDE DEF s, h
<1>5. Later(r, 0) = {h} \cup Later(r, 1)
  <2>1. 0 + 1 .. n = {1} \cup 1 + 1 .. n
    BY <1>1
  <2> QED BY <2>1, <1>1 DEF Later, n
<1>6. ASSUME NEW these, NEW between, NextOf(r, 0, these, between), h.do \notin these
      PROVE  h.do \in between /\ NextOf(r, 1, these, between)
  <2>1. PICK m \in 0 + 1 .. n : r[m].do \in these /\ \A j \in 0 + 1 .. m - 1 : r[j].do \in between
    BY <1>6 DEF NextOf, n
  <2>2. m # 1
    BY <2>1, <1>1, <1>6
  <2>3. m \in 1 + 1 .. n /\ 1 \in 0 + 1 .. m - 1
    BY <2>2, <1>1
  <2>4. \A j \in 1 + 1 .. m - 1 : j \in 0 + 1 .. m - 1
    BY <1>1
  <2> QED BY <2>1, <2>3, <2>4, <1>1 DEF NextOf, n
<1> QED BY <1>1, <1>2, <1>3, <1>4, <1>5, <1>6 DEF s, h

LEMMA DropIs ==
  ASSUME NEW S, NEW r \in Seq(S), NEW k \in 1 .. Len(r)
  PROVE  LET s == SubSeq(r, k + 1, Len(r))
         IN  /\ s \in Seq(S) /\ Len(s) = Len(r) - k
             /\ \A i \in 1 .. Len(r) - k : s[i] = r[i + k]
<1> DEFINE n == Len(r)
           s == SubSeq(r, k + 1, n)
<1>1. n \in Nat /\ k \in 1 .. n /\ \A i \in k + 1 .. n : r[i] \in S
  OBVIOUS
<1>2. /\ s \in Seq(S) /\ Len(s) = IF k + 1 <= n THEN n - (k + 1) + 1 ELSE 0
      /\ \A i \in 1 .. n - (k + 1) + 1 : s[i] = r[k + 1 + i - 1]
  BY <1>1, SubSeqProperties
<1> HIDE DEF s, n
<1>3. Len(s) = n - k
  BY <1>1, <1>2
<1>4. ASSUME NEW i \in 1 .. n - k PROVE s[i] = r[i + k]
  <2>1. i \in 1 .. n - (k + 1) + 1 /\ k + 1 + i - 1 = i + k
    BY <1>1
  <2> QED BY <1>2, <2>1
<1> QED BY <1>2, <1>3, <1>4 DEF s, n

(* A jump behind the next step of a kind.                                  *)
LEMMA AfterFacts ==
  ASSUME NEW p, rest \in Seq(Steps), WellOrdered(p, rest), NEW a, LaterDoes(rest, 0, a)
  PROVE  \E k \in 1 .. Len(rest) :
           /\ rest[k].do = a /\ \A j \in 1 .. k - 1 : rest[j].do # a
           /\ EndOf(After(a), rest, k) /\ WellOrdered(p, After(a)) /\ After(a) \in Seq(Steps)
           /\ StepsOrdered(p, rest, k)
           /\ Later(After(a), 0) = Later(rest, k) /\ Later(After(a), 0) \subseteq Later(rest, 0)
           /\ \A these, between : NextOf(rest, k, these, between) <=> NextOf(After(a), 0, these, between)
<1> DEFINE n == Len(rest)
           here == {i \in DOMAIN rest : rest[i].do = a}
           k == CHOOSE i \in here : \A j \in here : i <= j
           s == SubSeq(rest, k + 1, n)
<1>1. n \in Nat /\ DOMAIN rest = 1 .. n
  OBVIOUS
<1>2. here \in SUBSET Nat /\ here # {}
  BY <1>1 DEF LaterDoes, Later
<1>3. \E i \in here : \A j \in here : i <= j
  BY <1>2, LeastNat
<1>4. k \in here /\ \A j \in here : k <= j
  BY <1>3
<1>5. After(a) = s
  BY DEF After
<1> HIDE DEF k, here
<1>6. k \in 1 .. n /\ rest[k].do = a
  BY <1>1, <1>4 DEF here
<1>7. \A j \in 1 .. k - 1 : rest[j].do # a
  <2> SUFFICES ASSUME NEW j \in 1 .. k - 1, rest[j].do = a PROVE FALSE
    OBVIOUS
  <2>1. j \in 1 .. n /\ ~(k <= j)
    BY <1>1, <1>6
  <2> QED BY <2>1, <1>1, <1>4 DEF here
<1>8. s \in Seq(Steps) /\ Len(s) = n - k /\ \A i \in 1 .. n - k : s[i] = rest[i + k]
  BY <1>1, <1>6, DropIs DEF s
<1> HIDE DEF s, n
<1>15. EndOf(s, rest, k)
  BY <1>8, <1>6, <1>1 DEF EndOf, n
<1> USE DEF n
<1>9. WellOrdered(p, s) /\ StepsOrdered(p, rest, k)
  BY <1>15, <1>6, <1>1, EndOrdered DEF WellOrdered
<1>10. 0 \in 0 .. Len(s) /\ 0 + k = k
  BY <1>15, <1>6, <1>1 DEF EndOf
<1>11. Later(s, 0) = Later(rest, k)
  BY <1>15, <1>10, EndLater
<1>12. Later(rest, k) \subseteq Later(rest, 0)
  <2>1. k + 1 .. n \subseteq 0 + 1 .. n
    BY <1>1, <1>6
  <2> QED BY <2>1 DEF Later, n
<1>13. \A these, between : NextOf(rest, k, these, between) <=> NextOf(s, 0, these, between)
  BY <1>15, <1>10, EndNext
<1>14. /\ EndOf(After(a), rest, k) /\ WellOrdered(p, After(a)) /\ After(a) \in Seq(Steps)
       /\ Later(After(a), 0) = Later(rest, k)
       /\ \A these, between : NextOf(rest, k, these, between) <=> NextOf(After(a), 0, these, between)
  BY <1>5, <1>8, <1>15, <1>9, <1>11, <1>13
<1> QED BY ONLY <1>6, <1>7, <1>9, <1>12, <1>11, <1>14 DEF n

-----------------------------------------------------------------------------
(* What holds between two steps of a call.                                 *)
CallTypeOK ==
  /\ prog \in CallNames /\ rest \in Seq(Steps) /\ todo \in Nat \cup {NoStage}
  /\ armed \in BOOLEAN /\ gone \in BOOLEAN /\ touched \in BOOLEAN /\ skipped \in Nat
  /\ ctxErr \in {"no", "timeout", "gone"} /\ werr \in {"no", "timeout", "gone"}
  /\ mark \in {"no", "timeout", "client_cancel", "interrupted"}
  /\ answer \in {"none", "rows", "error", "1", "124", "130"}

OneAtATime == todo # NoStage => answer = "none" /\ rest # <<>> /\ Head(rest).do \in Stages

CausesKnown ==
  /\ werr # "no" => werr = ctxErr
  /\ skipped > 0 \/ mark # "no" => ctxErr # "no"
  /\ ctxErr = "timeout" => armed
  /\ ctxErr = "gone" => gone
  /\ armed => ~LaterDoes(rest, 0, "limit")

TellingOwed ==
  /\ mark = "no" /\ answer = "none"
  /\ (skipped > 0 /\ prog \notin Unmarked) \/ (werr # "no" /\ prog \in LateLoop)
  => Owes(rest, werr)
LateAfterWork == touched => ChecksLate(rest)
ReasonKnown ==
  /\ mark = "timeout" => ctxErr = "timeout"
  /\ mark \in {"client_cancel", "interrupted"} => gone \/ prog \in OneReason
ExitOwed == prog \in DOMAIN Programs /\ mark # "no" /\ answer = "none" => ChoosesExit(rest)
WalkMarks == mark # "no" /\ LaterDoes(rest, 0, "exitWalk") => werr # "no"

CallInv ==
  /\ CallTypeOK /\ WellOrdered(prog, rest) /\ OneAtATime /\ CausesKnown /\ TellingOwed
  /\ LateAfterWork /\ ReasonKnown /\ ExitOwed /\ WalkMarks /\ CallsHonest

LEMMA EmptyFacts ==
  /\ \A p : WellOrdered(p, <<>>)
  /\ <<>> \in Seq(Steps) /\ ChecksLate(<<>>) /\ \A a : ~LaterDoes(<<>>, 0, a)
<1>1. Later(<<>>, 0) = {}
  BY DEF Later
<1> QED BY <1>1 DEF WellOrdered, ChecksLate, LaterDoes

LEMMA PassFacts ==
  ASSUME CallInv, rest # <<>>
  PROVE  LET h == Head(rest)
             s == Tail(rest)
         IN  /\ s \in Seq(Steps) /\ WellOrdered(prog, s)
             /\ \A e : Owes(rest, e) => h.do \in Tells(e) \/ (h.do \in Work /\ Owes(s, e))
             /\ ChoosesExit(rest) =>
                  h.do \in Exits \cup {"forget"} \/ (h.do \notin Completes /\ ChoosesExit(s))
             /\ ChecksLate(rest) => ChecksLate(s) /\ (h.do \in Guards => ThingOf(h) \in LateChecks)
             /\ \A a : LaterDoes(s, 0, a) => LaterDoes(rest, 0, a)
             /\ LaterDoes(rest, 0, h.do)
             /\ prog \notin Silent /\ h.do = "walk" => \A e : e # "no" => Owes(s, e)
             /\ prog \notin Unmarked /\ h.do = "loop" => \A e : Owes(s, e)
             /\ prog \in DOMAIN Programs /\ h.do \in Marks => ChoosesExit(s)
             /\ h.do \in Stages => ChecksLate(rest)
             /\ h.do = "limit" => ~LaterDoes(s, 0, "limit")
             /\ h.do = "fast" => LaterDoes(rest, 0, "markOuter")
             /\ h.do \in {"cached", "whileLive"} => LaterDoes(rest, 0, "markBoth")
             /\ h.do = "git" => LaterDoes(rest, 0, "markReview")
             /\ h.do = "forget" => prog \in Silent
             /\ h.do = "lastGone" => prog \in OneReason
             /\ h.do = "exitReason" => prog \notin OneReason
             /\ h.do = "exitTimeout" => prog \in OneExitCode
             /\ h.do \in LooksAtContext \cup {"lastGone", "git"} => ~LaterDoes(s, 0, "exitWalk")
<1> DEFINE h == Head(rest)
           s == Tail(rest)
<1>1. rest \in Seq(Steps) /\ WellOrdered(prog, rest)
  BY DEF CallInv, CallTypeOK
<1>2. /\ s \in Seq(Steps) /\ WellOrdered(prog, s) /\ CutTold(prog, rest, 1) /\ StepsOrdered(prog, rest, 1)
      /\ Later(s, 0) = Later(rest, 1) /\ Later(rest, 0) = {h} \cup Later(s, 0)
  BY <1>1, TailFacts
<1>3. ASSUME NEW these, NEW between
      PROVE  /\ NextOf(rest, 1, these, between) <=> NextOf(s, 0, these, between)
             /\ NextOf(rest, 0, these, between) =>
                  h.do \in these \/ (h.do \in between /\ NextOf(s, 0, these, between))
  BY <1>1, TailFacts
<1>4. rest[1] = h /\ h.do \in STRING
  <2>1. rest[1] = Head(rest) /\ Head(rest) \in Steps
    BY <1>1, TailIsEnd, HeadTail
  <2>2. \A r \in Steps : r.do \in STRING
    BY DEF Steps
  <2> QED BY <2>1, <2>2
<1> HIDE DEF h, s
<1>5. \A e : Owes(rest, e) => h.do \in Tells(e) \/ (h.do \in Work /\ Owes(s, e))
  BY <1>3 DEF Owes
<1>6. ChoosesExit(rest) => h.do \in Exits \cup {"forget"} \/ (h.do \notin Completes /\ ChoosesExit(s))
  BY <1>3 DEF ChoosesExit
<1>7. prog \notin Silent /\ h.do = "walk" => \A e : e # "no" => Owes(s, e)
  BY <1>2, <1>3, <1>4 DEF CutTold, Owes, Tells
<1>8. prog \notin Unmarked /\ h.do = "loop" => \A e : Owes(s, e)
  <2> SUFFICES ASSUME prog \notin Unmarked, h.do = "loop", NEW e PROVE Owes(s, e)
    OBVIOUS
  <2>1. NextOf(rest, 1, LooksAtContext, Work)
    BY <1>2, <1>4 DEF CutTold
  <2>2. LooksAtContext \subseteq Tells(e)
    BY DEF LooksAtContext, LooksAtWalk, Tells
  <2>3. NextOf(rest, 1, Tells(e), Work)
    BY <2>1, <2>2 DEF NextOf
  <2> QED BY <2>3, <1>3 DEF Owes
<1>9. prog \in DOMAIN Programs /\ h.do \in Marks => ChoosesExit(s)
  BY <1>2, <1>3, <1>4 DEF StepsOrdered, ChoosesExit
<1>10. \A a : LaterDoes(s, 0, a) <=> LaterDoes(rest, 1, a)
  BY <1>2 DEF LaterDoes
<1>11. /\ ChecksLate(rest) => ChecksLate(s) /\ (h.do \in Guards => ThingOf(h) \in LateChecks)
       /\ h.do \in Stages => ChecksLate(rest)
  BY <1>2, <1>4 DEF ChecksLate, StepsOrdered, Stages, Guards
<1>12. (\A a : LaterDoes(s, 0, a) => LaterDoes(rest, 0, a)) /\ LaterDoes(rest, 0, h.do)
  BY <1>2 DEF LaterDoes
<1>13. LaterDoes(rest, 1, "markOuter") => LaterDoes(rest, 0, "markOuter")
  BY <1>10, <1>12
<1>14. LaterDoes(rest, 1, "markBoth") => LaterDoes(rest, 0, "markBoth")
  BY <1>10, <1>12
<1>15. LaterDoes(rest, 1, "markReview") => LaterDoes(rest, 0, "markReview")
  BY <1>10, <1>12
<1>16. /\ h.do = "limit" => ~LaterDoes(s, 0, "limit")
       /\ h.do = "fast" => LaterDoes(rest, 0, "markOuter")
       /\ h.do \in {"cached", "whileLive"} => LaterDoes(rest, 0, "markBoth")
       /\ h.do = "git" => LaterDoes(rest, 0, "markReview")
       /\ h.do = "forget" => prog \in Silent
       /\ h.do = "lastGone" => prog \in OneReason
       /\ h.do = "exitReason" => prog \notin OneReason
       /\ h.do = "exitTimeout" => prog \in OneExitCode
       /\ h.do \in LooksAtContext \cup {"lastGone", "git"} => ~LaterDoes(s, 0, "exitWalk")
  BY <1>2, <1>4, <1>10, <1>13, <1>14, <1>15 DEF StepsOrdered
<1> QED BY <1>2, <1>5, <1>6, <1>7, <1>8, <1>9, <1>11, <1>12, <1>16 DEF h, s

LEMMA JumpFacts ==
  ASSUME CallInv, NEW a, LaterDoes(rest, 0, a)
  PROVE  LET s == After(a)
         IN  /\ s \in Seq(Steps) /\ WellOrdered(prog, s)
             /\ ChecksLate(rest) => ChecksLate(s)
             /\ \A b : LaterDoes(s, 0, b) => LaterDoes(rest, 0, b)
             /\ prog \in DOMAIN Programs /\ a \in Marks => ChoosesExit(s)
             /\ a \in LooksAtContext => ~LaterDoes(s, 0, "exitWalk")
             /\ prog \notin Unmarked /\ Head(rest).do = "whileLive" /\ a = "markBoth" =>
                  \A e : Owes(s, e)
<1> DEFINE s == After(a)
           n == Len(rest)
<1>1. rest \in Seq(Steps) /\ WellOrdered(prog, rest)
  BY DEF CallInv, CallTypeOK
<1>2. PICK k \in 1 .. n :
           /\ rest[k].do = a /\ \A j \in 1 .. k - 1 : rest[j].do # a
           /\ EndOf(s, rest, k) /\ WellOrdered(prog, s) /\ s \in Seq(Steps)
           /\ StepsOrdered(prog, rest, k)
           /\ Later(s, 0) = Later(rest, k) /\ Later(s, 0) \subseteq Later(rest, 0)
           /\ \A these, between : NextOf(rest, k, these, between) <=> NextOf(s, 0, these, between)
  BY <1>1, AfterFacts
<1> HIDE DEF s
<1>3. /\ ChecksLate(rest) => ChecksLate(s)
      /\ \A b : LaterDoes(s, 0, b) => LaterDoes(rest, 0, b)
  BY <1>2 DEF ChecksLate, LaterDoes
<1>4. prog \in DOMAIN Programs /\ a \in Marks => ChoosesExit(s)
  BY <1>2 DEF StepsOrdered, ChoosesExit
<1>5. a \in LooksAtContext => ~LaterDoes(s, 0, "exitWalk")
  BY <1>2 DEF StepsOrdered, LaterDoes
<1>6. ASSUME prog \notin Unmarked, Head(rest).do = "whileLive", a = "markBoth", NEW e
      PROVE  Owes(s, e)
  <2>1. n \in Nat /\ rest # <<>> /\ DOMAIN rest = 1 .. n /\ 1 \in 1 .. n /\ rest[1] = Head(rest)
    BY <1>1, <1>2
  <2>2. PICK m \in 1 + 1 .. n - 1 : /\ rest[m].do = "markBoth" /\ rest[m + 1].do \in LooksAtContext
                                  /\ \A j \in 1 + 1 .. m - 1 : rest[j].do # "markBoth"
    BY <2>1, <1>1, <1>6 DEF WellOrdered, CutTold
  <2>3. k = m
    <3>1. k # 1
      BY <1>2, <1>6, <2>1
    <3>2. ~(k < m)
      BY <3>1, <1>2, <2>2, <1>6
    <3>3. ~(m < k)
      BY <1>2, <2>2, <1>6, <2>1
    <3> QED BY <3>2, <3>3, <2>1
  <2>4. k + 1 \in k + 1 .. n /\ \A j \in k + 1 .. (k + 1) - 1 : FALSE
    BY <2>1, <2>2, <2>3
  <2>5. LooksAtContext \subseteq Tells(e)
    BY DEF LooksAtContext, LooksAtWalk, Tells
  <2>6. NextOf(rest, k, Tells(e), Work)
    BY <2>2, <2>3, <2>4, <2>5 DEF NextOf, n
  <2> QED BY <2>6, <1>2 DEF Owes
<1> QED BY <1>2, <1>3, <1>4, <1>5, <1>6 DEF s

-----------------------------------------------------------------------------
LEMMA CallInitInv == CallInit => CallInv
<1> SUFFICES ASSUME NEW p \in CallNames, NEW t \in {"none", "server", "call"}, NEW w \in Things(p),
                    CallStart(p, [wrong |-> w, timeout |-> t])
             PROVE  CallInv
  BY DEF CallInit
<1>1. ProgramOf(p) \in Seq(Steps) /\ WellOrdered(p, ProgramOf(p))
  BY ProgramsWellOrdered
<1>2. CallTypeOK /\ WellOrdered(prog, rest)
  BY <1>1 DEF CallStart, CallTypeOK, NoStage
<1> QED
  BY <1>2 DEF CallStart, CallInv, OneAtATime, CausesKnown, TellingOwed, LateAfterWork, ReasonKnown,
              ExitOwed, WalkMarks, CallsHonest

(* A step that is only passed: it tells nothing, and chooses no exit code. *)
LEMMA PassedInv ==
  ASSUME CallInv, rest # <<>>, answer = "none", rest' = Tail(rest), todo' = NoStage,
         UNCHANGED <<prog, given, ctxErr, gone, armed, werr, skipped, touched, mark, answer>>,
         Head(rest).do \notin Work \cup Tells(werr),
         mark = "no" \/ Head(rest).do \notin Exits \cup {"forget"}
  PROVE  CallInv'
<1> DEFINE h == Head(rest)
           s == Tail(rest)
<1>1. /\ s \in Seq(Steps) /\ WellOrdered(prog, s)
      /\ \A e : Owes(rest, e) => h.do \in Tells(e) \/ (h.do \in Work /\ Owes(s, e))
      /\ ChoosesExit(rest) => h.do \in Exits \cup {"forget"} \/ (h.do \notin Completes /\ ChoosesExit(s))
      /\ ChecksLate(rest) => ChecksLate(s)
      /\ \A a : LaterDoes(s, 0, a) => LaterDoes(rest, 0, a)
  BY PassFacts
<1> HIDE DEF h, s
<1>2. rest' = s /\ h.do \notin Work \cup Tells(werr) /\ (mark = "no" \/ h.do \notin Exits \cup {"forget"})
  BY DEF h, s
<1>3. CallTypeOK' /\ OneAtATime' /\ WellOrdered(prog, rest)'
  BY <1>1, <1>2 DEF CallInv, CallTypeOK, OneAtATime
<1>4. CausesKnown'
  BY <1>1, <1>2 DEF CallInv, CausesKnown
<1>5. TellingOwed'
  BY <1>1, <1>2 DEF CallInv, TellingOwed
<1>6. LateAfterWork' /\ ReasonKnown' /\ WalkMarks'
  BY <1>1, <1>2 DEF CallInv, LateAfterWork, ReasonKnown, WalkMarks
<1>7. ExitOwed'
  BY <1>1, <1>2 DEF CallInv, ExitOwed
<1>8. CallsHonest'
  BY DEF CallInv, CallsHonest
<1> QED BY <1>3, <1>4, <1>5, <1>6, <1>7, <1>8 DEF CallInv

(* The invariant in terms of the parts a step may change.                  *)
LEMMA CallStepInv == CallInv /\ [CallNext]_callVars => CallInv'
<1> SUFFICES ASSUME CallInv, [CallNext]_callVars PROVE CallInv'
  OBVIOUS
<1> DEFINE h == Head(rest)
           s == Tail(rest)
<1>e. /\ \A p : WellOrdered(p, <<>>)
      /\ <<>> \in Seq(Steps) /\ ChecksLate(<<>>) /\ \A a : ~LaterDoes(<<>>, 0, a)
  BY EmptyFacts
<1> USE DEF CallInv, CallTypeOK, OneAtATime, CausesKnown, TellingOwed, LateAfterWork, ReasonKnown,
            ExitOwed, WalkMarks, CallsHonest, Excused, Unmarked, Silent, LateLoop
<1> USE DEF At, Finish, Pass, Wrong, envVars, stageVars, Over, Leave
<1>s. \A a : At(a) /\ a \notin Stages => todo = NoStage
  OBVIOUS
<1>n. NoStage \notin Nat
  BY DEF NoStage
<1>1. CASE Guard
  <2> USE <1>1 DEF Guard
  <2>1. rest # <<>> /\ h.do \in Guards /\ h.do \notin Stages /\ answer = "none" /\ todo = NoStage
    BY DEF Guards, Stages
  <2>2. CASE ~Wrong
    <3>1. h.do \notin Work \cup Tells(werr) /\ h.do \notin Exits \cup {"forget"}
      BY ONLY <2>1 DEF Guards, Exits, LooksAtContext, LooksAtWalk, Tells, Work
    <3> QED BY <2>1, <2>2, <3>1, PassedInv
  <2>3. CASE Wrong
    BY <2>1, <2>3, <1>e, PassFacts
  <2> QED BY <2>2, <2>3
<1>2. CASE ResolveTimeout
  <2> USE <1>2 DEF ResolveTimeout
  <2>1. rest # <<>> /\ h.do = "limit" /\ answer = "none" /\ todo = NoStage
    BY DEF Stages
  <2>2. Applies(h.of) \in BOOLEAN
    BY DEF Applies
  <2> QED BY <2>1, <2>2, PassFacts DEF Guards, Work, Tells, LooksAtContext, LooksAtWalk, Completes, Exits
<1>3. CASE Timeout
  BY <1>3 DEF Timeout
<1>4. CASE ClientGone
  BY <1>4 DEF ClientGone
<1>5. CASE BeginStage
  BY <1>5, UnitsAssumption, <1>n DEF BeginStage
<1>6. CASE Unit
  <2> USE <1>6 DEF Unit
  <2>1. todo \in Nat /\ todo # NoStage /\ todo - 1 \in Nat
    BY <1>n DEF NoStage
  <2>2. rest # <<>> /\ h.do \in Stages /\ answer = "none"
    BY <2>1
  <2>3. ChecksLate(rest)
    BY <2>2, PassFacts
  <2> QED BY <2>1, <2>2, <2>3
<1>7. CASE WalkEnds
  <2> USE <1>7 DEF WalkEnds
  <2>1. rest # <<>> /\ h.do = "walk" /\ answer = "none" /\ todo \in Nat /\ skipped + todo \in Nat
    OBVIOUS
  <2>2. CASE given.wrong = "walk"
    BY <2>1, <2>2, <1>e DEF LateChecks
  <2>3. CASE given.wrong # "walk"
    <3>1. skipped' > 0 => werr' # "no"
      BY <2>1
    <3>2. s \in Seq(Steps) /\ WellOrdered(prog, s)
      BY <2>1, PassFacts
    <3>3. prog \notin Silent => \A e : e # "no" => Owes(s, e)
      BY <2>1, PassFacts
    <3>4. ChoosesExit(rest) => ChoosesExit(s)
      BY <2>1, PassFacts DEF Exits
    <3>5. ChecksLate(rest) => ChecksLate(s)
      BY <2>1, PassFacts
    <3>6. \A a : LaterDoes(s, 0, a) => LaterDoes(rest, 0, a)
      BY <2>1, PassFacts
    <3>7. rest' = s /\ UNCHANGED <<prog, given, ctxErr, gone, touched, armed, mark, answer>> /\ todo' = NoStage
          /\ skipped' = skipped + todo /\ werr' = IF werr = "no" THEN ctxErr ELSE werr
      BY <2>3
    <3> HIDE DEF s, WalkEnds
    <3> QED BY ONLY CallInv, <2>1, <3>1, <3>2, <3>3, <3>4, <3>5, <3>6, <3>7
  <2> QED BY <2>2, <2>3
<1>8. CASE LoopEnds
  <2> USE <1>8 DEF LoopEnds
  <2>1. rest # <<>> /\ h.do \in {"loop", "lastGone"} /\ answer = "none" /\ todo \in Nat /\ skipped + todo \in Nat
    OBVIOUS
  <2>2. CASE h.do = "loop"
    <3>1. s \in Seq(Steps) /\ WellOrdered(prog, s)
      BY <2>1, PassFacts
    <3>2. prog \notin Unmarked => \A e : Owes(s, e)
      BY <2>1, <2>2, PassFacts
    <3>3. Owes(rest, werr) => Owes(s, werr)
      BY <2>1, <2>2, PassFacts DEF LooksAtContext, LooksAtWalk, Tells
    <3>4. ChoosesExit(rest) => ChoosesExit(s)
      BY <2>1, <2>2, PassFacts DEF Exits
    <3>5. ChecksLate(rest) => ChecksLate(s)
      BY <2>1, PassFacts
    <3>6. \A a : LaterDoes(s, 0, a) => LaterDoes(rest, 0, a)
      BY <2>1, PassFacts
    <3>7. rest' = s /\ UNCHANGED <<prog, given, ctxErr, gone, werr, touched, armed, mark, answer>>
          /\ todo' = NoStage /\ skipped' = skipped + todo
      BY <2>1, <2>2
    <3>8. todo > 0 => ctxErr # "no"
      BY <2>1
    <3> HIDE DEF s, LoopEnds
    <3> QED BY ONLY CallInv, <2>1, <3>1, <3>2, <3>3, <3>4, <3>5, <3>6, <3>7, <3>8
  <2>3. CASE h.do = "lastGone"
    BY <2>1, <2>3, PassFacts DEF Exits, Completes, Marks, LooksAtContext, LooksAtWalk, Tells, Work
  <2> QED BY <2>1, <2>2, <2>3
<1>9. CASE SoftEnds
  <2> USE <1>9 DEF SoftEnds
  <2>1. rest # <<>> /\ h.do = "soft" /\ answer = "none" /\ skipped + 0 = skipped
    OBVIOUS
  <2>2. h.do \notin Work \cup Tells(werr) /\ h.do \notin Exits \cup {"forget"}
    BY <2>1 DEF Exits, LooksAtContext, LooksAtWalk, Tells, Work
  <2> QED BY <2>1, <2>2, PassedInv
<1>10. CASE FetchEnds
  <2> USE <1>10 DEF FetchEnds
  <2>1. rest # <<>> /\ h.do = "fetch" /\ answer = "none" /\ todo \in Nat /\ skipped + todo \in Nat
        /\ skipped + 0 = skipped
    OBVIOUS
  <2>2. CASE todo > 0 \/ given.wrong = "fetch"
    <3>1. rest' = <<>> /\ answer' = "error" /\ todo' = NoStage /\ skipped' = skipped + todo
          /\ UNCHANGED <<prog, given, ctxErr, gone, werr, touched, armed, mark>>
      BY <2>2
    <3>2. todo > 0 => ctxErr # "no"
      BY <2>1
    <3>3. given.wrong \notin LateChecks => ctxErr # "no"
      BY <2>2, <3>2 DEF LateChecks
    <3> HIDE DEF FetchEnds
    <3> QED BY ONLY CallInv, <1>e, <2>1, <3>1, <3>2, <3>3
  <2>3. CASE ~(todo > 0 \/ given.wrong = "fetch")
    <3>1. h.do \notin Work \cup Tells(werr) /\ h.do \notin Exits \cup {"forget"}
      BY <2>1 DEF Exits, LooksAtContext, LooksAtWalk, Tells, Work
    <3> QED BY <2>1, <2>3, <3>1, PassedInv
  <2> QED BY <2>2, <2>3
<1>11. CASE GitEnds
  <2> USE <1>11 DEF GitEnds
  <2>1. rest # <<>> /\ h.do = "git" /\ answer = "none" /\ todo \in Nat /\ skipped + todo \in Nat
        /\ skipped + 0 = skipped
    OBVIOUS
  <2>2. LaterDoes(rest, 0, "markReview")
    BY <2>1, PassFacts
  <2>3. CASE rest' = After("markReview")
    BY <2>1, <2>2, <2>3, JumpFacts, PassFacts DEF Exits, Completes, LooksAtContext, LooksAtWalk, Tells, Work, Marks
  <2>4. CASE rest' = s /\ todo = 0
    BY <2>1, <2>4, PassFacts DEF Exits, Completes, LooksAtContext, LooksAtWalk, Tells, Work, Marks
  <2> QED BY <2>3, <2>4
<1>12. CASE WhileLive
  <2> USE <1>12 DEF WhileLive
  <2>1. rest # <<>> /\ h.do = "whileLive" /\ answer = "none" /\ todo = NoStage /\ skipped + 1 \in Nat
    BY DEF Stages
  <2>2. LaterDoes(rest, 0, "markBoth")
    BY <2>1, PassFacts
  <2>3. CASE rest' = After("markBoth")
    BY <2>1, <2>2, <2>3, JumpFacts, PassFacts DEF Exits, Completes, LooksAtContext, LooksAtWalk, Tells, Work, Marks
  <2>4. CASE rest' = s /\ ctxErr = "no"
    BY <2>1, <2>4, PassFacts DEF Exits, Completes, LooksAtContext, LooksAtWalk, Tells, Work, Marks
  <2> QED BY <2>3, <2>4
<1>13. CASE FastEnds
  <2> USE <1>13 DEF FastEnds
  <2>1. rest # <<>> /\ h.do = "fast" /\ answer = "none" /\ skipped + 0 = skipped
    OBVIOUS
  <2>2. LaterDoes(rest, 0, "markOuter")
    BY <2>1, PassFacts
  <2>3. CASE rest' = After("markOuter")
    BY <2>1, <2>2, <2>3, JumpFacts, PassFacts DEF Exits, Completes, LooksAtContext, LooksAtWalk, Tells, Work, Marks
  <2>4. CASE rest' = s
    <3>1. h.do \notin Work \cup Tells(werr) /\ h.do \notin Exits \cup {"forget"}
      BY <2>1 DEF Exits, LooksAtContext, LooksAtWalk, Tells, Work
    <3> QED BY <2>1, <2>4, <3>1, PassedInv
  <2> QED BY <2>3, <2>4
<1>14. CASE NotFast
  <2>1. rest # <<>> /\ answer = "none" /\ h.do = "fast"
    BY <1>14 DEF NotFast
  <2>2. h.do \notin Work \cup Tells(werr) /\ h.do \notin Exits \cup {"forget"}
    BY <2>1 DEF Exits, LooksAtContext, LooksAtWalk, Tells, Work
  <2> QED BY <1>14, <2>1, <2>2, PassedInv DEF NotFast
<1>15. CASE Cached
  <2> USE <1>15 DEF Cached
  <2>1. rest # <<>> /\ h.do = "cached" /\ answer = "none" /\ todo = NoStage
    BY DEF Stages
  <2>2. LaterDoes(rest, 0, "markBoth")
    BY <2>1, PassFacts
  <2>3. CASE rest' = After("markBoth")
    BY <2>1, <2>2, <2>3, JumpFacts, PassFacts DEF Exits, Completes, LooksAtContext, LooksAtWalk, Tells, Work, Marks
  <2>4. CASE rest' = s
    <3>1. h.do \notin Work \cup Tells(werr) /\ h.do \notin Exits \cup {"forget"}
      BY <2>1 DEF Exits, LooksAtContext, LooksAtWalk, Tells, Work
    <3> QED BY <2>1, <2>4, <3>1, PassedInv
  <2> QED BY <2>3, <2>4
<1>16. CASE WatchOn
  <2>1. todo = NoStage /\ rest # <<>> /\ answer = "none" /\ h.do = "watch"
    BY <1>16 DEF WatchOn, Stages
  <2>2. h.do \notin Work \cup Tells(werr) /\ h.do \notin Exits \cup {"forget"}
    BY <2>1 DEF Exits, LooksAtContext, LooksAtWalk, Tells, Work
  <2> QED BY <1>16, <2>1, <2>2, PassedInv DEF WatchOn
<1>17. CASE Mark
  <2> USE <1>17 DEF Mark
  <2>1. rest # <<>> /\ answer = "none" /\ todo = NoStage /\ rest' = s
        /\ h.do \in {"markWalk", "markBoth", "markOuter", "markReview", "forget"}
    BY DEF Stages
  <2>2. CASE At("markWalk") /\ mark' = MarkWalk(werr)
    BY <2>1, <2>2, PassFacts DEF MarkWalk, Reason, Exits, Completes, Marks, LooksAtContext, LooksAtWalk, Tells, Work
  <2>3. CASE At("markBoth") /\ mark' = MarkBoth(werr, ctxErr)
    BY <2>1, <2>3, PassFacts DEF MarkBoth, Reason, Exits, Completes, Marks, LooksAtContext, LooksAtWalk, Tells, Work
  <2>4. CASE At("markOuter") /\ mark' = MarkOuter(werr)
    BY <2>1, <2>4, PassFacts DEF MarkOuter, Reason, Exits, Completes, Marks, LooksAtContext, LooksAtWalk, Tells, Work
  <2>5. CASE At("markReview") /\ mark' = MarkReview(ctxErr)
    BY <2>1, <2>5, PassFacts DEF MarkReview, Reason, Exits, Completes, Marks, LooksAtContext, LooksAtWalk, Tells, Work
  <2>6. CASE At("forget") /\ mark' = "no"
    <3>1. /\ s \in Seq(Steps) /\ WellOrdered(prog, s)
          /\ ChecksLate(rest) => ChecksLate(s)
          /\ \A a : LaterDoes(s, 0, a) => LaterDoes(rest, 0, a)
      BY <2>1, PassFacts
    <3>2. prog \in Silent
      BY <2>1, <2>6, PassFacts
    <3> QED BY <2>1, <2>6, <3>1, <3>2
  <2> QED BY <2>2, <2>3, <2>4, <2>5, <2>6
<1>18. CASE Whole
  <2>1. todo = NoStage /\ rest # <<>> /\ h.do = "whole"
    BY <1>18 DEF Whole, Stages
  <2>2. CASE werr # "no"
    BY <1>18, <2>1, <2>2, <1>e DEF Whole
  <2>3. CASE werr = "no"
    <3>1. h.do \notin Work \cup Tells(werr) /\ h.do \notin Exits \cup {"forget"}
      BY <2>1, <2>3 DEF Exits, LooksAtContext, Tells, Work
    <3> QED BY <1>18, <2>1, <2>3, <3>1, PassedInv DEF Whole
  <2> QED BY <2>2, <2>3
<1>19. CASE ExitCode
  <2>1. PICK a \in Exits :
          /\ At(a)
          /\ LET code == CASE a = "exitContext" -> ExitByContext
                           [] a = "exitReason" -> ExitByReason
                           [] a = "exitWalk" -> ExitByWalk
                           [] OTHER -> "124"
             IN IF mark = "no" \/ code = "none" THEN Pass /\ UNCHANGED answer ELSE Finish(code)
    BY <1>19 DEF ExitCode
  <2>2. todo = NoStage /\ rest # <<>> /\ h.do = a /\ answer = "none"
        /\ UNCHANGED <<prog, given, ctxErr, gone, todo, werr, skipped, touched, armed, mark>>
    BY <1>19, <2>1 DEF ExitCode, Stages, Exits
  <2>3. CASE mark = "no"
    <3>1. h.do \notin Work \cup Tells(werr)
      BY <2>2 DEF Exits, LooksAtContext, LooksAtWalk, Tells, Work
    <3>2. rest' = s /\ UNCHANGED answer
      BY <2>1, <2>3
    <3> QED BY <2>2, <2>3, <3>1, <3>2, PassedInv
  <2>4. CASE mark # "no" /\ a = "exitContext"
    BY <2>1, <2>2, <2>4, <1>e DEF ExitByContext
  <2>5. CASE mark # "no" /\ a = "exitReason"
    BY <2>1, <2>2, <2>5, <1>e, PassFacts DEF ExitByReason
  <2>6. CASE mark # "no" /\ a = "exitWalk"
    BY <2>1, <2>2, <2>6, <1>e, PassFacts DEF ExitByWalk
  <2>7. CASE mark # "no" /\ a = "exitTimeout"
    BY <2>1, <2>2, <2>7, <1>e, PassFacts
  <2> QED BY <2>3, <2>4, <2>5, <2>6, <2>7 DEF Exits
<1>20. CASE Verdict
  <2>1. todo = NoStage /\ rest # <<>> /\ h.do = "verdict" /\ answer = "none"
    BY <1>20 DEF Verdict, Stages
  <2>2. CASE Wrong
    BY <1>20, <2>1, <2>2, <1>e, PassFacts DEF Verdict, Exits, Completes, LooksAtContext, LooksAtWalk, Tells, Work
  <2>3. CASE ~Wrong
    <3>1. h.do \notin Work \cup Tells(werr) /\ h.do \notin Exits \cup {"forget"}
      BY <2>1 DEF Exits, LooksAtContext, LooksAtWalk, Tells, Work
    <3> QED BY <1>20, <2>1, <2>3, <3>1, PassedInv DEF Verdict
  <2> QED BY <2>2, <2>3
<1>21. CASE Answers
  <2>1. todo = NoStage /\ rest # <<>> /\ h.do \in {"answer", "exit"} /\ answer = "none"
    BY <1>21 DEF Answers, Stages
  <2> QED BY <1>21, <2>1, <1>e, PassFacts DEF Answers, Exits, Completes, LooksAtContext, LooksAtWalk, Tells, Work
<1>22. CASE UNCHANGED callVars
  BY <1>22 DEF callVars
<1> QED
  BY <1>1, <1>2, <1>3, <1>4, <1>5, <1>6, <1>7, <1>8, <1>9, <1>10, <1>11, <1>12, <1>13, <1>14, <1>15,
     <1>16, <1>17, <1>18, <1>19, <1>20, <1>21, <1>22 DEF CallNext

(* An answer is honest about how it was cut short, for every program and   *)
(* any work: but for the few that Excused names, in what is said of them.  *)
THEOREM CallsTell == CallSpec => []CallsHonest
<1>1. CallInv => CallsHonest
  BY DEF CallInv
<1> QED BY <1>1, CallInitInv, CallStepInv, PTL DEF CallSpec
=============================================================================
