-------------------------- MODULE ProjectScopeProofs --------------------------
(***************************************************************************)
(* Proofs about ProjectScope: the inductive invariant IInv and the safety  *)
(* properties it implies, for every number of projects, documents,         *)
(* searches and models.                                                    *)
(***************************************************************************)
EXTENDS ProjectScope, TLAPS

(* The initial states satisfy the invariant.                               *)
LEMMA InitIInv == Init => IInv
<1> SUFFICES ASSUME Init PROVE IInv
  OBVIOUS
<1>1. TypeOK
  BY ScopeAssumption DEF Init, TypeOK, Scopes, Tasks
<1>2. ASSUME NEW d \in Docs PROVE DocInv(d)
  BY DEF Init, DocInv, Tasks, Busy
<1>3. ASSUME NEW t \in Tasks PROVE TaskInv(t)
  BY DEF Init, TaskInv, Live, Dimensions
<1>4. UnbornInv /\ FoundInv /\ NeverForeign /\ CollectionFits /\ PointsKept
  BY DEF Init, UnbornInv, FoundInv, NeverForeign, CollectionFits, PointsKept, Scopes, Tasks
<1> QED BY <1>1, <1>2, <1>3, <1>4 DEF IInv

(* A new project has no collection yet.                                    *)
LEMMA CreateIInv ==
    ASSUME IInv, NEW p \in Projects, NEW m \in Models, Create(p, m)
    PROVE  IInv'
<1>1. TypeOK'
  BY ScopeAssumption DEF IInv, TypeOK, Scopes, Tasks, Busy, Create, storeVars, searchVars, taskVars,
     historyVars
<1>2. ASSUME NEW e \in Docs PROVE DocInv(e)'
  BY ScopeAssumption DEF IInv, TypeOK, DocInv, Scopes, Tasks, Busy, Create, storeVars, searchVars, taskVars,
     historyVars
<1>3. ASSUME NEW u \in Tasks PROVE TaskInv(u)'
  BY ScopeAssumption DEF IInv, TypeOK, TaskInv, UnbornInv, Live, Dimensions, Scopes, Tasks,
     Busy, None, Create, storeVars, searchVars, taskVars, historyVars
<1>4. UnbornInv' /\ FoundInv'
  BY ScopeAssumption DEF IInv, TypeOK, UnbornInv, FoundInv, TaskInv, Live, Scopes, Tasks, Busy,
     Create, storeVars, searchVars, taskVars, historyVars
<1>5. NeverForeign'
  BY ScopeAssumption DEF IInv, TypeOK, NeverForeign, FoundInv, DocInv, Scopes, Tasks, Busy,
     Create, storeVars, searchVars, taskVars, historyVars
<1>6. CollectionFits'
  BY ScopeAssumption DEF IInv, TypeOK, CollectionFits, UnbornInv, TaskInv, Live, Dimensions,
     Scopes, Tasks, Busy, None, Create, storeVars, searchVars, taskVars, historyVars
<1>7. PointsKept'
  BY ScopeAssumption DEF IInv, TypeOK, PointsKept, DocInv, TaskInv, Live, Scopes, Tasks, Busy, Create,
     storeVars, searchVars, taskVars, historyVars
<1> QED BY <1>1, <1>2, <1>3, <1>4, <1>5, <1>6, <1>7 DEF IInv

(* A dropped project is not live any more.                                 *)
LEMMA DropIInv ==
    ASSUME IInv, NEW p \in Projects, Drop(p)
    PROVE  IInv'
<1>1. TypeOK'
  BY ScopeAssumption DEF IInv, TypeOK, Scopes, Tasks, Busy, Drop, storeVars, searchVars, taskVars,
     historyVars
<1>2. ASSUME NEW e \in Docs PROVE DocInv(e)'
  <2>1. \A s \in Scopes : points'[s] \subseteq points[s]
    BY DEF IInv, TypeOK, Drop, Scopes
  <2>2. UNCHANGED <<project, at, scope, found, deleter, historyVars>>
    BY DEF Drop, searchVars, taskVars
  <2> QED BY <2>1, <2>2 DEF IInv, DocInv, historyVars
<1>3. ASSUME NEW u \in Tasks PROVE TaskInv(u)'
  BY ScopeAssumption DEF IInv, TypeOK, TaskInv, UnbornInv, Live, Dimensions, Scopes, Tasks,
     Busy, None, Drop, storeVars, searchVars, taskVars, historyVars
<1>4. UnbornInv' /\ FoundInv'
  BY ScopeAssumption DEF IInv, TypeOK, UnbornInv, FoundInv, TaskInv, Live, Scopes, Tasks, Busy,
     Drop, storeVars, searchVars, taskVars, historyVars
<1>5. NeverForeign'
  BY ScopeAssumption DEF IInv, TypeOK, NeverForeign, FoundInv, DocInv, Scopes, Tasks, Busy,
     Drop, storeVars, searchVars, taskVars, historyVars
<1>6. CollectionFits'
  BY ScopeAssumption DEF IInv, TypeOK, CollectionFits, UnbornInv, TaskInv, Live, Dimensions,
     Scopes, Tasks, Busy, None, Drop, storeVars, searchVars, taskVars, historyVars
<1>7. PointsKept'
  BY ScopeAssumption DEF IInv, TypeOK, PointsKept, DocInv, Live, Scopes, Tasks, Busy, Drop,
     storeVars, searchVars, taskVars, historyVars
<1> QED BY <1>1, <1>2, <1>3, <1>4, <1>5, <1>6, <1>7 DEF IInv

(* A document that changes its project keeps its vectors.                  *)
LEMMA MoveIInv ==
    ASSUME IInv, NEW d \in Docs, (\E p \in Projects : Assign(d, p)) \/ Remove(d)
    PROVE  IInv'
<1>0. PICK s \in Scopes : MoveTo(d, s)
  BY DEF Assign, Remove, Scopes
<1>1. TypeOK'
  BY <1>0 DEF IInv, TypeOK, MoveTo, searchVars, taskVars
<1>2. ASSUME NEW e \in Docs PROVE DocInv(e)'
  BY <1>0, ScopeAssumption DEF IInv, TypeOK, DocInv, Scopes, Tasks, Busy, MoveTo,
     storeVars, searchVars, taskVars, historyVars
<1>3. ASSUME NEW u \in Tasks PROVE TaskInv(u)'
  BY <1>0, ScopeAssumption DEF IInv, TypeOK, TaskInv, UnbornInv, Live, Dimensions, Scopes, Tasks,
     Busy, None, MoveTo, storeVars, searchVars, taskVars, historyVars
<1>4. UnbornInv' /\ FoundInv'
  BY <1>0, ScopeAssumption DEF IInv, TypeOK, UnbornInv, FoundInv, TaskInv, Live, Scopes, Tasks, Busy,
     MoveTo, storeVars, searchVars, taskVars, historyVars
<1>5. NeverForeign'
  BY <1>0, ScopeAssumption DEF IInv, TypeOK, NeverForeign, FoundInv, DocInv, Scopes, Tasks, Busy,
     MoveTo, storeVars, searchVars, taskVars, historyVars
<1>6. CollectionFits'
  BY <1>0, ScopeAssumption DEF IInv, TypeOK, CollectionFits, UnbornInv, TaskInv, Live, Dimensions,
     Scopes, Tasks, Busy, None, MoveTo, storeVars, searchVars, taskVars, historyVars
<1>7. PointsKept'
  BY <1>0, ScopeAssumption DEF IInv, TypeOK, PointsKept, DocInv, Live, Scopes, Tasks, Busy, Assign,
     Remove, MoveTo, storeVars, searchVars, taskVars, historyVars
<1> QED BY <1>1, <1>2, <1>3, <1>4, <1>5, <1>6, <1>7 DEF IInv

(* An upload enters with the provider of its project.                      *)
LEMMA UploadIInv ==
    ASSUME IInv, NEW d \in Docs, NEW s \in Scopes, Upload(d, s)
    PROVE  IInv'
<1>1. TypeOK'
  BY ScopeAssumption DEF IInv, TypeOK, Scopes, Tasks, Busy, Upload, Enter, Known, Provider,
     Goto, storeVars, searchVars, taskVars, historyVars
<1>2. ASSUME NEW e \in Docs PROVE DocInv(e)'
  BY ScopeAssumption DEF IInv, TypeOK, DocInv, Scopes, Tasks, Busy, Upload, Enter, Known,
     Provider, Goto, storeVars, searchVars, taskVars, historyVars
<1>3. ASSUME NEW u \in Tasks PROVE TaskInv(u)'
  BY ScopeAssumption DEF IInv, TypeOK, TaskInv, UnbornInv, Live, Dimensions, Scopes, Tasks,
     Busy, None, Upload, Enter, Known, Provider, Goto, storeVars, searchVars, taskVars, historyVars
<1>4. UnbornInv' /\ FoundInv'
  BY ScopeAssumption DEF IInv, TypeOK, UnbornInv, FoundInv, TaskInv, Live, Scopes, Tasks, Busy,
     Upload, Enter, Known, Provider, Goto, storeVars, searchVars, taskVars, historyVars
<1>5. NeverForeign'
  BY ScopeAssumption DEF IInv, TypeOK, NeverForeign, FoundInv, DocInv, Scopes, Tasks, Busy,
     Upload, Enter, Known, Provider, Goto, storeVars, searchVars, taskVars, historyVars
<1>6. CollectionFits'
  BY ScopeAssumption DEF IInv, TypeOK, CollectionFits, UnbornInv, TaskInv, Live, Dimensions,
     Scopes, Tasks, Busy, None, Upload, Enter, Known, Provider, Goto, storeVars, searchVars, taskVars,
     historyVars
<1>7. PointsKept'
  BY ScopeAssumption DEF IInv, TypeOK, PointsKept, DocInv, Live, Scopes, Tasks, Busy, Upload,
     Enter, Known, Provider, Goto, storeVars, searchVars, taskVars, historyVars
<1> QED BY <1>1, <1>2, <1>3, <1>4, <1>5, <1>6, <1>7 DEF IInv

(* A search enters with the provider of its project.                       *)
LEMMA SearchIInv ==
    ASSUME IInv, NEW q \in Queries, NEW s \in Scopes, Search(q, s)
    PROVE  IInv'
<1>1. TypeOK'
  BY ScopeAssumption DEF IInv, TypeOK, Scopes, Tasks, Busy, Search, Enter, Known, Provider,
     Goto, storeVars, searchVars, taskVars, historyVars
<1>2. ASSUME NEW e \in Docs PROVE DocInv(e)'
  BY ScopeAssumption DEF IInv, TypeOK, DocInv, Scopes, Tasks, Busy, Search, Enter, Known,
     Provider, Goto, storeVars, searchVars, taskVars, historyVars
<1>3. ASSUME NEW u \in Tasks PROVE TaskInv(u)'
  BY ScopeAssumption DEF IInv, TypeOK, TaskInv, UnbornInv, Live, Dimensions, Scopes, Tasks,
     Busy, None, Search, Enter, Known, Provider, Goto, storeVars, searchVars, taskVars, historyVars
<1>4. UnbornInv' /\ FoundInv'
  BY ScopeAssumption DEF IInv, TypeOK, UnbornInv, FoundInv, TaskInv, Live, Scopes, Tasks, Busy,
     Search, Enter, Known, Provider, Goto, storeVars, searchVars, taskVars, historyVars
<1>5. NeverForeign'
  BY ScopeAssumption DEF IInv, TypeOK, NeverForeign, FoundInv, DocInv, Scopes, Tasks, Busy,
     Search, Enter, Known, Provider, Goto, storeVars, searchVars, taskVars, historyVars
<1>6. CollectionFits'
  BY ScopeAssumption DEF IInv, TypeOK, CollectionFits, UnbornInv, TaskInv, Live, Dimensions,
     Scopes, Tasks, Busy, None, Search, Enter, Known, Provider, Goto, storeVars, searchVars, taskVars,
     historyVars
<1>7. PointsKept'
  BY ScopeAssumption DEF IInv, TypeOK, PointsKept, DocInv, Live, Scopes, Tasks, Busy, Search,
     Enter, Known, Provider, Goto, storeVars, searchVars, taskVars, historyVars
<1> QED BY <1>1, <1>2, <1>3, <1>4, <1>5, <1>6, <1>7 DEF IInv

(* The row is inserted for the project of the upload.                      *)
LEMMA ParsedIInv ==
    ASSUME IInv, NEW d \in Docs, Parsed(d)
    PROVE  IInv'
<1>1. TypeOK'
  BY ScopeAssumption DEF IInv, TypeOK, Scopes, Tasks, Busy, Parsed, Goto, storeVars, searchVars, taskVars,
     historyVars
<1>2. ASSUME NEW e \in Docs PROVE DocInv(e)'
  BY ScopeAssumption DEF IInv, TypeOK, DocInv, Scopes, Tasks, Busy, Parsed, Goto, storeVars, searchVars,
     taskVars, historyVars
<1>3. ASSUME NEW u \in Tasks PROVE TaskInv(u)'
  BY ScopeAssumption DEF IInv, TypeOK, TaskInv, UnbornInv, Live, Dimensions, Scopes, Tasks,
     Busy, None, Parsed, Goto, storeVars, searchVars, taskVars, historyVars
<1>4. UnbornInv' /\ FoundInv'
  BY ScopeAssumption DEF IInv, TypeOK, UnbornInv, FoundInv, TaskInv, Live, Scopes, Tasks, Busy,
     Parsed, Goto, storeVars, searchVars, taskVars, historyVars
<1>5. NeverForeign'
  BY ScopeAssumption DEF IInv, TypeOK, NeverForeign, FoundInv, DocInv, Scopes, Tasks, Busy,
     Parsed, Goto, storeVars, searchVars, taskVars, historyVars
<1>6. CollectionFits'
  BY ScopeAssumption DEF IInv, TypeOK, CollectionFits, UnbornInv, TaskInv, Live, Dimensions,
     Scopes, Tasks, Busy, None, Parsed, Goto, storeVars, searchVars, taskVars, historyVars
<1>7. PointsKept'
  BY ScopeAssumption DEF IInv, TypeOK, PointsKept, DocInv, Live, Scopes, Tasks, Busy, Parsed,
     Goto, storeVars, searchVars, taskVars, historyVars
<1> QED BY <1>1, <1>2, <1>3, <1>4, <1>5, <1>6, <1>7 DEF IInv

(* A collection that is listed as ready exists.                            *)
LEMMA ListIInv ==
    ASSUME IInv, NEW t \in Tasks, List(t)
    PROVE  IInv'
<1>1. TypeOK'
  BY ScopeAssumption DEF IInv, TypeOK, Scopes, Tasks, Busy, List, Goto, storeVars, searchVars, taskVars,
     historyVars
<1>2. ASSUME NEW e \in Docs PROVE DocInv(e)'
  BY ScopeAssumption DEF IInv, TypeOK, DocInv, Scopes, Tasks, Busy, List, Goto, storeVars, searchVars,
     taskVars, historyVars
<1>3. ASSUME NEW u \in Tasks PROVE TaskInv(u)'
  BY ScopeAssumption DEF IInv, TypeOK, TaskInv, UnbornInv, Live, Dimensions, Scopes, Tasks,
     Busy, None, List, Goto, storeVars, searchVars, taskVars, historyVars
<1>4. UnbornInv' /\ FoundInv'
  BY ScopeAssumption DEF IInv, TypeOK, UnbornInv, FoundInv, TaskInv, Live, Scopes, Tasks, Busy,
     List, Goto, storeVars, searchVars, taskVars, historyVars
<1>5. NeverForeign'
  BY ScopeAssumption DEF IInv, TypeOK, NeverForeign, FoundInv, DocInv, Scopes, Tasks, Busy,
     List, Goto, storeVars, searchVars, taskVars, historyVars
<1>6. CollectionFits'
  BY ScopeAssumption DEF IInv, TypeOK, CollectionFits, UnbornInv, TaskInv, Live, Dimensions,
     Scopes, Tasks, Busy, None, List, Goto, storeVars, searchVars, taskVars, historyVars
<1>7. PointsKept'
  BY ScopeAssumption DEF IInv, TypeOK, PointsKept, DocInv, Live, Scopes, Tasks, Busy, List,
     Goto, storeVars, searchVars, taskVars, historyVars
<1> QED BY <1>1, <1>2, <1>3, <1>4, <1>5, <1>6, <1>7 DEF IInv

(* A collection is made with the dimensions of its project.                *)
LEMMA MakeIInv ==
    ASSUME IInv, NEW t \in Tasks, Make(t)
    PROVE  IInv'
<1>1. TypeOK'
  BY ScopeAssumption DEF IInv, TypeOK, Scopes, Tasks, Busy, Make, Goto, storeVars, searchVars, taskVars,
     historyVars
<1>2. ASSUME NEW e \in Docs PROVE DocInv(e)'
  BY ScopeAssumption DEF IInv, TypeOK, DocInv, Scopes, Tasks, Busy, Make, Goto, storeVars, searchVars,
     taskVars, historyVars
<1>3. ASSUME NEW u \in Tasks PROVE TaskInv(u)'
  BY ScopeAssumption DEF IInv, TypeOK, TaskInv, UnbornInv, Live, Dimensions, Scopes, Tasks,
     Busy, None, Make, Goto, storeVars, searchVars, taskVars, historyVars
<1>4. UnbornInv' /\ FoundInv'
  BY ScopeAssumption DEF IInv, TypeOK, UnbornInv, FoundInv, TaskInv, Live, Scopes, Tasks, Busy,
     Make, Goto, storeVars, searchVars, taskVars, historyVars
<1>5. NeverForeign'
  BY ScopeAssumption DEF IInv, TypeOK, NeverForeign, FoundInv, DocInv, Scopes, Tasks, Busy,
     Make, Goto, storeVars, searchVars, taskVars, historyVars
<1>6. CollectionFits'
  BY ScopeAssumption DEF IInv, TypeOK, CollectionFits, UnbornInv, TaskInv, Live, Dimensions,
     Scopes, Tasks, Busy, None, Make, Goto, storeVars, searchVars, taskVars, historyVars
<1>7. PointsKept'
  BY ScopeAssumption DEF IInv, TypeOK, PointsKept, DocInv, Live, Scopes, Tasks, Busy, Make,
     Goto, storeVars, searchVars, taskVars, historyVars
<1> QED BY <1>1, <1>2, <1>3, <1>4, <1>5, <1>6, <1>7 DEF IInv

(* Chunks are inserted under the row.                                      *)
LEMMA EmbeddedIInv ==
    ASSUME IInv, NEW d \in Docs, Embedded(d)
    PROVE  IInv'
<1>1. TypeOK'
  BY ScopeAssumption DEF IInv, TypeOK, Scopes, Tasks, Busy, Embedded, Goto, storeVars, searchVars, taskVars,
     historyVars
<1>2. ASSUME NEW e \in Docs PROVE DocInv(e)'
  BY ScopeAssumption DEF IInv, TypeOK, DocInv, Scopes, Tasks, Busy, Embedded, Goto, storeVars, searchVars,
     taskVars, historyVars
<1>3. ASSUME NEW u \in Tasks PROVE TaskInv(u)'
  BY ScopeAssumption DEF IInv, TypeOK, TaskInv, UnbornInv, Live, Dimensions, Scopes, Tasks,
     Busy, None, Embedded, Goto, storeVars, searchVars, taskVars, historyVars
<1>4. UnbornInv' /\ FoundInv'
  BY ScopeAssumption DEF IInv, TypeOK, UnbornInv, FoundInv, TaskInv, Live, Scopes, Tasks, Busy,
     Embedded, Goto, storeVars, searchVars, taskVars, historyVars
<1>5. NeverForeign'
  BY ScopeAssumption DEF IInv, TypeOK, NeverForeign, FoundInv, DocInv, Scopes, Tasks, Busy,
     Embedded, Goto, storeVars, searchVars, taskVars, historyVars
<1>6. CollectionFits'
  BY ScopeAssumption DEF IInv, TypeOK, CollectionFits, UnbornInv, TaskInv, Live, Dimensions,
     Scopes, Tasks, Busy, None, Embedded, Goto, storeVars, searchVars, taskVars, historyVars
<1>7. PointsKept'
  BY ScopeAssumption DEF IInv, TypeOK, PointsKept, DocInv, Live, Scopes, Tasks, Busy, Embedded,
     Goto, storeVars, searchVars, taskVars, historyVars
<1> QED BY <1>1, <1>2, <1>3, <1>4, <1>5, <1>6, <1>7 DEF IInv

(* Vectors are stored where the upload belongs.                            *)
LEMMA UpsertedIInv ==
    ASSUME IInv, NEW d \in Docs, Upserted(d)
    PROVE  IInv'
<1>1. TypeOK'
  BY ScopeAssumption DEF IInv, TypeOK, Scopes, Tasks, Busy, Upserted, Fits, Goto, storeVars, searchVars,
     taskVars, historyVars
<1>2. ASSUME NEW e \in Docs PROVE DocInv(e)'
  BY ScopeAssumption DEF IInv, TypeOK, DocInv, Scopes, Tasks, Busy, Upserted, Fits, Goto,
     storeVars, searchVars, taskVars, historyVars
<1>3. ASSUME NEW u \in Tasks PROVE TaskInv(u)'
  BY ScopeAssumption DEF IInv, TypeOK, TaskInv, UnbornInv, Live, Dimensions, Scopes, Tasks,
     Busy, None, Upserted, Fits, Goto, storeVars, searchVars, taskVars, historyVars
<1>4. UnbornInv' /\ FoundInv'
  BY ScopeAssumption DEF IInv, TypeOK, UnbornInv, FoundInv, TaskInv, Live, Scopes, Tasks, Busy,
     Upserted, Fits, Goto, storeVars, searchVars, taskVars, historyVars
<1>5. NeverForeign'
  BY ScopeAssumption DEF IInv, TypeOK, NeverForeign, FoundInv, DocInv, Scopes, Tasks, Busy,
     Upserted, Fits, Goto, storeVars, searchVars, taskVars, historyVars
<1>6. CollectionFits'
  BY ScopeAssumption DEF IInv, TypeOK, CollectionFits, UnbornInv, TaskInv, Live, Dimensions,
     Scopes, Tasks, Busy, None, Upserted, Fits, Goto, storeVars, searchVars, taskVars, historyVars
<1>7. PointsKept'
  BY ScopeAssumption DEF IInv, TypeOK, PointsKept, DocInv, Live, Scopes, Tasks, Busy, Upserted,
     Fits, Goto, storeVars, searchVars, taskVars, historyVars
<1> QED BY <1>1, <1>2, <1>3, <1>4, <1>5, <1>6, <1>7 DEF IInv

(* What is noted as ensured exists.                                        *)
LEMMA EnsuredIInv ==
    ASSUME IInv, NEW q \in Queries, Ensured(q)
    PROVE  IInv'
<1>1. TypeOK'
  BY ScopeAssumption DEF IInv, TypeOK, Scopes, Tasks, Busy, Ensured, Goto, storeVars, searchVars, taskVars,
     historyVars
<1>2. ASSUME NEW e \in Docs PROVE DocInv(e)'
  BY ScopeAssumption DEF IInv, TypeOK, DocInv, Scopes, Tasks, Busy, Ensured, Goto, storeVars, searchVars,
     taskVars, historyVars
<1>3. ASSUME NEW u \in Tasks PROVE TaskInv(u)'
  BY ScopeAssumption DEF IInv, TypeOK, TaskInv, UnbornInv, Live, Dimensions, Scopes, Tasks,
     Busy, None, Ensured, Goto, storeVars, searchVars, taskVars, historyVars
<1>4. UnbornInv' /\ FoundInv'
  BY ScopeAssumption DEF IInv, TypeOK, UnbornInv, FoundInv, TaskInv, Live, Scopes, Tasks, Busy,
     Ensured, Goto, storeVars, searchVars, taskVars, historyVars
<1>5. NeverForeign'
  BY ScopeAssumption DEF IInv, TypeOK, NeverForeign, FoundInv, DocInv, Scopes, Tasks, Busy,
     Ensured, Goto, storeVars, searchVars, taskVars, historyVars
<1>6. CollectionFits'
  BY ScopeAssumption DEF IInv, TypeOK, CollectionFits, UnbornInv, TaskInv, Live, Dimensions,
     Scopes, Tasks, Busy, None, Ensured, Goto, storeVars, searchVars, taskVars, historyVars
<1>7. PointsKept'
  BY ScopeAssumption DEF IInv, TypeOK, PointsKept, DocInv, Live, Scopes, Tasks, Busy, Ensured,
     Goto, storeVars, searchVars, taskVars, historyVars
<1> QED BY <1>1, <1>2, <1>3, <1>4, <1>5, <1>6, <1>7 DEF IInv

(* What the cache gives is the answer of a search that has ended.          *)
LEMMA HitIInv ==
    ASSUME IInv, NEW q \in Queries, Hit(q)
    PROVE  IInv'
<1>0. PICK r \in cached : found' = [found EXCEPT ![q] = found[r]] /\ origin' = [origin EXCEPT ![q] = r]
  BY DEF Hit
<1>a. /\ UNCHANGED <<life, model, storeVars, scope, dims, pending, cached, deleter, historyVars>>
      /\ at[q] = "lookup" /\ at' = [at EXCEPT ![q] = "done"]
  BY DEF Hit, Goto
<1>b. /\ r \in Queries /\ r # q /\ at[r] = "done" /\ origin[r] = r /\ q \notin cached
      /\ \A u \in Queries : origin[u] = q => u = q
  BY <1>a DEF IInv, TypeOK, FoundInv
<1>1. TypeOK'
  BY <1>0, <1>a, <1>b DEF IInv, TypeOK, Tasks, storeVars, historyVars
<1>2. ASSUME NEW e \in Docs PROVE DocInv(e)'
  <2>1. UNCHANGED <<project, scope, points, deleter, historyVars>> /\ at'[e] = at[e]
    BY <1>a, ScopeAssumption DEF IInv, TypeOK, Tasks, storeVars
  <2>2. ASSUME at[e] = "idle", NEW u \in Queries PROVE e \notin found'[u]
    BY <1>0, <1>b, <2>2 DEF IInv, TypeOK, DocInv
  <2> QED BY <2>1, <2>2 DEF IInv, DocInv, historyVars
<1>3. ASSUME NEW u \in Tasks PROVE TaskInv(u)'
  BY <1>a DEF IInv, TypeOK, TaskInv, Live, Dimensions, Tasks, storeVars
<1>4. UnbornInv' /\ FoundInv'
  BY <1>0, <1>a, <1>b DEF IInv, TypeOK, UnbornInv, FoundInv, Tasks, storeVars
<1>5. NeverForeign'
  <2> SUFFICES ASSUME NEW u \in Queries
               PROVE  /\ found'[u] = found'[origin'[u]]
                      /\ scope[origin'[u]] # Shared =>
                             \A d \in found'[u] : scope[origin'[u]] \in been[d]
    BY <1>a DEF NeverForeign, historyVars
  <2>1. found'[r] = found[r] /\ found'[q] = found[r] /\ origin'[q] = r
    BY <1>0, <1>b DEF IInv, TypeOK
  <2>2. CASE u = q
    BY <1>b, <2>1, <2>2 DEF IInv, NeverForeign
  <2>3. CASE u # q
    <3>1. origin'[u] = origin[u] /\ origin[u] \in Queries /\ origin[u] # q /\ found'[u] = found[u]
      BY <1>0, <1>b, <2>3 DEF IInv, TypeOK
    <3>2. found'[origin[u]] = found[origin[u]]
      BY <1>0, <3>1 DEF IInv, TypeOK
    <3> QED BY <3>1, <3>2 DEF IInv, NeverForeign
  <2> QED BY <2>2, <2>3
<1>6. CollectionFits'
  BY <1>a DEF IInv, CollectionFits, Live, Dimensions, storeVars
<1>7. PointsKept'
  BY <1>a, ScopeAssumption DEF IInv, TypeOK, PointsKept, Live, Tasks, storeVars, historyVars
<1> QED BY <1>1, <1>2, <1>3, <1>4, <1>5, <1>6, <1>7 DEF IInv

(* A search the cache cannot answer starts its halves.                     *)
LEMMA MissIInv ==
    ASSUME IInv, NEW q \in Queries, Miss(q)
    PROVE  IInv'
<1>a. /\ UNCHANGED <<life, model, storeVars, scope, dims, found, cached, origin, deleter, historyVars>>
      /\ at[q] = "lookup" /\ at' = [at EXCEPT ![q] = "search"]
      /\ pending' = [pending EXCEPT ![q] = {"vector", "text"}]
  BY DEF Miss, Goto
<1>1. TypeOK'
  BY <1>a DEF IInv, TypeOK, Tasks, Busy, storeVars, historyVars
<1>2. ASSUME NEW e \in Docs PROVE DocInv(e)'
  <2>1. UNCHANGED <<project, scope, points, found, deleter, historyVars>> /\ at'[e] = at[e]
    BY <1>a, ScopeAssumption DEF IInv, TypeOK, Tasks, storeVars
  <2> QED BY <2>1 DEF IInv, DocInv, historyVars
<1>3. ASSUME NEW u \in Tasks PROVE TaskInv(u)'
  BY <1>a DEF IInv, TypeOK, TaskInv, Live, Dimensions, Tasks, storeVars
<1>4. UnbornInv' /\ FoundInv'
  BY <1>a DEF IInv, TypeOK, UnbornInv, FoundInv, Tasks, storeVars
<1>5. NeverForeign'
  BY <1>a DEF IInv, NeverForeign, historyVars
<1>6. CollectionFits'
  BY <1>a DEF IInv, CollectionFits, Live, Dimensions, storeVars
<1>7. PointsKept'
  BY <1>a, ScopeAssumption DEF IInv, TypeOK, PointsKept, Live, Tasks, storeVars, historyVars
<1> QED BY <1>1, <1>2, <1>3, <1>4, <1>5, <1>6, <1>7 DEF IInv

(* Both halves of a search find what was in its project.                   *)
LEMMA HalvesIInv ==
    ASSUME IInv, NEW q \in Queries, VectorHalf(q) \/ TextHalf(q)
    PROVE  IInv'
<1>0. PICK half \in {"vector", "text"}, docs \in SUBSET Docs :
         /\ Took(q, half, docs)
         /\ docs \subseteq points[scope[q]] \/ docs = TextHits(scope[q])
  <2>1. CASE VectorHalf(q)
    <3> DEFINE hits == IF Fits(q) THEN points[scope[q]] ELSE {}
    <3>1. hits \in SUBSET Docs /\ hits \subseteq points[scope[q]]
      BY DEF IInv, TypeOK, Tasks
    <3>2. Took(q, "vector", hits)
      BY <2>1 DEF VectorHalf
    <3> HIDE DEF hits
    <3> QED BY <3>1, <3>2
  <2>2. CASE TextHalf(q)
    <3>1. TextHits(scope[q]) \in SUBSET Docs
      BY DEF IInv, TypeOK, TextHits
    <3> QED BY <2>2, <3>1 DEF TextHalf
  <2> QED BY <2>1, <2>2
<1>a. /\ UNCHANGED <<life, model, storeVars, scope, dims, cached, origin, deleter, historyVars>>
      /\ at' \in {at, [at EXCEPT ![q] = "failed"]}
  BY DEF VectorHalf, TextHalf, taskVars
<1>1. TypeOK'
  BY <1>0, <1>a DEF IInv, TypeOK, Took, Tasks, storeVars, historyVars
<1>b. /\ at[q] = "search" /\ origin[q] = q
      /\ \A r \in Queries : r # q => found'[r] = found[r] /\ at'[r] = at[r]
      /\ \A e \in Docs : at'[e] = at[e]
      /\ \A r \in Queries : origin[r] = q => r = q
  BY <1>0, <1>a, ScopeAssumption DEF IInv, TypeOK, FoundInv, Took, Tasks
<1>2. ASSUME NEW e \in Docs PROVE DocInv(e)'
  <2>1. UNCHANGED <<project, scope, points, deleter, historyVars>> /\ at'[e] = at[e]
    BY <1>a, <1>b DEF storeVars
  <2>2. ASSUME at[e] = "idle", NEW r \in Queries PROVE e \notin found'[r]
    <3>1. e \notin found[r] /\ project[e] = Absent /\ e \notin points[scope[q]]
      BY <2>2 DEF IInv, TypeOK, DocInv, Tasks
    <3> QED BY <1>0, <3>1 DEF IInv, TypeOK, Took, TextHits
  <2> QED BY <2>1, <2>2 DEF IInv, DocInv, historyVars
<1>3. ASSUME NEW u \in Tasks PROVE TaskInv(u)'
  BY ScopeAssumption DEF IInv, TypeOK, TaskInv, UnbornInv, Live, Dimensions, Scopes, Tasks,
     Busy, None, VectorHalf, TextHalf, Took, TextHits, Fits, Goto, storeVars, searchVars, taskVars,
     historyVars
<1>4. UnbornInv' /\ FoundInv'
  BY <1>0, <1>a, <1>b DEF IInv, TypeOK, UnbornInv, FoundInv, Took, Tasks, storeVars
<1>5. NeverForeign'
  <2> SUFFICES ASSUME NEW r \in Queries
               PROVE  /\ found'[r] = found'[origin[r]]
                      /\ scope[origin[r]] # Shared =>
                             \A d \in found'[r] : scope[origin[r]] \in been[d]
    BY <1>a DEF NeverForeign, historyVars
  <2>1. CASE r # q
    <3>1. origin[r] \in Queries /\ origin[r] # q
      BY <1>b, <2>1 DEF IInv, TypeOK
    <3> QED BY <1>b, <2>1, <3>1 DEF IInv, NeverForeign
  <2>2. CASE r = q
    <3>1. found'[q] \subseteq found[q] \cup points[scope[q]] \cup TextHits(scope[q])
      BY <1>0 DEF IInv, TypeOK, Took
    <3>2. ASSUME NEW d \in found'[q], scope[q] # Shared PROVE scope[q] \in been[d]
      <4>1. d \in Docs /\ scope[q] \in Scopes
        BY <1>1 DEF IInv, TypeOK, Tasks
      <4>2. CASE d \in found[q]
        BY <1>b, <3>2, <4>2 DEF IInv, NeverForeign
      <4>3. CASE d \in points[scope[q]]
        BY <4>1, <4>3 DEF IInv, DocInv
      <4>4. CASE d \in TextHits(scope[q])
        BY <3>2, <4>1, <4>4 DEF IInv, DocInv, TextHits
      <4> QED BY <3>1, <4>2, <4>3, <4>4
    <3> QED BY <1>b, <2>2, <3>2
  <2> QED BY <2>1, <2>2
<1>6. CollectionFits'
  BY ScopeAssumption DEF IInv, TypeOK, CollectionFits, UnbornInv, TaskInv, Live, Dimensions,
     Scopes, Tasks, Busy, None, VectorHalf, TextHalf, Took, TextHits, Fits, Goto, storeVars, searchVars,
     taskVars, historyVars
<1>7. PointsKept'
  BY ScopeAssumption DEF IInv, TypeOK, PointsKept, DocInv, Live, Scopes, Tasks, Busy,
     VectorHalf, TextHalf, Took, TextHits, Fits, Goto, storeVars, searchVars, taskVars, historyVars
<1> QED BY <1>1, <1>2, <1>3, <1>4, <1>5, <1>6, <1>7 DEF IInv

(* A task that ends changes nothing else.                                  *)
LEMMA EndsIInv ==
    ASSUME IInv, NEW t \in Tasks, Fail(t) \/ (t \in Queries /\ Answered(t))
    PROVE  IInv'
<1>1. TypeOK'
  BY ScopeAssumption DEF IInv, TypeOK, Scopes, Tasks, Busy, Fail, Answered, Goto, storeVars, searchVars,
     taskVars, historyVars
<1>2. ASSUME NEW e \in Docs PROVE DocInv(e)'
  BY ScopeAssumption DEF IInv, TypeOK, DocInv, Scopes, Tasks, Busy, Fail, Answered, Goto,
     storeVars, searchVars, taskVars, historyVars
<1>3. ASSUME NEW u \in Tasks PROVE TaskInv(u)'
  BY ScopeAssumption DEF IInv, TypeOK, TaskInv, UnbornInv, Live, Dimensions, Scopes, Tasks,
     Busy, None, Fail, Answered, Goto, storeVars, searchVars, taskVars, historyVars
<1>4. UnbornInv' /\ FoundInv'
  BY ScopeAssumption DEF IInv, TypeOK, UnbornInv, FoundInv, TaskInv, Live, Scopes, Tasks, Busy,
     Fail, Answered, Goto, storeVars, searchVars, taskVars, historyVars
<1>5. NeverForeign'
  BY ScopeAssumption DEF IInv, TypeOK, NeverForeign, FoundInv, DocInv, Scopes, Tasks, Busy,
     Fail, Answered, Goto, storeVars, searchVars, taskVars, historyVars
<1>6. CollectionFits'
  BY ScopeAssumption DEF IInv, TypeOK, CollectionFits, UnbornInv, TaskInv, Live, Dimensions,
     Scopes, Tasks, Busy, None, Fail, Answered, Goto, storeVars, searchVars, taskVars, historyVars
<1>7. PointsKept'
  BY ScopeAssumption DEF IInv, TypeOK, PointsKept, DocInv, Live, Scopes, Tasks, Busy, Fail,
     Answered, Goto, storeVars, searchVars, taskVars, historyVars
<1> QED BY <1>1, <1>2, <1>3, <1>4, <1>5, <1>6, <1>7 DEF IInv

(* A delete that comes while the upload runs overlaps it.                  *)
LEMMA AskIInv ==
    ASSUME IInv, NEW d \in Docs, Ask(d)
    PROVE  IInv'
<1>1. TypeOK'
  BY ScopeAssumption DEF IInv, TypeOK, Scopes, Tasks, Busy, Ask, storeVars, searchVars, taskVars,
     historyVars
<1>2. ASSUME NEW e \in Docs PROVE DocInv(e)'
  BY ScopeAssumption DEF IInv, TypeOK, DocInv, Scopes, Tasks, Busy, Ask, storeVars, searchVars, taskVars,
     historyVars
<1>3. ASSUME NEW u \in Tasks PROVE TaskInv(u)'
  BY ScopeAssumption DEF IInv, TypeOK, TaskInv, UnbornInv, Live, Dimensions, Scopes, Tasks,
     Busy, None, Ask, storeVars, searchVars, taskVars, historyVars
<1>4. UnbornInv' /\ FoundInv'
  BY ScopeAssumption DEF IInv, TypeOK, UnbornInv, FoundInv, TaskInv, Live, Scopes, Tasks, Busy,
     Ask, storeVars, searchVars, taskVars, historyVars
<1>5. NeverForeign'
  BY ScopeAssumption DEF IInv, TypeOK, NeverForeign, FoundInv, DocInv, Scopes, Tasks, Busy, Ask,
     storeVars, searchVars, taskVars, historyVars
<1>6. CollectionFits'
  BY ScopeAssumption DEF IInv, TypeOK, CollectionFits, UnbornInv, TaskInv, Live, Dimensions,
     Scopes, Tasks, Busy, None, Ask, storeVars, searchVars, taskVars, historyVars
<1>7. PointsKept'
  BY ScopeAssumption DEF IInv, TypeOK, PointsKept, DocInv, Live, Scopes, Tasks, Busy, Ask,
     storeVars, searchVars, taskVars, historyVars
<1> QED BY <1>1, <1>2, <1>3, <1>4, <1>5, <1>6, <1>7 DEF IInv

(* The steps of a delete take the vectors, then the rows.                  *)
LEMMA EraseIInv ==
    ASSUME IInv, NEW d \in Docs, Erase(d)
    PROVE  IInv'
<1>0. deleter[d].from \in Scopes
  BY DEF IInv, TypeOK
<1>1. TypeOK'
  <2>1. CASE DeleteVectors(d)
    <3>1. points' \in [Scopes -> SUBSET Docs]
      BY <1>0, <2>1 DEF IInv, TypeOK, DeleteVectors
    <3>2. deleter' \in [Docs -> [at : {"idle", "vectors", "rows", "failed"}, from : Scopes]]
      BY <2>1 DEF IInv, TypeOK, DeleteVectors
    <3> QED BY <2>1, <3>1, <3>2 DEF IInv, TypeOK, DeleteVectors, searchVars, taskVars, historyVars
  <2>2. CASE DeleteRows(d)
    BY <2>2 DEF IInv, TypeOK, DeleteRows, searchVars, taskVars, historyVars
  <2> QED BY <2>1, <2>2 DEF Erase
<1>2. ASSUME NEW e \in Docs PROVE DocInv(e)'
  <2>1. CASE e # d
    <3>1. UNCHANGED <<project[e], deleter[e], at, scope, found, historyVars>>
      BY <2>1 DEF IInv, TypeOK, Erase, DeleteVectors, DeleteRows, searchVars, taskVars
    <3>2. \A s \in Scopes : e \in points'[s] => e \in points[s]
      BY <1>0 DEF IInv, TypeOK, Erase, DeleteVectors, DeleteRows
    <3> QED BY <3>1, <3>2 DEF IInv, DocInv, historyVars
  <2>2. CASE e = d /\ DeleteVectors(d)
    <3>1. UNCHANGED <<project, at, scope, found, historyVars>> /\ deleter[d].at = "vectors"
      BY <2>2 DEF DeleteVectors, searchVars, taskVars
    <3>2. deleter'[d].at \in {"failed", "rows"} /\ deleter'[d].from = deleter[d].from
      BY <2>2 DEF IInv, TypeOK, DeleteVectors
    <3>3. /\ \A s \in Scopes : points'[s] \subseteq points[s]
          /\ d \notin points'[deleter[d].from]
      BY <1>0, <2>2 DEF IInv, TypeOK, DeleteVectors
    <3> QED BY <2>2, <3>1, <3>2, <3>3 DEF IInv, DocInv, historyVars
  <2>3. CASE e = d /\ DeleteRows(d)
    <3>1. UNCHANGED <<points, at, scope, found, historyVars>> /\ deleter[d].at = "rows"
      BY <2>3 DEF DeleteRows, searchVars, taskVars
    <3>2. deleter'[d].at = "idle" /\ project'[d] = Absent
      BY <2>3 DEF IInv, TypeOK, DeleteRows
    <3> QED BY <2>3, <3>1, <3>2 DEF IInv, DocInv, historyVars
  <2> QED BY <2>1, <2>2, <2>3 DEF Erase
<1>3. ASSUME NEW u \in Tasks PROVE TaskInv(u)'
  BY ScopeAssumption DEF IInv, TypeOK, TaskInv, UnbornInv, Live, Dimensions, Scopes, Tasks,
     Busy, None, Erase, DeleteVectors, DeleteRows, storeVars, searchVars, taskVars, historyVars
<1>4. UnbornInv' /\ FoundInv'
  BY ScopeAssumption DEF IInv, TypeOK, UnbornInv, FoundInv, TaskInv, Live, Scopes, Tasks, Busy,
     Erase, DeleteVectors, DeleteRows, storeVars, searchVars, taskVars, historyVars
<1>5. NeverForeign'
  BY ScopeAssumption DEF IInv, TypeOK, NeverForeign, FoundInv, DocInv, Scopes, Tasks, Busy,
     Erase, DeleteVectors, DeleteRows, storeVars, searchVars, taskVars, historyVars
<1>6. CollectionFits'
  BY ScopeAssumption DEF IInv, TypeOK, CollectionFits, UnbornInv, TaskInv, Live, Dimensions,
     Scopes, Tasks, Busy, None, Erase, DeleteVectors, DeleteRows, storeVars, searchVars, taskVars,
     historyVars
<1>7. PointsKept'
  <2> SUFFICES ASSUME NEW e \in Docs,
                      (at[e] = "done" /\ Live(scope[e]) /\ project[e] # Absent /\ deleter[e].at = "idle")'
               PROVE  (e \in points[scope[e]] \/ e \in overlapped)'
    BY DEF PointsKept
  <2>1. e # d /\ UNCHANGED <<project[e], deleter[e], at, scope, life, overlapped>>
    BY DEF IInv, TypeOK, Erase, DeleteVectors, DeleteRows, searchVars, taskVars, historyVars
  <2>2. \A s \in Scopes : e \in points[s] => e \in points'[s]
    BY <1>0, <2>1 DEF IInv, TypeOK, Erase, DeleteVectors, DeleteRows
  <2>3. scope[e] \in Scopes
    BY DEF IInv, TypeOK, Tasks
  <2> QED BY <2>1, <2>2, <2>3 DEF IInv, PointsKept, Live
<1> QED BY <1>1, <1>2, <1>3, <1>4, <1>5, <1>6, <1>7 DEF IInv

(* Stuttering preserves the invariant.                                     *)
LEMMA IdleIInv == IInv /\ UNCHANGED vars => IInv'
  BY DEF IInv, TypeOK, DocInv, TaskInv, UnbornInv, FoundInv, NeverForeign, CollectionFits, PointsKept,
     Live, Dimensions, vars, storeVars, searchVars, taskVars, historyVars

(* Every step preserves the invariant.                                     *)
LEMMA NextIInv == IInv /\ [Next]_vars => IInv'
<1> SUFFICES ASSUME IInv, [Next]_vars PROVE IInv'
  OBVIOUS
<1>1. ASSUME NEW p \in Projects,
             Drop(p) \/ (\E m \in Models : Create(p, m)) \/ (\E d \in Docs : Assign(d, p))
      PROVE  IInv'
  BY <1>1, DropIInv, CreateIInv, MoveIInv
<1>2. ASSUME NEW d \in Docs, (\E s \in Scopes : Upload(d, s)) \/ Job(d) PROVE IInv'
  BY <1>2, UploadIInv, ParsedIInv, ListIInv, MakeIInv, EmbeddedIInv, UpsertedIInv DEF Job, Tasks
<1>3. ASSUME NEW d \in Docs, Remove(d) \/ Ask(d) \/ Erase(d) PROVE IInv'
  BY <1>3, MoveIInv, AskIInv, EraseIInv
<1>4. ASSUME NEW q \in Queries, (\E s \in Scopes : Search(q, s)) \/ Look(q) PROVE IInv'
  BY <1>4, SearchIInv, ListIInv, MakeIInv, EnsuredIInv, HitIInv, MissIInv, HalvesIInv, EndsIInv
     DEF Look, Tasks
<1>5. ASSUME NEW t \in Tasks, Fail(t) PROVE IInv'
  BY <1>5, EndsIInv
<1> QED BY <1>1, <1>2, <1>3, <1>4, <1>5, IdleIInv DEF Next

(* IInv is an invariant of every history of projects, uploads, searches    *)
(* and deletes.                                                            *)
THEOREM ScopeInvariant == Spec => []IInv
  BY InitIInv, NextIInv, PTL DEF Spec

(* A search of a project retrieves only documents that were uploaded or    *)
(* assigned to it at some time; the cache may answer it with what another  *)
(* search retrieved so, whole and unchanged.                               *)
THEOREM ScopeNeverForeign == Spec => []NeverForeign
<1>1. IInv => NeverForeign
  BY DEF IInv
<1> QED BY <1>1, ScopeInvariant, PTL

(* Vectors without a row belong to documents that moved, or that were      *)
(* deleted while their upload ran.                                         *)
THEOREM ScopeNoGhost == Spec => []NoGhost
<1>1. IInv => NoGhost
  BY DEF IInv, TypeOK, DocInv, NoGhost
<1> QED BY <1>1, ScopeInvariant, PTL

(* The collection of a live project has the dimensions of its model, and   *)
(* what the manager noted as ensured exists, whoever creates it first.     *)
THEOREM ScopeCollectionFits == Spec => []CollectionFits
<1>1. IInv => CollectionFits
  BY DEF IInv
<1> QED BY <1>1, ScopeInvariant, PTL

(* A finished upload keeps its vectors until its document is deleted.      *)
THEOREM ScopePointsKept == Spec => []PointsKept
<1>1. IInv => PointsKept
  BY DEF IInv
<1> QED BY <1>1, ScopeInvariant, PTL
=============================================================================
