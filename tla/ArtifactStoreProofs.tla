------------------------ MODULE ArtifactStoreProofs -------------------------
(***************************************************************************)
(* What ArtifactStore guarantees for any writers, labels and contents, and *)
(* any number of names other services write to.                            *)
(***************************************************************************)
EXTENDS ArtifactStore, TLAPS

\* A writer past the label check asks for the name of the bytes it holds.
NamesFit ==
    \A w \in Writers :
        writer[w].pc \in {"head", "put", "saved"} =>
            writer[w].name.digest = writer[w].data

\* What the service put under a name is what the name says.
ObjectsFit ==
    \A n \in Names \ touched :
        objects[n] # None =>
            /\ objects[n].data = n.digest
            /\ objects[n].digest = n.digest
            /\ objects[n].label = n.label

\* A name that has been answered stays taken.
SavedExist ==
    \A w \in Writers :
        writer[w].pc = "saved" /\ writer[w].name \notin touched => Found(w) # None

\* A reference that carries a creation time carries the one of the object, as
\* long as the object was put once.
TimesFit ==
    \A w \in Writers :
        /\ writer[w].pc = "saved"
        /\ writer[w].name \notin touched \cup crossed
        /\ writer[w].created \in Stamps
        => writer[w].created = Found(w).stamp

StoreInv == StoreTypeOK /\ NamesFit /\ ObjectsFit /\ SavedExist /\ TimesFit

\* The store starts empty and its writers idle.
LEMMA StoreInitInv == StoreInit => StoreInv
  BY DEF StoreInit, StoreInv, StoreTypeOK, NamesFit, ObjectsFit, SavedExist,
         TimesFit, Found, Idle, Writer

\* The parts of a request that is in progress are of its types.
LEMMA WriterTyped ==
    ASSUME StoreTypeOK, NEW w \in Writers, writer[w].pc \in {"head", "put", "saved"}
    PROVE  /\ writer[w].name \in Names
           /\ writer[w].name.label \in Labels /\ writer[w].name.digest \in Bytes
           /\ writer[w].data \in Bytes
           /\ writer[w].stamp \in Stamps \cup {None}
           /\ writer[w].created \in Times
  BY DEF StoreTypeOK, Writer, Names

\* What a writer puts is an object of the bucket.
LEMMA WriteTyped ==
    ASSUME StoreTypeOK, NEW w \in Writers, writer[w].pc = "put", WriteObject(w)
    PROVE  /\ objects' \in [Names -> Objects \cup {None}]
           /\ crossed' \subseteq Names
<1> DEFINE o == [data |-> writer[w].data, digest |-> writer[w].data,
                 label |-> writer[w].name.label, stamp |-> writer[w].stamp]
<1>1. o \in Objects
  BY WriterTyped DEF Objects
<1> QED
  BY <1>1, WriterTyped DEF WriteObject, StoreTypeOK

\* A writer that moves on stays within Writer.
LEMMA MoveTyped ==
    ASSUME StoreTypeOK, NEW w \in Writers,
           writer[w].pc \in {"head", "put"},
           \/ \E pc \in {"put", "raised"} : Goto(w, pc)
           \/ \E t \in Times : Return(w, t)
    PROVE  writer' \in [Writers -> Writer]
<1>1. writer[w] \in [pc : {"head", "put", "raised", "saved"}, name : Names,
                     data : Bytes, stamp : Stamps \cup {None}, created : Times]
  BY DEF StoreTypeOK, Writer
<1>2. CASE \E pc \in {"put", "raised"} : Goto(w, pc)
  BY <1>1, <1>2 DEF Goto, StoreTypeOK, Writer
<1>3. CASE \E t \in Times : Return(w, t)
  <2>1. PICK t \in Times : Return(w, t)
    BY <1>3
  <2>2. [writer[w] EXCEPT !.pc = "saved", !.created = t] \in Writer
    BY <1>1 DEF Writer
  <2> QED
    BY <2>1, <2>2 DEF Return, StoreTypeOK
<1> QED
  BY <1>2, <1>3

\* Every step keeps the types.
LEMMA StoreTypeStep == StoreInv /\ StoreNext => StoreTypeOK'
<1> SUFFICES ASSUME StoreTypeOK, StoreNext PROVE StoreTypeOK'
  BY DEF StoreInv
<1>1. ASSUME NEW w \in Writers, Begin(w) PROVE StoreTypeOK'
  <2>1. PICK l \in Written, d \in Bytes, s \in Stamps \cup {None} :
          writer' = [writer EXCEPT ![w] =
              IF Clean[l] = None THEN [Idle EXCEPT !.pc = "raised"]
              ELSE Asked(Clean[l], d, s)]
    BY <1>1 DEF Begin
  <2>2. Clean[l] \in Labels \cup {None}
    BY StoreAssumption
  <2>3. CASE Clean[l] = None
    <3>1. [Idle EXCEPT !.pc = "raised"] \in Writer
      BY DEF Idle, Writer
    <3> QED
      BY <1>1, <2>1, <2>3, <3>1 DEF Begin, StoreTypeOK
  <2>4. CASE Clean[l] # None
    <3>1. NameOf(Clean[l], d) \in Names /\ None \in Times
      BY <2>2, <2>4 DEF NameOf, Names, Times
    <3>2. Asked(Clean[l], d, s) \in Writer
      BY <3>1 DEF Asked, Writer
    <3> QED
      BY <1>1, <2>1, <2>4, <3>2 DEF Begin, StoreTypeOK
  <2> QED
    BY <2>3, <2>4
<1>2. ASSUME NEW w \in Writers,
             HeadMissing(w) \/ HeadMismatch(w) \/ HeadRaises(w)
      PROVE  StoreTypeOK'
  <2>1. writer' \in [Writers -> Writer]
    BY <1>2, MoveTyped DEF HeadMissing, HeadMismatch, HeadRaises, Asking
  <2> QED
    BY <1>2, <2>1 DEF HeadMissing, HeadMismatch, HeadRaises, Asking, StoreTypeOK
<1>3. ASSUME NEW w \in Writers, HeadExisting(w) PROVE StoreTypeOK'
  <2>1. Found(w) \in Objects
    BY <1>3, WriterTyped DEF HeadExisting, Asking, Found, StoreTypeOK
  <2>2. (IF Found(w).stamp = None THEN "modified" ELSE Found(w).stamp) \in Times
    BY <2>1 DEF Objects, Times
  <2>3. writer' \in [Writers -> Writer]
    BY <1>3, <2>2, MoveTyped DEF HeadExisting, Asking
  <2> QED
    BY <1>3, <2>3 DEF HeadExisting, Asking, StoreTypeOK
<1>4. ASSUME NEW w \in Writers, Put(w) PROVE StoreTypeOK'
  <2>1. (IF writer[w].stamp = None THEN "now" ELSE writer[w].stamp) \in Times
    BY <1>4, WriterTyped DEF Put, Times
  <2>2. writer' \in [Writers -> Writer]
    BY <1>4, <2>1, MoveTyped DEF Put
  <2> QED
    BY <1>4, <2>2, WriteTyped DEF Put, StoreTypeOK
<1>5. ASSUME NEW w \in Writers, PutRaises(w) PROVE StoreTypeOK'
  <2>1. writer' \in [Writers -> Writer]
    BY <1>5, MoveTyped DEF PutRaises
  <2> QED
    BY <1>5, <2>1, WriteTyped DEF PutRaises, StoreTypeOK
<1>6. ASSUME NEW n \in Names, ForeignWrite(n) PROVE StoreTypeOK'
  BY <1>6 DEF ForeignWrite, StoreTypeOK
<1> QED
  BY <1>1, <1>2, <1>3, <1>4, <1>5, <1>6 DEF StoreNext, Save

-----------------------------------------------------------------------------
(* The rest of the invariant.                                              *)

\* Of a step a saved writer keeps its request, and the others change only
\* themselves.
LEMMA OthersKeep ==
    ASSUME StoreTypeOK, NEW w \in Writers, Save(w)
    PROVE  \A v \in Writers \ {w} : writer'[v] = writer[v]
  BY DEF Save, Begin, HeadMissing, HeadExisting, HeadMismatch, HeadRaises, Put,
         PutRaises, Goto, Return, StoreTypeOK

\* A request keeps its name and bytes while it moves.
LEMMA RequestKept ==
    ASSUME StoreTypeOK, NEW w \in Writers, Save(w),
           writer'[w].pc \in {"head", "put", "saved"}
    PROVE  \/ /\ writer[w].pc = "idle"
              /\ writer'[w].pc = "head"
              /\ writer'[w].name.digest = writer'[w].data
           \/ /\ writer[w].pc \in {"head", "put"}
              /\ writer'[w].name = writer[w].name
              /\ writer'[w].data = writer[w].data
<1>1. CASE Begin(w)
  <2>1. PICK l \in Written, d \in Bytes, s \in Stamps \cup {None} :
          writer' = [writer EXCEPT ![w] =
              IF Clean[l] = None THEN [Idle EXCEPT !.pc = "raised"]
              ELSE Asked(Clean[l], d, s)]
    BY <1>1 DEF Begin
  <2>2. Clean[l] # None /\ writer'[w] = Asked(Clean[l], d, s)
    BY <2>1 DEF Idle, StoreTypeOK
  <2>3. writer'[w].pc = "head" /\ writer'[w].name.digest = writer'[w].data
    BY <2>2 DEF Asked, NameOf
  <2> QED
    BY <1>1, <2>3 DEF Begin
<1>2. ASSUME NEW pc \in {"put", "raised"}, Goto(w, pc)
      PROVE  writer'[w].name = writer[w].name /\ writer'[w].data = writer[w].data
  BY <1>2 DEF Goto, StoreTypeOK
<1>3. ASSUME NEW t, Return(w, t)
      PROVE  writer'[w].name = writer[w].name /\ writer'[w].data = writer[w].data
  BY <1>3 DEF Return, StoreTypeOK
<1>4. CASE ~Begin(w)
  BY <1>4, <1>2, <1>3 DEF Save, HeadMissing, HeadExisting, HeadMismatch,
                          HeadRaises, Put, PutRaises, Asking
<1> QED
  BY <1>1, <1>4

\* Names keep fitting the bytes they were made for.
LEMMA NamesFitStep == StoreInv /\ StoreNext => NamesFit'
<1> SUFFICES ASSUME StoreInv, StoreNext,
                    NEW v \in Writers', writer'[v].pc \in {"head", "put", "saved"}
             PROVE  writer'[v].name.digest = writer'[v].data
  BY DEF NamesFit
<1>1. ASSUME NEW w \in Writers, Save(w)
      PROVE  writer'[v].name.digest = writer'[v].data
  <2>1. CASE v # w
    BY <1>1, <2>1, OthersKeep DEF StoreInv, NamesFit
  <2>2. CASE v = w
    BY <1>1, <2>2, RequestKept DEF StoreInv, NamesFit
  <2> QED
    BY <2>1, <2>2
<1>2. ASSUME NEW n \in Names, ForeignWrite(n)
      PROVE  writer'[v].name.digest = writer'[v].data
  BY <1>2 DEF ForeignWrite, StoreInv, NamesFit
<1> QED
  BY <1>1, <1>2 DEF StoreNext

\* A put leaves an object that fits its name.
LEMMA WriteFits ==
    ASSUME StoreInv, NEW w \in Writers, writer[w].pc = "put", WriteObject(w)
    PROVE  /\ \A n \in Names \ {writer[w].name} : objects'[n] = objects[n]
           /\ writer[w].name \in Names
           /\ objects'[writer[w].name] # None
           /\ objects'[writer[w].name].data = writer[w].name.digest
           /\ objects'[writer[w].name].digest = writer[w].name.digest
           /\ objects'[writer[w].name].label = writer[w].name.label
<1> DEFINE o == [data |-> writer[w].data, digest |-> writer[w].data,
                 label |-> writer[w].name.label, stamp |-> writer[w].stamp]
<1>1. writer[w].name \in Names
  BY WriterTyped DEF StoreInv
<1>2. objects' = [objects EXCEPT ![writer[w].name] = o]
  BY DEF WriteObject
<1>3. writer[w].name.digest = writer[w].data
  BY DEF StoreInv, NamesFit
<1>4. o # None
  <2>1. o \in Objects
    BY WriterTyped DEF Objects, StoreInv
  <2> QED
    BY <2>1, StoreAssumption
<1> QED
  BY <1>1, <1>2, <1>3, <1>4 DEF StoreInv, StoreTypeOK

\* The bucket as a save of one writer leaves it: as it was, or with one fitting
\* object more or again.
LEMMA SaveEffect ==
    ASSUME StoreInv, NEW w \in Writers, Save(w)
    PROVE  /\ touched' = touched
           /\ crossed \subseteq crossed'
           /\ \/ objects' = objects
              \/ writer[w].pc = "put" /\ WriteObject(w)
<1>1. CASE Put(w) \/ PutRaises(w)
  BY <1>1 DEF Put, PutRaises, WriteObject
<1>2. CASE ~Put(w) /\ ~PutRaises(w)
  BY <1>2 DEF Save, Begin, HeadMissing, HeadExisting, HeadMismatch, HeadRaises,
              Asking
<1> QED
  BY <1>1, <1>2

\* A write of another service disturbs the name it touches only.
LEMMA ForeignEffect ==
    ASSUME StoreInv, NEW n \in Names, ForeignWrite(n)
    PROVE  /\ touched' = touched \cup {n}
           /\ \A m \in Names \ touched' : objects'[m] = objects[m]
           /\ UNCHANGED <<writer, crossed>>
  BY DEF ForeignWrite, StoreInv, StoreTypeOK

\* Only fitting objects are put.
LEMMA ObjectsFitStep == StoreInv /\ StoreNext => ObjectsFit'
<1> SUFFICES ASSUME StoreInv, StoreNext,
                    NEW n \in Names, n \notin touched', objects'[n] # None
             PROVE  /\ objects'[n].data = n.digest
                    /\ objects'[n].digest = n.digest
                    /\ objects'[n].label = n.label
  BY DEF ObjectsFit
<1>1. CASE n \notin touched /\ objects'[n] = objects[n]
  BY <1>1 DEF StoreInv, ObjectsFit
<1>2. ASSUME NEW w \in Writers, Save(w)
      PROVE  /\ objects'[n].data = n.digest
             /\ objects'[n].digest = n.digest
             /\ objects'[n].label = n.label
  <2>1. CASE writer[w].pc = "put" /\ WriteObject(w) /\ n = writer[w].name
    BY <2>1, WriteFits
  <2>2. CASE writer[w].pc = "put" /\ WriteObject(w) /\ n # writer[w].name
    BY <1>1, <1>2, <2>2, WriteFits, SaveEffect
  <2>3. CASE objects' = objects
    BY <1>1, <1>2, <2>3, SaveEffect
  <2> QED
    BY <1>2, <2>1, <2>2, <2>3, SaveEffect
<1>3. ASSUME NEW m \in Names, ForeignWrite(m)
      PROVE  n \notin touched /\ objects'[n] = objects[n]
  BY <1>3, ForeignEffect
<1> QED
  BY <1>1, <1>2, <1>3 DEF StoreNext

\* The service never takes an object away.
LEMMA ObjectsStay ==
    ASSUME StoreInv, StoreNext, NEW n \in Names, n \notin touched',
           objects[n] # None
    PROVE  n \notin touched /\ objects'[n] # None
<1>1. ASSUME NEW w \in Writers, Save(w)
      PROVE  n \notin touched /\ objects'[n] # None
  BY <1>1, SaveEffect, WriteFits
<1>2. ASSUME NEW m \in Names, ForeignWrite(m)
      PROVE  n \notin touched /\ objects'[n] # None
  BY <1>2, ForeignEffect
<1> QED
  BY <1>1, <1>2 DEF StoreNext

\* A save that returns has just found or put its object.
LEMMA ReturnEffect ==
    ASSUME StoreInv, NEW w \in Writers, Save(w), writer'[w].pc = "saved"
    PROVE  /\ writer'[w].name = writer[w].name
           /\ writer[w].name \in Names
           /\ objects'[writer[w].name] # None
           /\ writer'[w].created \in Stamps =>
                 writer'[w].created = objects'[writer[w].name].stamp
<1>1. /\ writer[w].pc \in {"head", "put"}
      /\ writer'[w].name = writer[w].name
      /\ writer[w].name \in Names
  BY RequestKept, WriterTyped DEF StoreInv
<1>2. HeadExisting(w) \/ Put(w)
  <2>1. ~Begin(w)
    BY <1>1 DEF Begin
  <2>2. ASSUME NEW pc \in {"put", "raised"}, Goto(w, pc) PROVE FALSE
    BY <2>2 DEF Goto, StoreInv, StoreTypeOK
  <2> QED
    BY <2>1, <2>2 DEF Save, HeadMissing, HeadMismatch, HeadRaises, PutRaises
<1>3. ASSUME NEW t, Return(w, t) PROVE writer'[w].created = t
  BY <1>1, <1>3 DEF Return, StoreInv, StoreTypeOK, Writer
<1>4. CASE HeadExisting(w)
  <2>1. objects' = objects /\ Found(w) # None
    BY <1>4 DEF HeadExisting, Asking
  <2>2. writer'[w].created = IF Found(w).stamp = None THEN "modified"
                             ELSE Found(w).stamp
    BY <1>3, <1>4 DEF HeadExisting
  <2> QED
    BY <1>1, <2>1, <2>2, StoreAssumption DEF Found
<1>5. CASE Put(w)
  <2>1. writer[w].pc = "put" /\ WriteObject(w)
    BY <1>5 DEF Put
  <2>2. writer'[w].created = IF writer[w].stamp = None THEN "now"
                             ELSE writer[w].stamp
    BY <1>3, <1>5 DEF Put
  <2>3. objects'[writer[w].name].stamp = writer[w].stamp
    BY <1>1, <2>1 DEF WriteObject, StoreInv, StoreTypeOK
  <2> QED
    BY <1>1, <2>1, <2>2, <2>3, WriteFits, StoreAssumption
<1> QED
  BY <1>2, <1>4, <1>5

\* The object of a reference stays.
LEMMA SavedExistStep == StoreInv /\ StoreNext => SavedExist'
<1> SUFFICES ASSUME StoreInv, StoreNext, NEW v \in Writers,
                    writer'[v].pc = "saved", writer'[v].name \notin touched'
             PROVE  objects'[writer'[v].name] # None
  BY DEF SavedExist, Found
<1>1. CASE writer'[v] = writer[v]
  <2>1. writer[v].name \in Names
    BY <1>1, WriterTyped DEF StoreInv
  <2>2. touched \subseteq touched'
    BY SaveEffect, ForeignEffect DEF StoreNext
  <2>3. objects[writer[v].name] # None
    BY <1>1, <2>2 DEF StoreInv, SavedExist, Found
  <2> QED
    BY <1>1, <2>1, <2>3, ObjectsStay
<1>2. CASE Save(v)
  BY <1>2, ReturnEffect
<1>3. writer'[v] = writer[v] \/ Save(v)
  BY OthersKeep, ForeignEffect DEF StoreNext, StoreInv
<1> QED
  BY <1>1, <1>2, <1>3

\* The creation time of an object that is put once does not change.
LEMMA TimesFitStep == StoreInv /\ StoreNext => TimesFit'
<1> SUFFICES ASSUME StoreInv, StoreNext, NEW v \in Writers,
                    writer'[v].pc = "saved",
                    writer'[v].name \notin touched' \cup crossed',
                    writer'[v].created \in Stamps
             PROVE  writer'[v].created = objects'[writer'[v].name].stamp
  BY DEF TimesFit, Found
<1>1. CASE Save(v)
  BY <1>1, ReturnEffect
<1>2. CASE writer'[v] = writer[v]
  <2> DEFINE n == writer[v].name
  <2>1. n \in Names
    BY <1>2, WriterTyped DEF StoreInv
  <2>2. touched \subseteq touched' /\ crossed \subseteq crossed'
    BY SaveEffect, ForeignEffect DEF StoreNext
  <2>3. writer[v].created = objects[n].stamp /\ objects[n] # None
    BY <1>2, <2>2 DEF StoreInv, TimesFit, SavedExist, Found
  <2>4. ASSUME NEW w \in Writers, Save(w) PROVE objects'[n] = objects[n]
    <3>1. CASE writer[w].pc = "put" /\ WriteObject(w)
      <4>1. n # writer[w].name
        BY <1>2, <2>3, <3>1 DEF WriteObject, Found
      <4> QED
        BY <2>1, <3>1, <4>1, WriteFits
    <3> QED
      BY <2>4, <3>1, SaveEffect
  <2>5. ASSUME NEW m \in Names, ForeignWrite(m) PROVE objects'[n] = objects[n]
    BY <1>2, <2>1, <2>5, ForeignEffect
  <2> QED
    BY <1>2, <2>3, <2>4, <2>5 DEF StoreNext
<1>3. writer'[v] = writer[v] \/ Save(v)
  BY OthersKeep, ForeignEffect DEF StoreNext, StoreInv
<1> QED
  BY <1>1, <1>2, <1>3

-----------------------------------------------------------------------------
(* Theorems.                                                               *)

\* The invariant holds whatever the writers and the other services do.
THEOREM StoreInvariant == StoreSpec => []StoreInv
<1>1. StoreInv /\ [StoreNext]_storeVars => StoreInv'
  <2> SUFFICES ASSUME StoreInv, [StoreNext]_storeVars PROVE StoreInv'
    OBVIOUS
  <2>1. CASE StoreNext
    BY <2>1, StoreTypeStep, NamesFitStep, ObjectsFitStep, SavedExistStep,
       TimesFitStep DEF StoreInv
  <2>2. CASE UNCHANGED storeVars
    BY <2>2 DEF storeVars, StoreInv, StoreTypeOK, NamesFit, ObjectsFit,
                SavedExist, TimesFit, Found
  <2> QED
    BY <2>1, <2>2
<1> QED
  BY StoreInitInv, <1>1, PTL DEF StoreSpec

\* Type correctness of the bucket and its writers.
THEOREM StoreTypeCorrect == StoreSpec => []StoreTypeOK
<1>1. StoreInv => StoreTypeOK
  BY DEF StoreInv
<1> QED
  BY <1>1, StoreInvariant, PTL

\* save_artifact returns references to stored objects only.
THEOREM ReferencesAreStored == StoreSpec => []AnswersAreStored
<1>1. StoreInv => AnswersAreStored
  <2> SUFFICES ASSUME StoreInv, NEW w \in Writers, writer[w].pc = "saved",
                      writer[w].name \notin touched
               PROVE  /\ Found(w) # None
                      /\ Found(w).data = writer[w].data
                      /\ Found(w).label = writer[w].name.label
    BY DEF AnswersAreStored
  <2>1. writer[w].name \in Names
    BY WriterTyped DEF StoreInv
  <2> QED
    BY <2>1 DEF StoreInv, SavedExist, ObjectsFit, NamesFit, Found
<1> QED
  BY <1>1, StoreInvariant, PTL

\* A replay answers with the reference the first save got.
THEOREM ReplaysAgree == StoreSpec => []RepliesAgree
<1>1. StoreInv => RepliesAgree
  BY DEF StoreInv, TimesFit, RepliesAgree, Found
<1> QED
  BY <1>1, StoreInvariant, PTL

-----------------------------------------------------------------------------
(* save_artifact and its store write once.                                 *)

\* Outside the names of other services an object that is there is the one its
\* name stands for.
LEMMA KeptIfThere ==
    ASSUME StoreInv, NEW n
    PROVE  n \in Kept <=> n \in Names /\ n \notin touched /\ objects[n] # None
  BY DEF Kept, StoreInv, ObjectsFit

LEMMA KeptIfThereNext ==
    ASSUME StoreInv', NEW n
    PROVE  n \in Kept' <=> n \in Names /\ n \notin touched' /\ objects'[n] # None
  BY DEF Kept, StoreInv, ObjectsFit

\* What a put of one writer does to the names that are kept.
LEMMA WriteKeeps ==
    ASSUME StoreInv, StoreInv', NEW w \in Writers, Save(w),
           writer[w].pc = "put", WriteObject(w)
    PROVE  Kept' = Kept \cup ({writer[w].name} \ touched)
  BY WriteFits, SaveEffect, KeptIfThere, KeptIfThereNext

\* A save that finds or leaves the bucket as it is keeps the same names.
LEMMA QuietKeeps ==
    ASSUME objects' = objects, touched' = touched
    PROVE  Kept' = Kept
  BY DEF Kept

\* A writer without an answer gets none from a save that does not return.
LEMMA SilentSave ==
    ASSUME StoreInv, NEW w \in Writers, Save(w), writer'[w].pc # "saved"
    PROVE  Replies' = Replies
<1>1. writer[w].pc # "saved"
  BY DEF Save, Begin, HeadMissing, HeadExisting, HeadMismatch, HeadRaises,
         Asking, Put, PutRaises
<1>2. \A v \in Writers \ {w} : writer'[v] = writer[v]
  BY OthersKeep DEF StoreInv
<1> QED
  BY <1>1, <1>2 DEF Replies

\* One that returns answers its own writer, once.
LEMMA AnswerSave ==
    ASSUME StoreInv, NEW w \in Writers, Save(w), writer'[w].pc = "saved"
    PROVE  /\ writer[w].name \in Names
           /\ Replies[w] = None
           /\ Replies' = [Replies EXCEPT ![w] = writer[w].name]
<1>1. writer[w].pc # "saved"
  BY DEF Save, Begin, HeadMissing, HeadExisting, HeadMismatch, HeadRaises,
         Asking, Put, PutRaises
<1>2. \A v \in Writers \ {w} : writer'[v] = writer[v]
  BY OthersKeep DEF StoreInv
<1>3. writer'[w].name = writer[w].name /\ writer[w].name \in Names
  BY ReturnEffect
<1> QED
  BY <1>1, <1>2, <1>3 DEF Replies

\* A save is a step of the promise: an answer, a put whose answer was lost, or
\* nothing the caller sees.
LEMMA SavePromise ==
    ASSUME StoreInv, StoreInv', NEW w \in Writers, Save(w)
    PROVE  [Promise!PromiseNext]_<<Kept, Replies, touched>>
<1> DEFINE n == writer[w].name
<1>1. touched' = touched
  BY SaveEffect
<1>2. CASE writer'[w].pc = "saved"
  <2>1. n \in Names /\ Replies[w] = None /\ Replies' = [Replies EXCEPT ![w] = n]
    BY <1>2, AnswerSave
  <2>2. Kept' = Kept \cup ({n} \ touched)
    <3>1. CASE writer[w].pc = "put" /\ WriteObject(w)
      BY <3>1, WriteKeeps
    <3>2. CASE objects' = objects
      <4>1. objects[n] # None
        BY <1>2, <3>2, ReturnEffect
      <4> QED
        BY <1>1, <2>1, <3>2, <4>1, QuietKeeps, KeptIfThere
    <3> QED
      BY <3>1, <3>2, SaveEffect
  <2>3. Promise!Answer(w, n)
    BY <1>1, <2>1, <2>2 DEF Promise!Answer
  <2> QED
    BY <2>1, <2>3 DEF Promise!PromiseNext
<1>3. CASE writer'[w].pc # "saved"
  <2>1. Replies' = Replies
    BY <1>3, SilentSave
  <2>2. CASE writer[w].pc = "put" /\ WriteObject(w)
    <3>1. n \in Names /\ Kept' = Kept \cup ({n} \ touched)
      BY <2>2, WriteKeeps, WriteFits
    <3>2. Promise!Keep(n)
      BY <1>1, <2>1, <3>1 DEF Promise!Keep
    <3> QED
      BY <3>1, <3>2 DEF Promise!PromiseNext
  <2>3. CASE objects' = objects
    BY <1>1, <2>1, <2>3, QuietKeeps
  <2> QED
    BY <2>2, <2>3, SaveEffect
<1> QED
  BY <1>2, <1>3

\* A write of another service takes its name out of the promise, and no other.
LEMMA SharePromise ==
    ASSUME StoreInv, StoreInv', NEW n \in Names, ForeignWrite(n)
    PROVE  Promise!Share(n)
<1>1. Replies' = Replies
  BY ForeignEffect DEF Replies
<1>2. Kept' = Kept \ {n}
  BY ForeignEffect, KeptIfThere, KeptIfThereNext
<1> QED
  BY <1>1, <1>2, ForeignEffect DEF Promise!Share

\* Whatever writers overlap, whichever calls raise and however often a save is
\* repeated, head and put in two calls are a store that writes once: what a
\* name stands for is never changed or taken away by the service, and no writer
\* is answered with a name that is not kept.
THEOREM SavesWriteOnce == StoreSpec => ImplementsWriteOnceStore
<1>1. StoreInit => Promise!PromiseInit
  BY DEF StoreInit, Promise!PromiseInit, Kept, Replies, Idle
<1>2. StoreInv /\ StoreInv' /\ [StoreNext]_storeVars
        => [Promise!PromiseNext]_<<Kept, Replies, touched>>
  <2> SUFFICES ASSUME StoreInv, StoreInv', [StoreNext]_storeVars
               PROVE  [Promise!PromiseNext]_<<Kept, Replies, touched>>
    OBVIOUS
  <2>1. ASSUME NEW w \in Writers, Save(w)
        PROVE  [Promise!PromiseNext]_<<Kept, Replies, touched>>
    BY <2>1, SavePromise
  <2>2. ASSUME NEW n \in Names, ForeignWrite(n)
        PROVE  [Promise!PromiseNext]_<<Kept, Replies, touched>>
    BY <2>2, SharePromise DEF Promise!PromiseNext
  <2>3. CASE UNCHANGED storeVars
    BY <2>3 DEF storeVars, Kept, Replies
  <2> QED
    BY <2>1, <2>2, <2>3 DEF StoreNext
<1> QED
  BY <1>1, <1>2, StoreInvariant, PTL
     DEF StoreSpec, ImplementsWriteOnceStore, Promise!PromiseSpec, Promise!promiseVars

=============================================================================
