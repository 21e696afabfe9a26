--------------------------- MODULE ArtifactStore ----------------------------
(***************************************************************************)
(* ArtifactRegistry.save_artifact of app/adapters/artifact_registry.py     *)
(* over the put and head of app/adapters/object_storage.py: an artifact is *)
(* stored under a name made of its labels and the hash of its bytes.  A    *)
(* save first asks for the metadata under that name and puts the object    *)
(* only if there is none, in two calls another writer may come between.    *)
(* Writers that save the same artifact are the retries of a job and jobs   *)
(* that overlap; other services share the bucket.                          *)
(*                                                                         *)
(* A label stands for version, job, kind, schema and format, all of which  *)
(* are in the name and in the metadata.  A hash is the bytes it is of.     *)
(***************************************************************************)
EXTENDS Naturals, FiniteSets

CONSTANTS
    Writers,      \* calls of save_artifact
    Written,      \* labels as callers write them
    Labels,       \* labels as path components
    Clean,        \* _safe_component: the component of each written label
    Bytes,        \* contents of artifacts
    Stamps,       \* creation times callers put in the metadata
    None,
    MaxForeign    \* bound on the names other services write to

Names == [label : Labels, digest : Bytes]
Objects == [data : Bytes, digest : Bytes, label : Labels, stamp : Stamps \cup {None}]

ASSUME StoreAssumption ==
    /\ Clean \in [Written -> Labels \cup {None}]
    /\ None \notin Labels \cup Bytes \cup Stamps \cup Names \cup Objects
    /\ Stamps \cap {"now", "modified"} = {}
    /\ MaxForeign \in Nat

VARIABLES
    objects,      \* the bucket: the object under each name, or None
    writer,       \* position, request and answer of each writer
    touched,      \* names another service has written to
    crossed       \* names that were put twice

storeVars == <<objects, writer, touched, crossed>>

Times == Stamps \cup {"now", "modified", None}
Idle == [pc |-> "idle", name |-> None, data |-> None, stamp |-> None, created |-> None]

StoreInit ==
    /\ objects = [n \in Names |-> None]
    /\ writer = [w \in Writers |-> Idle]
    /\ touched = {}
    /\ crossed = {}

-----------------------------------------------------------------------------
(* save_artifact.                                                          *)

\* Variant: all contents of a label under one name.
NameWithoutHash(label, data) == [label |-> label, digest |-> CHOOSE d \in Bytes : TRUE]

NameOf(label, data) == [label |-> label, digest |-> data]

Goto(w, pc) == writer' = [writer EXCEPT ![w].pc = pc]
Return(w, created) ==
    writer' = [writer EXCEPT ![w] = [@ EXCEPT !.pc = "saved", !.created = created]]

\* The request of a save, once its label is a path component.
Asked(label, data, stamp) ==
    [pc |-> "head", name |-> NameOf(label, data), data |-> data,
     stamp |-> stamp, created |-> None]

\* Variant: a label is used as it was written.
UncheckedBegin(w) ==
    /\ writer[w].pc = "idle"
    /\ \E l \in Written, d \in Bytes, s \in Stamps \cup {None} :
          writer' = [writer EXCEPT ![w] = Asked(Clean[l], d, s)]
    /\ UNCHANGED <<objects, touched, crossed>>

\* A label that is no path component is refused before the store is asked.
Begin(w) ==
    /\ writer[w].pc = "idle"
    /\ \E l \in Written, d \in Bytes, s \in Stamps \cup {None} :
          writer' = [writer EXCEPT ![w] =
              IF Clean[l] = None THEN [Idle EXCEPT !.pc = "raised"]
              ELSE Asked(Clean[l], d, s)]
    /\ UNCHANGED <<objects, touched, crossed>>

Found(w) == objects[writer[w].name]

\* The metadata the registry asks back; head trusts the hash it finds there.
Matches(w) ==
    /\ Found(w).digest = writer[w].data
    /\ Found(w).label = writer[w].name.label

Asking(w) == writer[w].pc = "head" /\ UNCHANGED <<objects, touched, crossed>>

HeadMissing(w) == Asking(w) /\ Found(w) = None /\ Goto(w, "put")

\* Variant: a replay answers with the caller's own creation time.
ExistingOwnTime(w) ==
    Asking(w) /\ Found(w) # None /\ Matches(w) /\ Return(w, writer[w].stamp)

\* The existing object answers the save, with the creation time it was put with.
HeadExisting(w) ==
    /\ Asking(w)
    /\ Found(w) # None
    /\ Matches(w)
    /\ Return(w, IF Found(w).stamp = None THEN "modified" ELSE Found(w).stamp)

HeadMismatch(w) ==
    Asking(w) /\ Found(w) # None /\ ~Matches(w) /\ Goto(w, "raised")

\* Any error of head but ARTIFACT_NOT_FOUND.
HeadRaises(w) == Asking(w) /\ Goto(w, "raised")

WriteObject(w) ==
    /\ objects' = [objects EXCEPT ![writer[w].name] =
           [data |-> writer[w].data, digest |-> writer[w].data,
            label |-> writer[w].name.label, stamp |-> writer[w].stamp]]
    /\ crossed' = IF Found(w) = None THEN crossed
                  ELSE crossed \cup {writer[w].name}

Put(w) ==
    /\ writer[w].pc = "put"
    /\ WriteObject(w)
    /\ Return(w, IF writer[w].stamp = None THEN "now" ELSE writer[w].stamp)
    /\ UNCHANGED touched

\* Variant: a put that raised is answered as if it had been applied.
PutErrorSwallowed(w) ==
    /\ writer[w].pc = "put"
    /\ Return(w, writer[w].stamp)
    /\ UNCHANGED <<objects, touched, crossed>>

\* A put that raises may have been applied all the same.
PutRaises(w) ==
    /\ writer[w].pc = "put"
    /\ WriteObject(w) \/ UNCHANGED <<objects, crossed>>
    /\ Goto(w, "raised")
    /\ UNCHANGED touched

\* Another service writes to, or deletes, an object of the scope.
ForeignWrite(n) ==
    /\ n \in touched \/ Cardinality(touched) < MaxForeign
    /\ \E o \in Objects \cup {None} : objects' = [objects EXCEPT ![n] = o]
    /\ touched' = touched \cup {n}
    /\ UNCHANGED <<writer, crossed>>

Save(w) ==
    \/ Begin(w)
    \/ HeadMissing(w) \/ HeadExisting(w) \/ HeadMismatch(w) \/ HeadRaises(w)
    \/ Put(w) \/ PutRaises(w)

StoreNext ==
    \/ \E w \in Writers : Save(w)
    \/ \E n \in Names : ForeignWrite(n)

StoreSpec == StoreInit /\ [][StoreNext]_storeVars

-----------------------------------------------------------------------------
(* Properties.                                                             *)

Writer ==
    [pc : {"idle", "raised"}, name : {None}, data : {None}, stamp : {None},
     created : {None}]
      \cup
    [pc : {"head", "put", "raised", "saved"}, name : Names, data : Bytes,
     stamp : Stamps \cup {None}, created : Times]

\* The bucket holds objects under names of clean labels; a writer past its
\* label check knows its name.
StoreTypeOK ==
    /\ objects \in [Names -> Objects \cup {None}]
    /\ writer \in [Writers -> Writer]
    /\ touched \subseteq Names
    /\ crossed \subseteq Names

\* save_artifact returns a reference only to an object that is in the bucket,
\* with the bytes and labels of the reference: whoever wrote it, in whatever
\* order two writers of the name went through head and put, and whether or not
\* the put of an earlier attempt reported an error.
AnswersAreStored ==
    \A w \in Writers :
        writer[w].pc = "saved" /\ writer[w].name \notin touched =>
            /\ Found(w) # None
            /\ Found(w).data = writer[w].data
            /\ Found(w).label = writer[w].name.label

\* Saving an artifact again gives the same reference: two references to one
\* name carry the same creation time when their metadata set one, unless two
\* writers went through the gap between head and put together.
RepliesAgree ==
    \A v, w \in Writers :
        /\ writer[v].pc = "saved" /\ writer[w].pc = "saved"
        /\ writer[v].name = writer[w].name
        /\ writer[v].name \notin touched \cup crossed
        /\ writer[v].created \in Stamps /\ writer[w].created \in Stamps
        => writer[v].created = writer[w].created

\* The names under which the bucket has the bytes and labels they are made of.
Kept ==
    {n \in Names \ touched :
        objects[n] # None /\ objects[n].data = n.digest /\ objects[n].label = n.label}

Replies == [w \in Writers |-> IF writer[w].pc = "saved" THEN writer[w].name ELSE None]

Promise == INSTANCE WriteOnceStore WITH kept <- Kept, replies <- Replies, shared <- touched

\* "Immutable": head and put, in two calls and with errors that hide a put, are
\* a store that writes once; no put takes away or changes what a name stands
\* for, not even one that overwrites what another writer has just put.
ImplementsWriteOnceStore == Promise!PromiseSpec

=============================================================================
