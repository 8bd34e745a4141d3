---------------------------- MODULE ObjectStore ----------------------------
(***************************************************************************)
(* object_store.py: payloads under keys that hold their own SHA-256, in a  *)
(* directory (LocalObjectStore) or in a bucket (S3ObjectStore).  A key     *)
(* determines its payload, so an object is "whole" or it is damaged; a     *)
(* payload that is still being written is "partial".                       *)
(*                                                                         *)
(* A call runs in a thread and is split at every system call or request.   *)
(* Workers of several processes share the directory and the bucket; a      *)
(* process may be killed in the middle of a call.                          *)
(***************************************************************************)
EXTENDS Naturals, FiniteSets

CONSTANTS Local,      \* calls of LocalObjectStore.put_immutable
          Remote,     \* calls of S3ObjectStore.put_immutable
          Keys,       \* the object keys they write
          MaxDamage   \* objects the disk or the bucket may damage

VARIABLES object,    \* [backend -> [key -> what is stored there]]
          call,      \* [call -> its key and its program counter]
          temporary, \* calls whose .upload- file exists
          damage     \* number of objects damaged so far

vars == <<object, call, temporary, damage>>

Calls == Local \cup Remote
Backends == {"directory", "bucket"}
BackendOf(c) == IF c \in Local THEN "directory" ELSE "bucket"
Contents == {"absent", "partial", "whole", "damaged"}
Ends == {"returned", "integrity", "failed", "killed"}

TypeOK ==
    /\ object \in [Backends -> [Keys -> Contents]]
    /\ call \in [Calls -> [key : Keys,
                           pc : {"idle", "compare", "write", "replace", "unlink",
                                 "request", "verify"} \cup Ends]]
    /\ temporary \subseteq Local
    /\ damage \in 0..MaxDamage

Init ==
    /\ object = [b \in Backends |-> [k \in Keys |-> "absent"]]
    /\ call \in [Calls -> [key : Keys, pc : {"idle"}]]
    /\ temporary = {}
    /\ damage = 0

Stored(c) == object[BackendOf(c)][call[c].key]

Goto(c, from, to) ==
    /\ call[c].pc = from
    /\ call' = [call EXCEPT ![c].pc = to]

Store(c, content) == object' = [object EXCEPT ![BackendOf(c)][call[c].key] = content]

----------------------------------------------------------------------------
(* LocalObjectStore *)

\* path.exists()
Exists(c) ==
    /\ c \in Local
    /\ Goto(c, "idle", IF Stored(c) = "absent" THEN "write" ELSE "compare")
    /\ UNCHANGED <<object, temporary, damage>>

\* The object that was there is read and compared with the payload.
Compare(c) ==
    /\ Goto(c, "compare", IF Stored(c) = "whole" THEN "returned" ELSE "integrity")
    /\ UNCHANGED <<object, temporary, damage>>

\* mkstemp, write, fsync, all on a name of its own.
WriteTemporary(c) ==
    /\ Goto(c, "write", "replace")
    /\ temporary' = temporary \cup {c}
    /\ UNCHANGED <<object, damage>>

\* os.replace() puts the whole payload there, over whatever came meanwhile.
Replace(c) ==
    /\ Goto(c, "replace", "unlink")
    /\ Store(c, "whole")
    /\ temporary' = temporary \ {c}
    /\ UNCHANGED damage

\* The disk is full, or refuses: the finally clause removes the temporary file.
WriteFails(c) ==
    /\ Goto(c, "replace", "failed")
    /\ temporary' = temporary \ {c}
    /\ UNCHANGED <<object, damage>>

Unlink(c) ==
    /\ Goto(c, "unlink", "returned")
    /\ UNCHANGED <<object, temporary, damage>>

----------------------------------------------------------------------------
(* S3ObjectStore *)

\* put_object with If-None-Match.  The service stores the body if the key is free
\* and answers 412 if it is not.
PutObject(c) ==
    /\ c \in Remote
    /\ IF Stored(c) = "absent"
       THEN /\ Store(c, "whole")
            /\ \/ Goto(c, "idle", "returned")
               \/ Goto(c, "idle", "request")      \* the answer is lost
       ELSE Goto(c, "idle", "verify") /\ UNCHANGED object
    /\ UNCHANGED <<temporary, damage>>

\* The SDK repeats a request whose answer was lost and finds its own object, or it
\* gives up and the call raises.
Repeat(c) ==
    /\ Goto(c, "request", "verify") \/ Goto(c, "request", "failed")
    /\ UNCHANGED <<object, temporary, damage>>

\* 409: another conditional request for the key is under way.
Conflict(c) ==
    /\ c \in Remote
    /\ \E d \in Remote \ {c} : call[d].key = call[c].key /\ call[d].pc \in {"idle", "request"}
    /\ Goto(c, "idle", "verify")
    /\ UNCHANGED <<object, temporary, damage>>

\* Faulty: a conflict is taken for success.
FaultyVerify(c) ==
    /\ Goto(c, "verify", "returned")
    /\ UNCHANGED <<object, temporary, damage>>

\* After a 409 or a 412 read_verified(): an object that is not there yet raises the
\* SDK's NoSuchKey, one whose bytes differ raises ObjectIntegrityError.
Verify(c) ==
    /\ Goto(c, "verify", CASE Stored(c) = "whole" -> "returned"
                           [] Stored(c) = "absent" -> "failed"
                           [] OTHER -> "integrity")
    /\ UNCHANGED <<object, temporary, damage>>

----------------------------------------------------------------------------

\* The process is killed: no finally clause runs.
Kill(c) ==
    /\ call[c].pc \notin Ends \cup {"idle"}
    /\ call' = [call EXCEPT ![c].pc = "killed"]
    /\ UNCHANGED <<object, temporary, damage>>

Damage(b, k) ==
    /\ damage < MaxDamage
    /\ object[b][k] = "whole"
    /\ object' = [object EXCEPT ![b][k] = "damaged"]
    /\ damage' = damage + 1
    /\ UNCHANGED <<call, temporary>>

\* Both read_verified methods: what a reader of the reference of k is given.
ReadVerified(b, k) == CASE object[b][k] = "absent" -> "missing"
                        [] object[b][k] = "whole" -> "payload"
                        [] OTHER -> "integrity"

\* presign_get compares the length and the digest in the object's metadata, which
\* damage of the bytes leaves alone; a directory has no such URLs.
PresignGet(b, k) == CASE b = "directory" -> "unsupported"
                      [] object[b][k] = "absent" -> "missing"
                      [] OTHER -> "url"

Put(c) ==
    \/ Exists(c) \/ Compare(c) \/ WriteTemporary(c) \/ Replace(c) \/ WriteFails(c)
    \/ Unlink(c) \/ PutObject(c) \/ Repeat(c) \/ Conflict(c) \/ Verify(c) \/ Kill(c)

Next ==
    \/ \E c \in Calls : Put(c)
    \/ \E b \in Backends, k \in Keys : Damage(b, k)

Spec == Init /\ [][Next]_vars

----------------------------------------------------------------------------
(* Properties. *)

\* A reference that was returned resolves: to the payload, or to an integrity error
\* if the object was damaged since, even if other writers of the key raced with the
\* call, died in it or lost their answers; nobody ever reads part of a payload.
ReturnedReferencesResolve ==
    /\ \A c \in Calls :
          call[c].pc = "returned" =>
            /\ ReadVerified(BackendOf(c), call[c].key) # "missing"
            /\ damage = 0 => ReadVerified(BackendOf(c), call[c].key) = "payload"
    /\ \A b \in Backends, k \in Keys : object[b][k] # "partial"
    /\ damage = 0 => \A c \in Calls : call[c].pc # "integrity"
=============================================================================
