----------------------------- MODULE ModelStore -----------------------------
(***************************************************************************)
(* Hash-pinned downloads into a shared cache (eval_download.py) and models *)
(* that are downloaded and materialized at a destination                   *)
(* (model_acquire.py, model_manifest.py).                                  *)
(*                                                                         *)
(* Several processes use one cache directory and one destination.  The     *)
(* remote end may serve other bytes than the pinned ones, fewer, more, or  *)
(* nothing; a process may be killed at any point.                          *)
(***************************************************************************)
EXTENDS Naturals, FiniteSets

CONSTANTS Fetchers,     \* calls of fetch_hash_pinned_file for one artifact,
          Offline,      \* those of them with offline=True
          Attempts,     \* their attempts (3 by default, at most 5)
          Acquirers,    \* calls of acquire_model for one destination
          Files         \* the files of the model's manifest

VARIABLES cached,       \* what the cache holds under the artifact's digest
          fetch,        \* [fetcher -> pc, attempt and the bytes in its temporary file]
          destination,  \* "absent", or the caller whose staging directory became it
          acquire       \* [acquirer -> pc, downloaded files, staged files]

vars == <<cached, fetch, destination, acquire>>

Absent == "absent"
Bodies == {"pinned", "other", "oversize", "short"}
FetchEnds == {"returned", "refused", "killed"}
AcquireEnds == {"acquired", "failed", "killed"}

TypeOK ==
    /\ cached \in {Absent, "pinned", "other", "oversize", "short"}
    /\ fetch \in [Fetchers -> [pc : {"idle", "verify", "open", "read", "sleep"} \cup FetchEnds,
                               attempt : 0..Attempts,
                               temporary : Bodies \cup {Absent}]]
    /\ destination \in Acquirers \cup {Absent}
    /\ acquire \in [Acquirers -> [pc : {"idle", "download", "stage", "replace", "verify"}
                                             \cup AcquireEnds,
                                  downloaded : SUBSET Files, staged : SUBSET Files]]

Init ==
    /\ cached \in {Absent, "other", "short"}      \* what earlier runs left may be damaged
    /\ fetch = [f \in Fetchers |-> [pc |-> "idle", attempt |-> 0, temporary |-> Absent]]
    /\ destination = Absent
    /\ acquire = [a \in Acquirers |-> [pc |-> "idle", downloaded |-> {}, staged |-> {}]]

----------------------------------------------------------------------------
(* fetch_hash_pinned_file.  Bad arguments (no HTTPS, a private host, limits  *)
(* out of range) are refused before anything happens.                        *)

Fetch(f, pc, attempt, temporary) ==
    /\ fetch' = [fetch EXCEPT ![f] = [pc |-> pc, attempt |-> attempt, temporary |-> temporary]]
    /\ UNCHANGED <<destination, acquire>>

Lookup(f) ==
    /\ fetch[f].pc = "idle"
    /\ UNCHANGED cached
    /\ \/ cached # Absent /\ Fetch(f, "verify", 0, Absent)
       \/ cached = Absent /\ Fetch(f, IF f \in Offline THEN "refused" ELSE "open", 1, Absent)

\* A cached file is believed after its size and digest were computed, never before.
VerifyCached(f) ==
    /\ fetch[f].pc = "verify"
    /\ UNCHANGED cached
    /\ Fetch(f, IF cached = "pinned" THEN "returned" ELSE "refused", 0, Absent)

\* urlopen(): a network error, a redirect to another host or a declared length that
\* is wrong ends the call; only the digest is worth another attempt.
Open(f) ==
    /\ fetch[f].pc = "open"
    /\ UNCHANGED cached
    /\ \/ Fetch(f, "refused", fetch[f].attempt, Absent)
       \/ \E body \in Bodies : Fetch(f, "read", fetch[f].attempt, body)

\* Faulty: the body is not hashed.
FaultyRead(f) ==
    /\ fetch[f].pc = "read"
    /\ LET body == fetch[f].temporary
           n == fetch[f].attempt
       IN  \/ /\ body \in {"pinned", "other"}
              /\ cached' = body
              /\ Fetch(f, "returned", n, Absent)
           \/ body \notin {"pinned", "other"} /\ UNCHANGED cached /\ Fetch(f, "refused", n, Absent)

\* The body is hashed while it is written to a temporary file, which becomes the
\* cached file in one step, or is removed.
Read(f) ==
    /\ fetch[f].pc = "read"
    /\ LET body == fetch[f].temporary
           n == fetch[f].attempt
       IN  \/ body = "pinned" /\ cached' = "pinned" /\ Fetch(f, "returned", n, Absent)
           \/ /\ \/ body \in {"oversize", "short"}
                 \/ body = "other" /\ n = Attempts
              /\ UNCHANGED cached
              /\ Fetch(f, "refused", n, Absent)
           \/ /\ body = "other" /\ n < Attempts
              /\ UNCHANGED cached
              /\ Fetch(f, "sleep", n, Absent)

Sleep(f) ==
    /\ fetch[f].pc = "sleep"
    /\ UNCHANGED cached
    /\ Fetch(f, "open", fetch[f].attempt + 1, Absent)

\* A killed process leaves its temporary file, never a file under the digest.
KillFetch(f) ==
    /\ fetch[f].pc \notin FetchEnds \cup {"idle"}
    /\ UNCHANGED cached
    /\ Fetch(f, "killed", fetch[f].attempt, fetch[f].temporary)

----------------------------------------------------------------------------
(* acquire_model and materialize_offline_model. *)

Acquire(a, pc, downloaded, staged) ==
    /\ acquire' = [acquire EXCEPT ![a] =
                      [pc |-> pc, downloaded |-> downloaded, staged |-> staged]]
    /\ UNCHANGED <<cached, fetch>>

AcquireModel(a) ==
    /\ acquire[a].pc = "idle"
    /\ UNCHANGED destination
    /\ Acquire(a, IF destination = Absent THEN "download" ELSE "failed", {}, {})

\* download_model_file: a file of the pinned size and digest, or an exception that
\* removes the private directory with everything in it.
DownloadModelFile(a) ==
    /\ acquire[a].pc = "download"
    /\ acquire[a].downloaded # Files
    /\ UNCHANGED destination
    /\ \/ \E x \in Files \ acquire[a].downloaded :
             Acquire(a, "download", acquire[a].downloaded \cup {x}, {})
       \/ Acquire(a, "failed", {}, {})

\* verify_snapshot: exactly the manifest's files; then the second look at the
\* destination.
VerifySnapshot(a) ==
    /\ acquire[a].pc = "download"
    /\ acquire[a].downloaded = Files
    /\ UNCHANGED destination
    /\ Acquire(a, IF destination = Absent THEN "stage" ELSE "failed", Files, {})

\* _copy_verified_snapshots
CopyVerified(a) ==
    /\ acquire[a].pc = "stage"
    /\ UNCHANGED destination
    /\ \E x \in Files \ acquire[a].staged :
          LET staged == acquire[a].staged \cup {x}
          IN  Acquire(a, IF staged = Files THEN "replace" ELSE "stage", Files, staged)

\* Faulty: the destination is replaced, whatever is there.
FaultyReplace(a) ==
    /\ acquire[a].pc = "replace"
    /\ destination' = a
    /\ Acquire(a, "verify", {}, Files)

\* The staged configuration must point to the manifest's base model; os.replace() of a
\* directory is refused if the destination has become a directory with files in it.
Replace(a) ==
    /\ acquire[a].pc = "replace"
    /\ \/ destination = Absent /\ destination' = a /\ Acquire(a, "verify", {}, Files)
       \/ UNCHANGED destination /\ Acquire(a, "failed", {}, {})

\* verify_materialized_adapter_config: when it fails, the model stays where it is.
VerifyMaterialized(a) ==
    /\ acquire[a].pc = "verify"
    /\ UNCHANGED destination
    /\ \E end \in {"acquired", "failed"} : Acquire(a, end, {}, Files)

KillAcquire(a) ==
    /\ acquire[a].pc \notin AcquireEnds \cup {"idle"}
    /\ UNCHANGED destination
    /\ Acquire(a, "killed", acquire[a].downloaded, acquire[a].staged)

----------------------------------------------------------------------------

Next ==
    \/ \E f \in Fetchers : \/ Lookup(f) \/ VerifyCached(f) \/ Open(f) \/ Read(f) \/ Sleep(f)
                           \/ KillFetch(f)
    \/ \E a \in Acquirers : \/ AcquireModel(a) \/ DownloadModelFile(a) \/ VerifySnapshot(a)
                            \/ CopyVerified(a) \/ Replace(a) \/ VerifyMaterialized(a)
                            \/ KillAcquire(a)

Spec == Init /\ [][Next]_vars

----------------------------------------------------------------------------
(* Properties. *)

\* Unverified bytes are never accepted: a fetch returns, and the cache gains, the
\* pinned content alone, whatever a damaged cache, the remote end, another process
\* or a kill did; and once pinned content is cached no fetch of it is refused for
\* what the cache holds.
OnlyPinnedBytesAreAccepted ==
    [][/\ cached' # cached => cached' = "pinned"
       /\ \A f \in Fetchers :
             fetch[f].pc # "returned" /\ fetch'[f].pc = "returned" => cached' = "pinned"
       /\ \A f \in Fetchers :
             fetch[f].pc = "verify" /\ cached = "pinned" => fetch'[f].pc # "refused"]_vars

\* A model that was acquired is complete and stays as it is: of two processes that
\* both found the destination free, one installs its files and the other fails; and who
\* is answered finds its own files there, although the answer comes after the installation.
OneModelIsInstalled ==
    [][/\ destination # Absent => destination' = destination
       /\ destination' # destination => acquire[destination'].staged = Files
       /\ \A a \in Acquirers :
             acquire[a].pc # "acquired" /\ acquire'[a].pc = "acquired" => destination' = a]_vars
=============================================================================
