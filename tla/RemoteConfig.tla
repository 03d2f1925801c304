---------------------------- MODULE RemoteConfig ----------------------------
(***************************************************************************)
(* The remote configuration of spt-remote-config: the poll loop (poll.rs), *)
(* one fetch (fetch.rs) and the cache on disk (cache.rs), which outlives   *)
(* the process.  A body stands for its bytes and for their SHA-256; the    *)
(* server's ETag, where it sends one, is the body it belongs to.           *)
(*                                                                         *)
(* The cache is two files written one after the other, and the process may *)
(* be killed between them.  Whether the apply callback succeeds is decided *)
(* by the reload pipeline (Daemon).                                        *)
(***************************************************************************)
EXTENDS Integers

CONSTANTS
    Bodies,        \* what the server may serve
    Tagged,        \* the bodies it serves with an ETag
    None,          \* no body, no tag
    AllowCached,   \* allow_cached_on_failure
    MaxChanges     \* a bound on edits of the server, failed writes and applies, and kills

ASSUME RemoteAssumption ==
    /\ Tagged \subseteq Bodies
    /\ None \notin Bodies
    /\ AllowCached \in BOOLEAN
    /\ MaxChanges \in Nat

VARIABLES
    server,    \* the body the server holds
    pin,       \* fingerprint_sha256 of the running process
    cache,     \* the cached body: remote-config-cache.toml
    sidecar,   \* the ETag in its sidecar
    last,      \* last_body_sha: what this process has applied
    pc,        \* where the poll loop is
    asked,     \* the cache as fetch has loaded it: <<body, tag>>
    got,       \* the body under way
    rejected,  \* the callback has returned false since it was last called
    running,   \* the remote body the process runs, if any
    changes

vars == <<server, pin, cache, sidecar, last, pc, asked, got, rejected, running, changes>>
files == <<cache, sidecar>>
memory == <<last, rejected, running>>

Tag(b) == IF b \in Tagged THEN b ELSE None
Nothing == <<None, None>>

Change == changes < MaxChanges /\ changes' = changes + 1

Init ==
    /\ server \in Bodies /\ pin \in Bodies
    /\ cache = None /\ sidecar = None
    /\ last = None /\ running = None /\ rejected = FALSE
    /\ pc = "sleeping"
    /\ asked = Nothing /\ got = None
    /\ changes = 0

-----------------------------------------------------------------------------
(* The poll loop. *)

\* The delay is over: fetch loads the cache and sends its tag along.
Wake ==
    /\ pc = "sleeping"
    /\ asked' = <<cache, IF cache = None THEN None ELSE sidecar>>
    /\ pc' = "fetching"
    /\ UNCHANGED <<server, pin, files, got, memory, changes>>

Sleep == pc' = "sleeping" /\ asked' = Nothing /\ got' = None

\* The body differs from the one applied last: call back; else skip.
Deliver(b) ==
    IF last = b THEN Sleep
    ELSE pc' = "applying" /\ got' = b /\ asked' = Nothing

\* 200: the server does not know the tag.
Serves == pc = "fetching" /\ (asked[2] = None \/ asked[2] # Tag(server))

\* 200 with another body than the pinned one: an error, the cache is kept.
Mismatch ==
    /\ Serves /\ server # pin
    /\ Sleep
    /\ UNCHANGED <<server, pin, files, memory, changes>>

\* The body is saved before it is checked.
SaveUnchecked ==
    /\ Serves
    /\ cache' = server
    /\ got' = server
    /\ pc' = "saving"
    /\ UNCHANGED <<server, pin, sidecar, asked, memory, changes>>

\* 200 with the pinned body: save_atomic writes the body, the sidecar still
\* being that of the body before ...
SaveBody ==
    /\ Serves /\ server = pin
    /\ cache' = server
    /\ got' = server
    /\ pc' = "saving"
    /\ UNCHANGED <<server, pin, sidecar, asked, memory, changes>>

\* The sidecar takes the body for its tag.
SaveSidecarUntagged ==
    /\ pc = "saving"
    /\ sidecar' = got
    /\ Deliver(got)
    /\ UNCHANGED <<server, pin, cache, memory, changes>>

\* ... and then the sidecar, with the tag of the answer.
SaveSidecar ==
    /\ pc = "saving"
    /\ sidecar' = Tag(got)
    /\ Deliver(got)
    /\ UNCHANGED <<server, pin, cache, memory, changes>>

\* The sidecar cannot be written: an error, behind a body that is saved.
SaveFails ==
    /\ Change
    /\ pc = "saving"
    /\ Sleep
    /\ UNCHANGED <<server, pin, files, memory>>

\* 304: the cached body, checked against the pin, is not delivered; if it
\* does not pass the poll fails.
NotModified ==
    /\ pc = "fetching"
    /\ asked[2] # None /\ asked[2] = Tag(server)
    /\ Sleep
    /\ UNCHANGED <<server, pin, files, memory, changes>>

\* The cache is believed.
CacheBelieved == TRUE

\* verify_cache_against_pin.
CacheVerifies == asked[1] = pin

\* Transport error or 5xx with allow_cached_on_failure, and a cache that
\* passes the pin: StaleFromCache.
FallBack ==
    /\ pc = "fetching"
    /\ AllowCached /\ asked[1] # None /\ CacheVerifies
    /\ Deliver(asked[1])
    /\ UNCHANGED <<server, pin, files, memory, changes>>

\* Every other failure.
FetchFails ==
    /\ pc = "fetching"
    /\ Sleep
    /\ UNCHANGED <<server, pin, files, memory, changes>>

\* The callback verifies, unseals, parses and reloads.
Applied ==
    /\ pc = "applying"
    /\ running' = got /\ last' = got /\ rejected' = FALSE
    /\ Sleep
    /\ UNCHANGED <<server, pin, files, changes>>

\* A failed apply counts as applied.
ApplyFailsForGood ==
    /\ Change
    /\ pc = "applying"
    /\ last' = got /\ rejected' = TRUE
    /\ Sleep
    /\ UNCHANGED <<server, pin, files, running>>

ApplyFails ==
    /\ Change
    /\ pc = "applying"
    /\ rejected' = TRUE
    /\ Sleep
    /\ UNCHANGED <<server, pin, files, last, running>>

-----------------------------------------------------------------------------
(* The world around it. *)

ServerChanges ==
    /\ Change
    /\ \E b \in Bodies \ {server} : server' = b
    /\ UNCHANGED <<pin, files, pc, asked, got, memory>>

\* The process ends, anywhere; its files stay.
Killed ==
    /\ Change
    /\ pc # "down"
    /\ pc' = "down" /\ asked' = Nothing /\ got' = None
    /\ last' = None /\ running' = None /\ rejected' = FALSE
    /\ UNCHANGED <<server, pin, files>>

\* It is started again, maybe with another pin.
Restarted ==
    /\ pc = "down"
    /\ \E b \in Bodies : pin' = b
    /\ pc' = "sleeping"
    /\ UNCHANGED <<server, files, asked, got, memory, changes>>

Next ==
    \/ Wake \/ Mismatch \/ SaveBody \/ SaveSidecar \/ SaveFails \/ NotModified
    \/ FallBack \/ FetchFails \/ Applied \/ ApplyFails \/ ServerChanges \/ Killed \/ Restarted

Spec == Init /\ [][Next]_vars

\* The loop goes on, the server is reached from time to time, and an apply
\* that is tried again and again succeeds.
FairSpec ==
    /\ Spec
    /\ WF_vars(Wake) /\ WF_vars(SaveSidecar) /\ WF_vars(Restarted)
    /\ SF_vars(Mismatch \/ SaveBody \/ NotModified)
    /\ SF_vars(Applied)

-----------------------------------------------------------------------------
(* Properties. *)

\* The types of the state (run_loop, CachedEntry).
TypeOK ==
    /\ server \in Bodies /\ pin \in Bodies
    /\ cache \in Bodies \cup {None} /\ sidecar \in Tagged \cup {None}
    /\ last \in Bodies \cup {None} /\ running \in Bodies \cup {None}
    /\ pc \in {"sleeping", "fetching", "saving", "applying", "down"}
    /\ asked \in (Bodies \cup {None}) \X (Tagged \cup {None})
    /\ got \in Bodies \cup {None}
    /\ rejected \in BOOLEAN
    /\ changes \in 0..MaxChanges

\* What the poll loop knows at each of its awaits: the cache is still the one
\* fetch has loaded, the body it saves and delivers is the pinned one, and a
\* process that is down has nothing in memory (run_loop, fetch).
LoopInv ==
    /\ pc = "fetching" => asked[1] = cache
    /\ pc \in {"saving", "applying"} => got = pin /\ cache = got
    /\ pc \in {"sleeping", "fetching", "down"} => got = None
    /\ pc = "down" => running = None /\ last = None
    /\ running \in {None, pin}
    /\ running # None => cache = running

\* The process never runs, and is never handed, a body other than the one it
\* pins, whatever an earlier process with another pin left in the cache
\* (fetch, verify_cache_against_pin).
OnlyPinnedRuns ==
    /\ running \in {None, pin}
    /\ got \in {None, pin}

\* What the process runs, or is about to apply, is in the cache, so that it
\* survives an outage of the server at the next start: no later poll of this
\* process replaces it, not even one that fails half way (fetch, save_atomic).
PinnedBodyIsCached ==
    /\ running # None => cache = running
    /\ pc = "applying" => cache = got

\* While the server keeps serving the pinned body without an ETag, a process
\* that stays up runs it in the end, whatever failed before (run_loop).
UntaggedIsApplied ==
    <>[](server = pin /\ pin \notin Tagged /\ pc # "down") => <>[](running = pin)

\* A body whose apply failed is tried again ("the same body is retried on the
\* next poll", poll.rs), unless the process ends.
FailedApplyIsRetried == rejected ~> (pc = "applying" \/ pc = "down")

\* A body that fetch hands back as not modified is the one the server holds
\* ("body is the cached one", fetch.rs; "Atomically save a fetched body and its
\* associated `ETag` to disk", cache.rs).
NotModifiedIsCurrent == [][NotModified /\ CacheVerifies => asked[1] = server]_vars
=============================================================================
