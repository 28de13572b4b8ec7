---------------------------- MODULE UpstreamKeys ----------------------------
(***************************************************************************)
(* The upstream keys of a channel (services/key_pool.py,                   *)
(* providers/base.py), which cool down one by one in Redis, and the video  *)
(* jobs that were created with them (services/video_jobs.py,               *)
(* routers/openai_proxy.py): the upstream knows a video only under the key *)
(* that created it.                                                        *)
(***************************************************************************)
EXTENDS Integers, FiniteSets, Sequences

CONSTANTS
    KeyPool,       \* the keys of the channel, a sequence, as configured first
    Jobs,          \* calls that create or remix a video
    Remixes,       \* those of them that remix one
    Users,         \* API keys of clients
    UserOf,        \* [call -> API key]
    Videos,        \* ids of videos, one for each call
    VideoOf,       \* [call -> id]
    NoVideo, NoUpstreamKey

ASSUME UpstreamKeysAssumption ==
    /\ Remixes \subseteq Jobs
    /\ UserOf \in [Jobs -> Users] /\ VideoOf \in [Jobs -> Videos]
    /\ \A c, d \in Jobs : VideoOf[c] = VideoOf[d] => c = d
    /\ NoVideo \notin Videos

VARIABLES
    pool,      \* the keys of the channel, in the row
    cool,      \* keys that cool down
    call,      \* [call -> [step, keys, key, rotations, source, job]]
    jobs,      \* [owner, id -> key], or NoUpstreamKey: the jobs in Redis
    home,      \* [id -> key]: where the upstream has the video, or NoUpstreamKey
    visit      \* the call for an existing video of this step: {} or {[owner, video, key, keys]}

keyVars == <<pool, cool, call, jobs, home, visit>>

UpstreamKeySet == {KeyPool[i] : i \in DOMAIN KeyPool}
KeysOf(seq) == {seq[i] : i \in DOMAIN seq}

InitKeys ==
    /\ pool = KeyPool /\ cool = {}
    /\ call = [c \in Jobs |-> [step |-> "new", keys |-> <<>>, key |-> NoUpstreamKey, rotations |-> 0, source |-> NoVideo,
                            job |-> NoUpstreamKey]]
    /\ jobs = [p \in Users \X Videos |-> NoUpstreamKey]
    /\ home = [v \in Videos |-> NoUpstreamKey] /\ visit = {}

----------------------------------------------------------------------------
(* The pool *)

\* available_keys: a single key is never looked up
Available(keys) == IF Len(keys) <= 1 THEN KeysOf(keys) ELSE KeysOf(keys) \ cool

\* upstream_key_for: the key of the fingerprint, else the first
UpstreamKeyFor(keys, key) ==
    IF key \in KeysOf(keys) THEN key ELSE IF keys = <<>> THEN NoUpstreamKey ELSE keys[1]

\* find_video: the job of the caller's API key
Found(user, video) == jobs[<<user, video>>] # NoUpstreamKey

\* The provider has the keys of the channel as of now; a remix needs its source
Start(c, video) ==
    /\ call[c].step = "new"
    /\ c \in Remixes => video # NoVideo /\ Found(UserOf[c], video)
    /\ c \notin Remixes => video = NoVideo
    /\ call' = [call EXCEPT ![c] = [@ EXCEPT !.step = "keyed", !.keys = pool, !.source = video,
                      !.job = IF c \in Remixes THEN jobs[<<UserOf[c], video>>] ELSE NoUpstreamKey]]
    /\ visit' = {} /\ UNCHANGED <<pool, cool, jobs, home>>

\* has_ready_key, then pick_key, by the session's hash or in turn; if Redis or
\* another request fails the choice, the provider keeps its first key
SelectKey(c) ==
    /\ call[c].step = "keyed"
    /\ IF Available(call[c].keys) = {}
       THEN call' = [call EXCEPT ![c].step = "refused"]
       ELSE \E k \in Available(call[c].keys) \cup {call[c].keys[1]} : call' = [call EXCEPT ![c] = [@ EXCEPT !.step = "sends", !.key = k]]
    /\ visit' = {} /\ UNCHANGED <<pool, cool, jobs, home>>

\* A remix is sent with the key of its job, whichever was selected
Sent(c) == IF c \in Remixes THEN UpstreamKeyFor(call[c].keys, call[c].job) ELSE call[c].key

VisitOf(user, video, keys, key) ==
    {[owner |-> user, video |-> video, keys |-> KeysOf(keys), key |-> UpstreamKeyFor(keys, key)]}
Visit(c) == visit' = IF c \in Remixes THEN VisitOf(UserOf[c], call[c].source, call[c].keys, call[c].job) ELSE {}

\* KEY_STATUSES: the key cools down, the first ready one of the others is next
\* (_try_next_key, rotate_key)
Rotate(c) ==
    /\ call[c].step = "sends"
    /\ Visit(c)
    /\ LET keys == call[c].keys
           others(k) == KeysOf(keys) \ (cool \cup {k})
           first(s) == keys[CHOOSE i \in DOMAIN keys : keys[i] \in s /\ \A j \in 1..i - 1 : keys[j] \notin s]
       IN  IF call[c].rotations >= Len(keys) - 1
           THEN call' = [call EXCEPT ![c].step = "failed"] /\ UNCHANGED cool
           ELSE /\ cool' = cool \cup {Sent(c)}
                /\ IF others(Sent(c)) = {} THEN call' = [call EXCEPT ![c].step = "failed"]
                   ELSE call' = [call EXCEPT ![c] = [@ EXCEPT !.key = first(others(Sent(c))),
                                                           !.rotations = call[c].rotations + 1]]
    /\ UNCHANGED <<pool, jobs, home>>

----------------------------------------------------------------------------
(* Videos *)

\* Mutant of KeyUsed: the key the provider began with
KeyConfigured(c) == call[c].keys[1]

KeyUsed(c) == Sent(c)

\* remember_video, in the same step of the provider: the id and the key's fingerprint
Created(c) ==
    /\ call[c].step = "sends"
    /\ Visit(c)
    /\ call' = [call EXCEPT ![c].step = "created"]
    /\ home' = [home EXCEPT ![VideoOf[c]] = Sent(c)]
    /\ jobs' = [jobs EXCEPT ![<<UserOf[c], VideoOf[c]>>] = KeyUsed(c)]
    /\ UNCHANGED <<pool, cool>>

\* retrieve_video, download_video: with the channel's row as of now
Retrieve(user, video) ==
    /\ Found(user, video)
    /\ visit' = VisitOf(user, video, pool, jobs[<<user, video>>])
    /\ UNCHANGED <<pool, cool, call, jobs, home>>

\* delete_video: what the upstream has deleted is forgotten
Delete(user, video) ==
    /\ Found(user, video)
    /\ visit' = VisitOf(user, video, pool, jobs[<<user, video>>])
    /\ UpstreamKeyFor(pool, jobs[<<user, video>>]) = home[video]
    /\ jobs' = [jobs EXCEPT ![<<user, video>>] = NoUpstreamKey]
    /\ UNCHANGED <<pool, cool, call, home>>

\* A key is done cooling, or an administrator reorders the pool or removes a key of it
Warm(k)   == k \in cool /\ cool' = cool \ {k} /\ visit' = {} /\ UNCHANGED <<pool, call, jobs, home>>
Change    == /\ Len(pool) > 1 /\ pool' \in {Tail(pool), Append(Tail(pool), pool[1])}
             /\ visit' = {} /\ UNCHANGED <<cool, call, jobs, home>>

NextKeys ==
    \/ \E c \in Jobs : \/ \E video \in Videos \cup {NoVideo} : Start(c, video)
                       \/ SelectKey(c) \/ Rotate(c) \/ Created(c)
    \/ \E user \in Users, video \in Videos : Retrieve(user, video) \/ Delete(user, video)
    \/ \E k \in UpstreamKeySet : Warm(k)
    \/ Change

SpecKeys == InitKeys /\ [][NextKeys]_keyVars

----------------------------------------------------------------------------
(* Properties *)

\* "Every later call has to reach the channel and upstream key that created it"
\* (services/video_jobs.py:3): as long as the key that created a video is in the
\* pool, whichever keys were tried before or cool down, each later call for the
\* video is made with it, and only for the API key that created it.
HomeReached ==
    \A v \in visit : home[v.video] \in v.keys =>
        /\ v.key = home[v.video]
        /\ \A c \in Jobs : VideoOf[c] = v.video => UserOf[c] = v.owner

\* "Retry on the same channel with another key" (services/proxy.py:197).  A remix
\* fails this: it is sent again with the key that has just been refused.
OtherKeyTried == [][\A c \in Jobs : call'[c].rotations > call[c].rotations => Sent(c)' # Sent(c)]_keyVars
=============================================================================
