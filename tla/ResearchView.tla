---------------------------- MODULE ResearchView ----------------------------
(***************************************************************************)
(* How one browser tab follows deep research: the hook                     *)
(* use-deep-research.ts with its stream client, the jobs it loads again    *)
(* (use-load-job-data.ts), and the store (store.ts) that binds a job to    *)
(* the conversation it was started in.                                     *)
(*                                                                         *)
(* Every function that awaits an answer of the server is split there: the  *)
(* request is a record, the answer is taken from the server at one moment  *)
(* and applied at a later one, to whatever the store then holds.  React's  *)
(* effects follow the change of the store they depend on at once.  What a  *)
(* job has produced is either shown or not.                                *)
(***************************************************************************)
EXTENDS Naturals, Sequences, FiniteSets, FiniteSetsExt

CONSTANTS
  Chats,      \* the user's conversations
  Jobs,       \* deep research jobs
  None,
  MaxActs     \* bound: clicks, reloads, lost links, errors, expiries

ASSUME ViewAssumption == None \notin Chats \cup Jobs /\ MaxActs \in Nat

VARIABLES
  chat,       \* currentConversation
  busy,       \* isStreaming, which keeps the input and navigation closed
  store,      \* deepResearch...: the job the store holds
  shown,      \* the jobs whose steps, tools, files or citations are shown
  report,     \* the job whose report is shown
  made,       \* the jobs in order of their tracking messages
  home,       \* the conversation of a job's tracking message
  message,    \* deepResearchJobStatus and isDeepResearchActive of it
  banner,     \* the banner of a job
  server,     \* job_info of a job; "gone" once it has expired
  source,     \* clientRef of the hook
  due,        \* the job the effect connects to in 50 ms
  timers,     \* jobs whose abandoned buffers still have a safety timer
  errors,     \* jobs whose onError awaits the health check
  cancels,    \* jobs whose cancel request is under way
  fallbacks,  \* the job cancelled whose interruption is to come within 5 s
  restores,   \* runs of the restorer of providers.tsx
  refresh,    \* refreshDeepResearchSessionStatuses
  loads,      \* runs of loadJobData and importStreamOnly
  refused,    \* a stream was refused for good and nobody was told
  orphaned,   \* research was dropped that held the input closed
  acts

storeVars == <<chat, busy, store, shown, report, made, home, message, banner>>
hookVars2 == <<source, due, timers, errors, fallbacks, cancels>>
taskVars == <<restores, refresh, loads>>
viewVars == <<storeVars, hookVars2, taskVars, server, refused, orphaned, acts>>

Ended == {"success", "failure", "interrupted"}
NoSource == [job |-> None, buf |-> FALSE, held |-> FALSE, link |-> "shut"]
Idle == [job |-> None, live |-> FALSE, status |-> "none", owner |-> None, active |-> None,
         loaded |-> FALSE]
NoRefresh == [on |-> FALSE, todo |-> {}, got |-> [j \in Jobs |-> "asked"]]

ViewInit ==
  /\ chat \in Chats /\ busy = FALSE /\ store = Idle /\ shown = {} /\ report = None
  /\ made = <<>> /\ home = [j \in Jobs |-> None]
  /\ message = [j \in Jobs |-> [status |-> "none", on |-> FALSE]]
  /\ banner = [j \in Jobs |-> "none"] /\ server = [j \in Jobs |-> "none"]
  /\ source = NoSource /\ due = None /\ timers = {} /\ errors = {} /\ fallbacks = {}
  /\ cancels = {}
  /\ restores = {} /\ refresh = NoRefresh /\ loads = {}
  /\ refused = FALSE /\ orphaned = FALSE /\ acts = 0

Act == acts < MaxActs /\ acts' = acts + 1

----------------------------------------------------------------------------
(* The store.                                                               *)

\* The latest of the tracking messages ms that is of one of the jobs js.
Newest(ms, js) ==
  LET own == {k \in DOMAIN ms : ms[k] \in js}
  IN  IF own = {} THEN None ELSE ms[Max(own)]

\* The latest tracking message of a conversation, by its job.
Latest(c) == Newest(made, {j \in Jobs : home[j] = c})

\* The answer of getJobStatus: it may also fail for the moment.
Reply(j) == {server[j]} \cup (IF acts < MaxActs THEN {"error"} ELSE {})
Counted(r) == IF r = "error" THEN Act ELSE UNCHANGED acts

Settled(j, s) == [message EXCEPT ![j] = [status |-> s, on |-> FALSE]]
BannerFor(s) == IF s = "success" THEN "success" ELSE "failure"

\* isOwnerActive
OwnerActive(j) ==
  store.live /\ store.job = j /\ store.owner # None /\ store.owner = chat

\* restoreSessionState of the conversation c.
Restored(c) == [Idle EXCEPT !.job = Latest(c), !.owner = c, !.active = Latest(c)]

----------------------------------------------------------------------------
(* The effects: the hook's on the job and on streaming, the restorer's on   *)
(* the conversation and on streaming.                                       *)

Abandoned == IF source.buf /\ source.held THEN {source.job} ELSE {}

Effect ==
  IF <<store'.job, store'.live>> = <<store.job, store.live>>
  THEN UNCHANGED <<source, due, timers>>
  ELSE /\ source' = NoSource /\ timers' = timers \cup Abandoned
       /\ due' = IF store'.job # None /\ store'.live THEN store'.job ELSE None

\* cleanupOrphanedStartingBanners: the jobs whose banner never ended.
Checking(c, todo) ==
  IF todo = {} THEN {}
  ELSE LET j == CHOOSE i \in todo : TRUE
       IN  {[step |-> "banners", chat |-> c, job |-> j, todo |-> todo \ {j}, got |-> "asked"]}
Starting(c) == {j \in Jobs : home'[j] = c /\ banner'[j] = "starting"}

\* reconnectToActiveJob, then cleanupOrphanedStartingBanners.
Restoring(c) ==
  LET on == Newest(made', {j \in Jobs : /\ home'[j] = c /\ message'[j].on
                                        /\ message'[j].status \in {"submitted", "running"}})
  IN  IF on # None
      THEN {[step |-> "reconnect", chat |-> c, job |-> on, todo |-> {}, got |-> "asked"]}
      ELSE Checking(c, Starting(c))

\* `rs` are the runs that go on.
Restorer(rs) ==
  restores' = rs \cup (IF ~store'.live /\ (store.live \/ chat' # chat) THEN Restoring(chat') ELSE {})

\* Both effects; `busy'` must be settled before.
Effects(rs) ==
  /\ Effect /\ Restorer(rs)
  /\ orphaned' = (orphaned \/ (store.live /\ ~store'.live /\ busy'))

----------------------------------------------------------------------------
(* Starting and leaving research.                                            *)

\* An answer escalates to a job: onResponse and startDeepResearch, which leave
\* the input closed.
Escalates(j) ==
  /\ server[j] = "none" /\ ~busy /\ ~store.live
  /\ \A i \in Jobs : home[i] = chat => ~message[i].on
  /\ busy' = TRUE /\ server' = [server EXCEPT ![j] = "running"]
  /\ made' = Append(made, j) /\ home' = [home EXCEPT ![j] = chat]
  /\ message' = [message EXCEPT ![j] = [status |-> "submitted", on |-> TRUE]]
  /\ banner' = [banner EXCEPT ![j] = "starting"]
  /\ store' = [job |-> j, live |-> TRUE, status |-> "submitted", owner |-> chat,
               active |-> j, loaded |-> FALSE]
  /\ shown' = {} /\ report' = None
  /\ UNCHANGED <<chat, errors, fallbacks, cancels, refresh, loads, refused, acts>>
  /\ Effects(restores)

\* Navigation is open while isStreaming is not set.
Select(c) ==
  /\ Act /\ c # chat /\ ~busy /\ chat' = c
  /\ store' = Restored(c) /\ shown' = {} /\ report' = None
  /\ UNCHANGED <<busy, made, home, message, banner, server, errors, fallbacks, cancels, refresh,
                 loads, refused>>
  /\ Effects(restores)

\* The page is loaded again: messages persist, the rest does not.
Reload ==
  /\ Act /\ busy' = FALSE
  /\ store' = Restored(chat) /\ shown' = {} /\ report' = None
  /\ source' = NoSource /\ due' = None /\ timers' = {} /\ errors' = {} /\ fallbacks' = {}
  /\ cancels' = {}
  /\ refresh' = NoRefresh /\ loads' = {}
  /\ UNCHANGED <<chat, made, home, message, banner, server, refused, orphaned>>
  /\ restores' = Restoring(chat)

\* The COMPLETE frame that follows the answer which has escalated: it opens
\* the input while the research is live, unless its socket is lost.
Completes ==
  /\ busy /\ busy' = FALSE
  /\ UNCHANGED <<chat, store, shown, report, made, home, message, banner, server, hookVars2,
                 taskVars, refused, orphaned, acts>>

\* Stop research: handleStopResearch of the panel sends cancelJob.
Cancel ==
  /\ Act /\ store.live /\ store.job # None
  /\ cancels' = cancels \cup {store.job}
  /\ UNCHANGED <<storeVars, server, source, due, timers, errors, fallbacks, taskVars, refused,
                 orphaned>>

\* The request is refused for a job that does not run, or it or its reply is
\* lost; else a fallback, the only one there is, is set for the case that the
\* stream does not tell.
CancelAnswered(j) ==
  /\ j \in cancels /\ cancels' = cancels \ {j}
  /\ \/ server[j] # "running" /\ UNCHANGED <<server, fallbacks, acts>>
     \/ Act /\ UNCHANGED <<server, fallbacks>>
     \/ /\ server[j] = "running" /\ server' = [server EXCEPT ![j] = "interrupted"]
        /\ \/ fallbacks' = {j} /\ UNCHANGED acts
           \/ Act /\ UNCHANGED fallbacks
  /\ UNCHANGED <<storeVars, source, due, timers, errors, taskVars, refused, orphaned>>

\* Mutant: the message and the banner are settled, isStreaming is not
EndsWithoutRelease(s, j, b) ==
  /\ message' = IF store.owner # None /\ store.active # None THEN Settled(store.active, s) ELSE message
  /\ banner' = [banner EXCEPT ![j] = b]
  /\ UNCHANGED <<busy, chat, made, home>>

\* What every end of live research does to message `active`, to banner and
\* to the flags; a missing owner or message is not patched.
EndsLive(s, j, b) ==
  /\ message' = IF store.owner # None /\ store.active # None THEN Settled(store.active, s) ELSE message
  /\ banner' = [banner EXCEPT ![j] = b]
  /\ busy' = FALSE
  /\ UNCHANGED <<chat, made, home>>

\* It is not taken back when the stream does tell, and finds research ended.
CancelFallback(j) ==
  /\ j \in fallbacks /\ fallbacks' = fallbacks \ {j}
  /\ IF store.live /\ store.job = j
     THEN EndsLive("interrupted", j, "cancelled") /\ store' = [store EXCEPT !.live = FALSE]
     ELSE UNCHANGED <<message, banner, busy, chat, made, home, store>>
  /\ UNCHANGED <<shown, report, server, errors, cancels, refresh, loads, refused, acts>>
  /\ Effects(restores)

----------------------------------------------------------------------------
(* The live stream.                                                          *)

\* A stream started for a job that is known is replayed into a buffer first.
Streams ==
  /\ due # None /\ due' = None
  /\ source' = [job |-> due, buf |-> store.status # "submitted", held |-> FALSE, link |-> "up"]
  /\ timers' = timers \cup Abandoned
  /\ UNCHANGED <<storeVars, server, errors, fallbacks, cancels, taskVars, refused, orphaned,
                 acts>>

\* What the buffer held is shown if its job still owns the view.
Flushed(held, j) == held /\ OwnerActive(j)

StreamData ==
  /\ source.link = "up"
  /\ IF source.buf
     THEN ~source.held /\ source' = [source EXCEPT !.held = TRUE] /\ UNCHANGED <<shown, report, store>>
     ELSE /\ OwnerActive(source.job)
          /\ shown' = shown \cup {source.job} /\ report' \in {report, source.job}
          /\ store' = [store EXCEPT !.status = "running"]
          /\ UNCHANGED source
          /\ <<shown', report', store'>> # <<shown, report, store>>
  /\ UNCHANGED <<chat, busy, made, home, message, banner, server, due, timers, errors, fallbacks,
                 cancels, taskVars, refused, orphaned, acts>>

\* The stream's mode turns to live, or the safety timer is faster.
ReplayCompletes ==
  /\ source.buf /\ source' = [source EXCEPT !.buf = FALSE, !.held = FALSE]
  /\ IF Flushed(source.held, source.job)
     THEN shown' = shown \cup {source.job} /\ report' \in {report, source.job}
     ELSE UNCHANGED <<shown, report>>
  /\ UNCHANGED <<chat, busy, store, made, home, message, banner, server, due, timers, errors,
                 fallbacks, cancels, taskVars, refused, orphaned, acts>>

\* The safety timer of a client that was disconnected meanwhile.
AbandonedFlush(j) ==
  /\ j \in timers /\ timers' = timers \ {j}
  /\ shown' = IF OwnerActive(j) THEN shown \cup {j} ELSE shown
  /\ UNCHANGED <<chat, busy, store, report, made, home, message, banner, server, source, due,
                 errors, fallbacks, cancels, taskVars, refused, orphaned, acts>>

\* job.status of a job that is over; the client closes the stream.
StreamStatus ==
  LET j == source.job  s == server[source.job]
      cancelled == s = "interrupted"
  IN  /\ source.link = "up" /\ ~source.buf /\ s \in Ended
      /\ IF OwnerActive(j)
         THEN /\ EndsLive(s, j, IF cancelled THEN "cancelled" ELSE BannerFor(s))
              /\ store' = [store EXCEPT !.live = FALSE, !.status = s, !.loaded = TRUE]
              /\ Effect
         ELSE /\ source' = [source EXCEPT !.link = "shut"]
              /\ UNCHANGED <<message, banner, busy, chat, made, home, store, due, timers>>
      /\ UNCHANGED <<shown, report, server, errors, fallbacks, cancels, refresh, loads, refused,
                     acts, orphaned>>
      /\ Restorer(restores)

\* The EventSource connects again by itself, from the beginning.
LinkDrops ==
  /\ Act /\ source.link = "up" /\ source' = [source EXCEPT !.link = "down"]
  /\ UNCHANGED <<storeVars, server, due, timers, errors, fallbacks, cancels, taskVars, refused,
                 orphaned>>
Relinks ==
  /\ source.link = "down" /\ source' = [source EXCEPT !.link = "up"]
  /\ UNCHANGED <<storeVars, server, due, timers, errors, fallbacks, cancels, taskVars, refused,
                 orphaned, acts>>

\* What is left of a stream: the buffer is flushed and the source dropped.
Drops ==
  /\ source' = [source EXCEPT !.link = "shut", !.buf = FALSE, !.held = FALSE]
  /\ IF source.buf /\ Flushed(source.held, source.job)
     THEN shown' = shown \cup {source.job} ELSE UNCHANGED shown
  /\ UNCHANGED <<chat, busy, store, report, made, home, message, banner, server, due, timers,
                 fallbacks, cancels, taskVars, orphaned>>

\* Any answer but a stream closes the source for good: onDisconnect.
Refuses ==
  /\ source.link \in {"up", "down"} /\ refused' = TRUE
  /\ Drops /\ UNCHANGED errors
RefusesOnce == Act /\ Refuses
JobMissing == source.job # None /\ server[source.job] = "gone" /\ Refuses /\ UNCHANGED acts

\* MAX_RECONNECT_ATTEMPTS are used up: onError, which awaits a health check.
GivesUp ==
  /\ Act /\ source.link = "down"
  /\ errors' = IF OwnerActive(source.job) /\ store.status \notin {"interrupted", "failure"}
               THEN errors \cup {source.job} ELSE errors
  /\ Drops /\ UNCHANGED refused

\* It goes on with the owner, the message and the client there are by then.
HealthAnswers(j) ==
  /\ j \in errors /\ errors' = errors \ {j}
  /\ EndsLive("failure", j, "failure")
  /\ store' = [store EXCEPT !.live = FALSE, !.loaded = TRUE]
  /\ IF store.live THEN Effect
     ELSE source' = [source EXCEPT !.link = "shut"] /\ UNCHANGED <<due, timers>>
  /\ Restorer(restores)
  /\ UNCHANGED <<shown, report, server, fallbacks, cancels, refresh, loads, refused, orphaned,
                 acts>>

----------------------------------------------------------------------------
(* Restoring research: the two functions of the restorer.                    *)

RestoreAnswers(t) ==
  /\ t.got = "asked"
  /\ \E r \in Reply(t.job) :
        /\ Counted(r)
        /\ restores' = (restores \ {t}) \cup {[t EXCEPT !.got = r]}
  /\ UNCHANGED <<storeVars, server, hookVars2, refresh, loads, refused, orphaned>>

\* After reconnectToActiveJob: the banners of the current conversation.
Then(t) == (restores \ {t}) \cup Checking(chat, Starting(chat))

\* The store while the reply was under way: conversation and streaming are
\* looked at again.
Reconnects(t) ==
  /\ t.step = "reconnect" /\ t.got # "asked"
  /\ IF t.got \in {"gone", "error"}
     THEN /\ message' = IF t.got = "gone" THEN Settled(t.job, "failure")
                        ELSE [message EXCEPT ![t.job].on = FALSE]
          /\ banner' = IF t.got = "gone" THEN [banner EXCEPT ![t.job] = "failure"] ELSE banner
          /\ UNCHANGED <<store, shown, report>>
     ELSE IF chat # t.chat \/ store.live THEN UNCHANGED <<message, banner, store, shown, report>>
     ELSE IF t.got = "running"
     THEN /\ store' = [job |-> t.job, live |-> TRUE, status |-> "running", owner |-> chat,
                       active |-> t.job, loaded |-> FALSE]
          /\ shown' = {} /\ report' = None /\ UNCHANGED <<message, banner>>
     ELSE /\ message' = Settled(t.job, t.got)
          /\ banner' = [banner EXCEPT ![t.job] = BannerFor(t.got)]
          /\ UNCHANGED <<store, shown, report>>
  /\ UNCHANGED <<chat, busy, made, home, server, errors, fallbacks, cancels, refresh, loads,
                 refused, acts>>
  /\ Effects(Then(t))

ChecksBanner(t) ==
  /\ t.step = "banners" /\ t.got # "asked"
  /\ LET s == IF t.got = "gone" THEN "failure" ELSE t.got
     IN  IF s \in Ended
         THEN /\ message' = Settled(t.job, s) /\ banner' = [banner EXCEPT ![t.job] = BannerFor(s)]
         ELSE UNCHANGED <<message, banner>>
  /\ restores' = (restores \ {t}) \cup (IF chat = t.chat THEN Checking(chat, t.todo) ELSE {})
  /\ UNCHANGED <<chat, busy, store, shown, report, made, home, server, hookVars2, refresh, loads,
                 refused, orphaned, acts>>

----------------------------------------------------------------------------
(* refreshDeepResearchSessionStatuses, when the session list opens.          *)

RefreshStarts ==
  /\ Act /\ ~refresh.on
  /\ LET js == {Latest(c) : c \in Chats} \ {None}
     IN  js # {} /\ refresh' = [NoRefresh EXCEPT !.on = TRUE, !.todo = js]
  /\ UNCHANGED <<storeVars, server, hookVars2, restores, loads, refused, orphaned>>

RefreshReads(j) ==
  /\ j \in refresh.todo
  /\ \E r \in Reply(j) :
        /\ Counted(r)
        /\ refresh' = [refresh EXCEPT !.todo = @ \ {j}, !.got[j] = r]
  /\ UNCHANGED <<storeVars, server, hookVars2, restores, loads, refused, orphaned>>

\* The replies, read one after the other, are applied together; research the
\* store holds and that is over leaves the store.
RefreshApplies ==
  LET known == {j \in {Latest(c) : c \in Chats} \ {None} : refresh.got[j] \notin {"asked", "error"}}
      over == {j \in known : refresh.got[j] # "running"}
      After(j) == IF refresh.got[j] = "running" THEN [status |-> "running", on |-> TRUE]
                  ELSE [status |-> IF refresh.got[j] = "gone" THEN "failure" ELSE refresh.got[j],
                        on |-> FALSE]
      lapsed == {j \in known : refresh.got[j] = "gone" /\ message[j].status = "success"}
  IN  /\ refresh.on /\ refresh.todo = {} /\ refresh' = NoRefresh
      /\ message' = [j \in Jobs |-> IF j \in known THEN After(j) ELSE message[j]]
      /\ banner' = [j \in Jobs |-> IF j \in lapsed THEN "expired" ELSE banner[j]]
      /\ IF store.job \in over THEN store' = Idle /\ shown' = {} /\ report' = None
         ELSE UNCHANGED <<store, shown, report>>
      /\ UNCHANGED <<chat, busy, made, home, server, errors, fallbacks, cancels, loads, refused,
                     acts>>
      /\ Effects(restores)

----------------------------------------------------------------------------
(* Loading a finished job: loadJobData (its report alone, or its stream) and *)
(* importStreamOnly, from a banner, a message or the panel.                  *)

\* Mutant: a load is applied to whatever conversation is open
ScopeAlwaysCurrent(t) == t.chat \in Chats

\* isJobLoadScopeCurrent: the conversation of the click is the current one.
ScopeCurrent(t) == chat = t.chat

LoadStarts(j, full) ==
  /\ Act /\ home[j] = chat /\ banner[j] \notin {"none", "starting"}
  /\ ~(store.job = j /\ (report = j \/ store.loaded))
  /\ loads' = loads \cup {[job |-> j, chat |-> chat, full |-> full, step |-> "status", got |-> "asked"]}
  /\ UNCHANGED <<storeVars, server, hookVars2, restores, refresh, refused, orphaned>>

LoadAnswers(t) ==
  /\ t.step = "status" /\ t.got = "asked"
  /\ \E r \in Reply(t.job) :
        /\ Counted(r)
        /\ loads' = (loads \ {t}) \cup {[t EXCEPT !.got = r]}
  /\ UNCHANGED <<storeVars, server, hookVars2, restores, refresh, refused, orphaned>>

\* The catch of both: live research, whose ever, is called complete.
LoadFails(t, missing) ==
  /\ message' = IF missing THEN Settled(t.job, "failure") ELSE message
  /\ banner' = IF missing
               THEN [banner EXCEPT ![t.job] = IF @ \in {"success", "expired"} THEN "expired" ELSE @]
               ELSE banner
  /\ store' = [store EXCEPT !.live = FALSE] /\ busy' = FALSE
  /\ UNCHANGED <<shown, report>>

LoadClears(t) ==
  /\ t.step = "status" /\ t.got # "asked"
  /\ \/ /\ ~ScopeCurrent(t) /\ loads' = loads \ {t}
        /\ UNCHANGED <<message, banner, store, busy, shown, report>>
     \/ /\ ScopeCurrent(t) /\ t.got \in Ended
        /\ loads' = (loads \ {t}) \cup {[t EXCEPT !.step = "data"]}
        /\ store' = [Idle EXCEPT !.status = t.got] /\ shown' = {}
        /\ UNCHANGED <<message, banner, busy, report>>
     \/ /\ ScopeCurrent(t) /\ t.got = "error" /\ loads' = loads \ {t}
        /\ \/ LoadFails(t, FALSE)
           \/ UNCHANGED <<message, banner, store, busy, shown, report>>
     \/ /\ ScopeCurrent(t) /\ t.got \in {"gone", "running"} /\ loads' = loads \ {t}
        /\ LoadFails(t, t.got = "gone")
  /\ UNCHANGED <<chat, made, home, server, errors, fallbacks, cancels, refresh, refused, acts>>
  /\ Effects(restores)

\* The job's state and report, or its stream, have arrived.
LoadShows(t) ==
  /\ t.step = "data" /\ loads' = loads \ {t}
  /\ IF ScopeCurrent(t)
     THEN /\ shown' = IF t.full THEN {t.job} ELSE shown \cup {t.job}
          /\ report' \in {report, t.job}
          /\ store' = [store EXCEPT !.job = t.job, !.loaded = @ \/ t.full]
     ELSE UNCHANGED <<shown, report, store>>
  /\ UNCHANGED <<chat, busy, made, home, message, banner, server, errors, fallbacks, cancels,
                 refresh, refused, acts>>
  /\ Effects(restores)

\* The stream of the load breaks: what has come of it is shown.
LoadBreaks(t) ==
  /\ Act /\ t.step = "data" /\ t.full /\ loads' = loads \ {t}
  /\ IF ScopeCurrent(t)
     THEN /\ shown' = {t.job} /\ report' \in {report, t.job}
          /\ store' = [store EXCEPT !.live = FALSE] /\ busy' = FALSE
     ELSE UNCHANGED <<shown, report, store, busy>>
  /\ UNCHANGED <<chat, made, home, message, banner, server, errors, fallbacks, cancels, refresh,
                 refused>>
  /\ Effects(restores)

----------------------------------------------------------------------------
(* The server.                                                               *)

JobEnds(j) ==
  /\ server[j] = "running"
  /\ \E s \in {"success", "failure"} : server' = [server EXCEPT ![j] = s]
  /\ UNCHANGED <<storeVars, hookVars2, taskVars, refused, orphaned, acts>>

JobExpires(j) ==
  /\ Act /\ server[j] \in Ended /\ source.job # j
  /\ server' = [server EXCEPT ![j] = "gone"]
  /\ UNCHANGED <<storeVars, hookVars2, taskVars, refused, orphaned>>

----------------------------------------------------------------------------

Follows ==
  \/ Streams \/ ReplayCompletes \/ StreamStatus \/ Relinks \/ JobMissing
  \/ \E j \in Jobs : HealthAnswers(j) \/ CancelAnswered(j) \/ CancelFallback(j)
Async ==
  \/ \E t \in restores : RestoreAnswers(t) \/ Reconnects(t) \/ ChecksBanner(t)
  \/ RefreshApplies \/ \E j \in Jobs : RefreshReads(j)
  \/ \E t \in loads : LoadAnswers(t) \/ LoadClears(t) \/ LoadShows(t)
Clicks ==
  \/ Reload \/ Cancel \/ RefreshStarts
  \/ \E j \in Jobs : Escalates(j)
  \/ \E c \in Chats : Select(c)
  \/ \E j \in Jobs, full \in BOOLEAN : LoadStarts(j, full)
Outside ==
  \/ Completes \/ StreamData \/ LinkDrops \/ RefusesOnce \/ GivesUp
  \/ \E j \in Jobs : AbandonedFlush(j) \/ JobExpires(j)
  \/ \E t \in loads : LoadBreaks(t)

ViewNext == Follows \/ Async \/ Clicks \/ Outside \/ \E j \in Jobs : JobEnds(j)

\* Timers elapse, requests are answered, an EventSource that is not refused
\* connects again, and jobs end (they are cancelled or reaped otherwise).
ViewFairness ==
  /\ WF_viewVars(Follows) /\ WF_viewVars(Async)
  /\ WF_viewVars(\E j \in Jobs : JobEnds(j))

----------------------------------------------------------------------------

\* The variables have their types.
ViewTypeOK ==
  /\ chat \in Chats /\ {busy, refused, orphaned} \subseteq BOOLEAN
  /\ store.job \in Jobs \cup {None} /\ store.live \in BOOLEAN
  /\ store.status \in {"none", "submitted", "running"} \cup Ended
  /\ store.owner \in Chats \cup {None} /\ store.active \in Jobs \cup {None}
  /\ shown \subseteq Jobs /\ report \in Jobs \cup {None}
  /\ \A j \in Jobs : message[j].status = "none" <=> home[j] = None
  /\ source.job \in Jobs \cup {None} /\ due \in Jobs \cup {None}
  /\ timers \cup errors \cup fallbacks \cup cancels \subseteq Jobs
  /\ acts \in 0..MaxActs

\* Whatever is loaded, restored or replayed while the user moves on, the
\* view shows nothing but research of the conversation that is open.
ViewStaysInChat == \A j \in shown \cup ({report} \ {None}) : home[j] = chat

\* The input, closed when research starts, which has to be opened again, unless
\* the stream is refused or the end of research is noticed by somebody else.
InputClosed == busy /\ ~orphaned /\ ~refused
=============================================================================
