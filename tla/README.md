# A verification project for chat_app

chat_app is a chat system: a Flutter client, a C++ gateway it talks to over
WebSocket (`gateway_server`: `gateway_main.cpp`, `websocket_server.cpp`,
`http_gateway.cpp`), an older TCP server (`chat_server`: `main.cpp`, `server.cpp`,
`session.cpp`), a media server, and the managers and the MySQL layer they share.
`start_servers.sh` starts the gateway, so the WebSocket path is the deployed one
and is modelled first.

Paths below are relative to `src/server/src` unless they say otherwise.

## 1. Inventory

| Component | State | Operations | Hard behaviour | What makes it correct |
|---|---|---|---|---|
| WebSocket gateway: `WebSocketServer`, `WsConnection`, login, message and disconnect handlers | `connections_` (descriptor to connection), `user_connections_` (account to connection), `running_`; per connection `socket_`, `closed_`, `user_id_`; per handler thread a copy of the descriptor; online status in the database | accept, handshake, receive, login (with kick), private message, cleanup, heartbeat sweep, stop | one detached thread per connection, each may close any other's connection; descriptor numbers are reused; cleanup of an old connection races the login that replaced it | a descriptor is closed once and by whoever owns it; bytes reach the thread of their own connection; tables never mislead about a live connection; cleanup always ends |
| `ThreadPoolV2` (`thread_pool_v2.cpp`) | priority queue, `workers_`, `active_workers_`, `stopped_`, two condition variables | `enqueue` (four rejection policies), `try_enqueue`, `enqueue_and_wait`, `worker`, `wait_all`, `clear_queue`, `stop` | atomics changed and notifications sent outside the mutex; one condition variable for two kinds of waiter; threads added while stopping | no worker sleeps on work; no caller sleeps for nothing; limits; accepted work is done; `stop` ends |
| Flutter connection: `WebSocketService`, `ChatService` | channel, connected and connecting flags, reconnect timer and back-off, heartbeat timer and missed count, stored credentials | connect, reconnect, heartbeat, login, automatic login, kicked | callbacks of an old channel arrive after a new one is open; timer races the user | an app that wants a connection keeps trying; a kicked device stays off |
| TCP server and sessions (`server.cpp`, `session.cpp`) | `sessions_` (user id or temporary id to session), write queue of each session | accept, register, login, logout, heartbeat sweep, send, `do_write`, close | a session runs before it is registered; its frames are handled in parallel; a lock taken twice; writes that overlap | no open session is lost from the table; silent sessions end; replies whole and in order |
| Database (`database.cpp`) | one connection, one mutex | about a hundred statements, reconnect | reconnect inside a locked call; operations of several statements without a transaction | no self-deadlock; no half-done friendship |
| Database pool (`database_pool.cpp`) | idle queue, all connections, limits | acquire, release, cleanup, health check, shutdown | timeouts racing releases; invalid connections dropped without a notification | limits; waiters served |
| Groups (`group_manager.cpp` and the group requests of the gateway) | the tables `groups` and `group_members` | create, invite, leave, remove, set admin, transfer, dismiss | each request asks and then writes in separate critical sections, on several threads; a failed question counts as a no | the owner is a member, memberships are of groups that exist, ownership and rights pass only by those who have them |
| Friends, users, messages (managers) | rows of the database | request, accept, remove; register, login, password | check-then-act over several critical sections | friendship is symmetric |
| Push tokens (`jpush_manager.cpp`, `fcm_manager.cpp`) | token cache | register, look up, remove | a stale fill after an update | cache agrees with the table |
| Bots (`bot_manager.cpp`, `deepseek_client.cpp`, `js_bot.cpp`) | conversations, counters | ask, `/new`, limit | references used after unlock; a limit that its own remedy cannot pass | a user can always start a new conversation |
| HTTP gateway, media server | routes, files | upload, download | little state | not modelled: parsing and file input and output |

## 2. Plan

The modules, in the order in which they were written; each component has its
module, a `...Claims` module with the statements the code refutes, a `...Proofs`
module and an `MC...` module for TLC:

1. `WsGateway`, the deployed path.
2. `ThreadPool`, which implements the abstract `TaskPool`.
3. `ClientReconnect`: the Flutter connection against an abstract gateway, with
   two devices of one account to show the kick war.
4. `Groups`.
5. `DatabasePool`, which implements the abstract `Leases`.
6. `Friends`, which implements the abstract `SocialGraph` until the first clash.
7. `SessionWrite` and `Sessions`, the TCP server.

They meet at narrow places. The requests of `Groups` and `Friends` run on the
handler threads of `WsGateway` or on the pool threads of `Sessions`; each of
those modules therefore lets any number of requests overlap in any order, which
is all it needs to know of the others. `ClientReconnect` keeps of the gateway
what a client can see. The pool whose threads `Sessions` has in `Threads` is
`ThreadPool`. What `Sessions` sends goes through `SessionWrite`.

The list of runs is short: one for the safety properties of a component, one for
liveness where it needs an instance of its own, and one refuted promise
(`WsClaimOneLogin`). The other refuted statements have configurations beside the
runs, named `...Claims.cfg`: a configuration lists the claims of a module, one
active and the others commented out, and TLC finds a counterexample to each in
seconds. They are left out of the list of runs for its length only.

## 3. WsGateway

`WsGateway.tla` models `websocket_server.cpp` and the handlers of
`gateway_main.cpp` that touch connections.

A member of `Conns` is a client's TCP connection, the `WsConnection` object made
for it and the thread of `handle_new_connection` that serves it. The other
threads are `Heartbeat`, `Main` (the signal handler, which runs `stop()`) and the
accept thread. One action is one critical section of `conn_mutex_`, one database
call, one system call, or one unsynchronised access to a field another thread
uses. `close()` takes two steps: it gives the descriptor back to the kernel and
only then clears `socket_`; `closed_` decides who may be inside. The kernel hands
out any free number, so numbers are reused, and `poll`, `recv` and `send` act on
whoever has the number now.

| TLA+ | Code |
|---|---|
| `owner` | the kernel's descriptor table |
| `peer` | what the client does: it reads what it is sent, stalls (a `::send` to it may block), or is gone |
| `PollTimeout`, `PollHangup`, `PollReady`, then `RecvBlock`, `RecvEnd`, `Receive` | `poll` and `recv` of `handle_new_connection`, two calls on a copied number |
| `LoginLookup`, `KickSend`, `LoginKick`, `LoginBind`, `AddConnection`, `LoginFinish` | `handle_login`, with the send of `"kicked"` on the number `send_raw` loaded |
| `isClosed`, `sock`, `uid` | `closed_`, `socket_`, `user_id_` |
| `lfd`, `want`, `other`, `wfd` | locals of a handler thread: `client_socket`, the account of the request, `existing_conn` or `receiver_conn`, the number `send_raw` loaded |
| `connections`, `userConns`, `running` | `connections_`, `user_connections_`, `running_` |
| `closing`, `closeStep` | whose `close()` a thread is inside of, and where |
| `hbPc`, `hbSet`, `hbCur` | `heartbeat_loop`, its `to_remove` and the connection in hand |
| `Accept` ... `OnDisconnect` | `accept_loop`, `handle_new_connection`, `handle_receive`, `handle_login`, `handle_private_message`, `remove_connection`, `on_disconnect` |
| `HbWake` ... `HbNext`, `StopBegin` ... `StopClear` | `heartbeat_loop`, `signal_handler` and `stop` |

Abstractions: a frame is a login, a private message, any other request (answered
or not), a Close frame, or garbage; a write to a client that is gone may fail; a
write to one that is there succeeds, but may take for ever when the client
stalls; the clock may declare any listed connection
silent. The memory of `recv_buffer_` is one frame at a time.

Properties:

- `TypeOK`: types, the locals a handler dereferences, and a descriptor number
  exactly while open or closing.
- `ClosesOwnDescriptor`: no descriptor is closed under another connection's feet.
- `DescriptorTableRight`: `connections_` never names someone else under a live
  connection's number.
- `OwnBytesOnly`: a thread whose number was reused never parses the stranger's
  bytes. It does take them from the kernel; `closed_` makes it discard them.
- `RouteDropsOnlyDead`, `NoRouteAfterExit`: an account's route goes with its
  connection, no earlier and, for the account last logged in, no later.
- `ConnectionsEnd`: cleanup ends and the descriptor is returned. Two things only
  are excepted, because the code does not prevent them. A client that stops
  reading (`Stalling`) may hold up whoever sends to it, and the sweep pings with
  `conn_mutex_` held. And a thread whose number changed hands between `poll` and
  `recv` may stay in `recv` on the new owner's socket (`"stranded"`): it keeps its
  thread, but no descriptor.
- `DescriptorInv`: the inductive strengthening the proofs use.

Runs:

| Run | Instance | Shows |
|---|---|---|
| `WsGatewaySafety` | 2 connections, 1 account, 2 numbers, 2 requests in all, sweep | the safety properties; the types are checked within `DescriptorInv`. Two connections are a kicker and a kicked, each also sender and receiver, and two requests are a login and a later login or message that meets its cleanup |
| `WsGatewayStop` | the same with 1 number, and SIGINT | the inductive invariant, and with it the descriptor properties, while `stop()` clears and closes what the handlers and the sweep still use; one number makes every connection after the first a reuse |
| `WsGatewayLive` | 2 connections, 1 account, 1 number, 1 request, sweep, 1 client that may stall | `ConnectionsEnd`. One number makes the second connection a reuse, which is what strands a thread. One account, because a client that changes accounts on one connection leaves a route, and so a reference, behind for ever |

Fairness (`Fairness`): a thread that can step does, except that a `::send` to a
client that stalls (`Blocks`) need not return, nor a `recv` that found nothing to
read; so `Unlocked`, `SweepPings` and the steps of the heartbeat and of `stop()`
are weakly fair only where the code cannot block. `conn_mutex_` is free for
`heartbeat_interval` seconds between sweeps, so a waiting thread gets it (strong
fairness of `Locked`); a client that closed has sent finitely many bytes, so its
end of file is seen by `poll` or by the `recv` that waits for it (strong fairness
of `SeesEnd`). Nothing makes a client connect, read, send or close, and nothing
wakes a stranded thread.

Refuted promises (`WsGatewayClaims`): `OneLiveLogin` is a run of the project.
From `WsClaims.cfg`: `StatusFollowsLogin` (the OFFLINE write of a replaced
connection comes after the ONLINE write of the new login), `ReceiverGetsIt`
(`send_raw` writes to a number that was closed and handed to another client after
it tested `closed_`), `SweptIsRemoved` (the sweep closes before it removes, and
`remove_connection` erases by a `socket_` that is -1 by then), `ServedIsListed`
(in the window before -1 is written it may erase a new connection's entry, which
the heartbeat then never sees) and `RoutesAreLive` (changing account on one
connection leaves the first account's route, so messages to it are dropped and no
push is sent). From `WsClaimsLive.cfg`: `StopCompletes` (closing the listening
socket does not wake `accept`), `NotStuckInRecv` (a connection is closed and its
number reused between `poll` and `recv`: the one-second timeout of `poll` does
not bring the thread back to its loop) and `StalledAlone` (a client that does not
read holds up the sweep, and with it the end of the others).

## 4. ThreadPool

`ThreadPool.tla` models `thread_pool_v2.cpp` whole. A member of `Tasks` is a task
and the thread that submits it; a step is one critical section of `mutex_` or one
access to an atomic outside it. Sleeping on a condition variable is a state that
only a notification leaves, after which the predicate is evaluated again.
`wait_all` evaluates its predicate and sleeps in two steps, with the mutex held
between them, because `active_workers_` changes outside the mutex. Statistics
other than the counters that steer the pool are left out.

`TaskPool.tla` is what the pool promises about tasks, with no threads, mutexes or
notifications: a task is taken or turned away once, of those that wait the most
urgent starts next, at most so many wait and run, and one that is done or gone
never comes back. `ImplementsTaskPool` maps the queue to `waiting`, the tasks of
busy workers to `running`, and to `gone` what was answered and is in no place of
the pool. A submission stays open (`Submitting`) until its caller is answered,
which with `BLOCK` or dynamic threads is several critical sections after its
beginning; all of those but one must be stutters.

- `NobodySleepsOnWork`: queued tasks have a worker on its way to them, and once
  `stop()` has notified, no worker and no caller sleeps.
- `BlockedForAReason`: a blocked caller sleeps only while the queue is full or a
  notification is still to come.
- `NothingLost`: what was accepted is queued, in a worker's hands, or done.
- `QueuedRuns`, `BlockedReturns`, `StopReturns`: what must end does.
- `WithinLimits`: the queue and the number of threads keep their bounds. It is
  proved only; the refinement checks the bounds it puts on waiting and running.

| Run | Instance | Shows |
|---|---|---|
| `PoolSafety` | 3 tasks, two of one priority, queue of 1, 1 to 2 threads, all policies and calls | `TypeOK`, `NobodySleepsOnWork`, `ImplementsTaskPool` |
| `PoolLive` | the same tasks, `BLOCK`, 2 threads from the start, `stop` | `BlockedForAReason`, `NothingLost`, `QueuedRuns`, `BlockedReturns`, `StopReturns` |

Three tasks and a queue of one give one task running, one queued and one blocked;
two threads race on it. `PoolLive` fixes the number of threads, because with
dynamic threads `stop()` may terminate the process (`StopEndsThreads`), and makes
no call of `clear_queue`, which strands blocked callers (`RoomIsSeen`). Fairness:
threads are scheduled and tasks end.

Refuted promises (`ThreadPoolClaims`). From `PoolClaimsLive.cfg`: `WaitAllReturns`
(the notification comes between the test and the sleep of `wait_all`),
`AwaitComesBack` (`enqueue_and_wait` ignores a rejection) and `RoomIsSeen`
(`clear_queue` notifies nobody). From `PoolClaims.cfg`: `StopEndsThreads` (an
`enqueue` that passed its test of `stopped_` starts a thread that `stop()` never
joins, or that is destroyed joinable), `LowestDiscarded` (`DISCARD_OLDEST` pops
the most urgent task) and `CallerRunsIt` (`CALLER_RUNS` calls a moved-from
function).

## 5. ClientReconnect

`ClientReconnect.tla` models `websocket_service.dart` and the login, automatic
login, kick and logout of `chat_service.dart` (both under
`src/client/chat_app/lib/services`), for any number of devices logged in to one
account. Dart runs one callback at a time, so a step is the code between two
awaits, or one callback. The hard part is that callbacks do not know which
channel they belong to: `connect()` replaces `_channel` without cancelling the
old subscription or a running reconnect timer. So every channel keeps its own
state here (`net`, `holder`, `listening`, `inbox`, `req`), and a device may have
several.

| TLA+ | Code |
|---|---|
| `chan`, `connected`, `connecting`, `timer`, `beating`, `missed`, `creds` | `_channel`, `_isConnected`, `_isConnecting`, `_reconnectTimer`, `_heartbeatTimer`, `_missedHeartbeats`, the saved user name and password |
| `shown`, `authed`, `waiting` | `ChatService._isConnected`, `_isAuthenticated`, a `login()` that waits for its response |
| `UserConnect`, `TimerFires`, `ConnectReady`, `ConnectFails` | `connect` up to and after its await, called by a screen or by `_scheduleReconnect` |
| `Abandoned`, `LateOpens`, `LateEnds` | the channel of an attempt that timed out: `connect` neither closes nor cancels it, so it may open later, with nobody listening |
| `Done`, `LoginOk`, `Kicked`, `HeartbeatResponse` | `onDone`/`onError` with `_handleDisconnect`, and the messages |
| `HeartbeatTimeout` | the timer of `_sendHeartbeat` |
| `UserLogin`, `LoginGivesUp`, `UserLogout` | `login`, `logout` |
| `route`, `known`, `GatewayLogin`, `GatewayCloses` | what `handle_login` and a Close frame do to a client |
| `Drop`, `left` | faults of the network, each kind with a bound |

Abstractions: delays (back-off, timeouts) are left to the interleaving, except
that a login on its way reaches the gateway before a heartbeat is given up; the
user knows the password; a channel's name is used again when both ends are done
with it, which for an abandoned channel may be at any time. `disconnect()` is left out: no screen calls it.

- `KeepsTrying`: an app that was started and is not connected has an attempt or
  the timer under way, although the timer gives up silently when it meets an
  attempt (`connect` returns at once) and nothing reschedules it.
- `ConnectedHears`: an app that holds itself connected listens on its present
  channel, so it will hear of its end.
- `NeverKicksItself`: as long as no heartbeat is lost to the limit, no screen
  connects while the timer runs and nobody logs in twice on one connection
  (`calm`), a device listens to one live channel at most, and a login makes the
  gateway kick only the connection of another device. Channels of attempts that
  timed out may be live beside it; they never log in.
- `Reconnects`: it is connected again and again.
- `SettlesWhenCalm`: it ends up connected for good, under the
  same condition. It is needed: see `Settles` below.

| Run | Instance | Shows |
|---|---|---|
| `ClientLive` | 1 device, 2 channels, 2 misses allowed, 1 drop, 1 attempt refused or timed out, 3 lost heartbeats, 2 logins or logouts | the above. Two channels are an old or abandoned one and its replacement, which is what overlapping takes; a third attempt may take the name of an abandoned channel, so no retry is kept waiting by one; three lost heartbeats reach the limit and leave one for the next connection; the refusal and the heartbeats end connections besides the drop |

Fairness: timers fire, an attempt ends, messages and closes arrive, the gateway
serves what it gets. Nothing makes the user act or an abandoned channel open or
end, and faults are finite.

Refuted promises (`ClientReconnectClaims`). From `ClientClaims.cfg`: `Settles` (one
dropped connection and a screen that connects before the timer fires give two
connections; the automatic login of the second makes the gateway kick the first,
whose `onDone` marks the app disconnected and arms the timer, and so on for
ever), `OneConnection` (an attempt times out, its channel opens after all, and the
retry makes a second live connection that nobody closes) and `IdleStays` (the gateway answers no heartbeat before a login, so an
app at its login screen reconnects every few minutes). From
`ClientClaimKicks.cfg`: `KicksEnd` (two devices kick each other for ever, because
a kick keeps the saved credentials).

## 6. Groups

`Groups.tla` models the requests of `gateway_main.cpp` that change a group, as
`group_manager.cpp` carries them out on the tables `groups` and `group_members`
(`database.cpp`). Every call of `Database` holds its mutex from the first
statement to the last, so it is one step; a request is several calls, and those
of other connections' threads run in between. `req[t]` is the request a thread
has in hand and the next call it makes.

| TLA+ | Code |
|---|---|
| `owner`, `member`, `admin` | the rows of `groups`, of `group_members`, and those with `is_admin` |
| `InviteBegin`, `LeaveBegin`, `KickBegin`, `AdminBegin`, `TransferBegin`, `DismissBegin` | the handlers of the gateway; an invitation carries several users and calls `join_group` for each |
| `Ask` and the actions made of it | `get_group_by_id`, `is_group_owner`, `is_group_admin`, `is_group_member`, and the early returns on their answers |
| `CreateGroup`, `JoinAdd`, `Remove`, `SetAdmin`, `TransferSet`, `DismissDelete` | the writing calls, with the foreign key, the unique key and the WHERE clauses they rely on |
| `Fault` | a statement that fails: a question is then answered with no, a write stops at it, and a second write is made although the one before failed (`transfer_group_owner`, whose later two may also fail together) |
| `clash` | history only: whether a statement has failed, and whether two requests for one group were under way together |

Left out: names and descriptions, the empty name that `create_group` refuses,
the replies and notifications, the lists (`get_group_members` reads without the
mutex; a statement it disturbs fails, which `Fault` covers), and an invitation
that names a user twice.

- `MembersLive` and `HandedByOwner` hold whatever overlaps and fails: the foreign
  key and the `AND owner_id =` of the UPDATE decide when the write is made, not
  the question asked before it.
- `OwnerIsMember` and `ByRight` need `clash = {}`: they say that the requests by
  themselves are right. Without the condition they are wrong: see below.

| Run | Instance | Shows |
|---|---|---|
| `GroupsSafety` | 2 threads, 3 users, 1 group, 1 failing statement, any number of requests | the five properties. Groups do not interact, two requests are what overlapping takes, and three users are an owner, an admin and the one they act on; threads and users are interchangeable, and no property tells them apart, so their symmetry is used |

Refuted promises (`GroupsClaims`), from `GroupClaims.cfg`: `NewOwnerIsMember`
(the member a group is transferred to leaves between
the question and the UPDATE, and the group has an owner who is no member) and
`OwnerStays` (the query of `is_group_owner` fails and
`leave_group` lets the owner go). Safety only: a request is a straight line of
calls and nothing waits.

## 7. DatabasePool

`DatabasePool.tla` models `database_pool.cpp` whole, except its statistics and
the queries made on a connection. A step is one critical section of `mutex_`:
connecting and pinging happen inside it, and whether they succeed is the
environment's choice, as is the moment a deadline passes. `acquire()` sleeps on
`cv_`; a notification moves one sleeper to `"told"`, and anybody may take the
mutex before it does.

| TLA+ | Code |
|---|---|
| `all`, `idle` | `all_connections_`, `idle_connections_` |
| `held`, `wait` | what `acquire()` returned to a thread, and where the thread waits |
| `health`, `shut` | the health-check thread, `shutdown_` and how far `shutdown()` is |
| `missed` | history only: a notification reached a waiter whose deadline had passed, or was not sent |
| `PoolInit`, `Acquire`, `Resume`, `ResumeShut`, `Late`, `Timeout`, `TryAcquire`, `TryAcquireFails` | `init`, `acquire` and `try_acquire` |
| `ReleaseValid`, `ReleaseInvalid`, `ReleaseShut`, `Cleanup`, `HealthExit` | `release`, `cleanup_idle_connections`, `health_check_loop` |
| `Shutdown`, `ShutdownNotify`, `ShutdownClear` | the three parts of `shutdown` |

`Leases.tla` is what the pool promises: each connection to one borrower at a
time, never more than the limit. `ImplementsLeases` is the refinement, with
`lent` the connections the threads hold.

| Run | Instance | Shows |
|---|---|---|
| `DbPool` | 4 threads, 3 connection objects, 1 to 2 connections | `Accounted` (nothing lent twice, nothing counted for ever), `WithinMax`, `EnoughTold` (sleepers beside idle connections have as many notified threads on their way; after the notification of `shutdown()` nobody sleeps), `ImplementsLeases`, and `ShutdownWakes` |

Two connections and four threads give two holders, a sleeper and a newcomer that
overtakes a notified thread; the third object is the one a dead connection is
replaced by. Fairness: a notified thread gets the mutex, and `shutdown()` goes on.
No client need give a connection back.

Refuted (`DbPoolClaims.cfg`): `RoomIsUsed` (`release()` of an invalid connection
makes room and tells nobody) and `NobodyOverlooked` (a notified waiter whose
deadline has passed takes the notification with it). `gateway_main.cpp` makes a
pool and never calls its `init()`; `PoolInit` is a step that need not happen.
`shutdown()` also ends the MySQL library while threads may hold connections,
which is outside the model.

## 8. Friends

`Friends.tla` models `friend_manager.cpp` over the table `friends`, as both
servers call it, with the automatic answer of `bot_manager.cpp`. As in `Groups`,
one call of `Database` is one step and a request makes several; `req[t]` is the
request a thread has in hand. `row[<<a, b>>]` is the status of the row that says
what `a` asked or has of `b`.

| TLA+ | Code |
|---|---|
| `Begin`, `Arrive` | the frames of `gateway_main.cpp` and `session.cpp` |
| `AddFriend`, `AddAsked`, `Add` | `add_friend_request`: two questions, then the INSERT, which meets the unique key |
| `AcceptAsked`, `Accept`, `Grant` | `accept_friend_request`: the UPDATE and the INSERT of the other direction, in two statements |
| `BotAccept` | the server's own answer for a bot |
| `Reject`, `RemoveFriend`, `Remove`, `RemarkFriend`, `Remark` | the other requests |
| `clash` | history only: an acceptance whose second statement failed (`"torn"`), one that was overtaken (`"stale"`), a rejection after the acceptance (`"late"`) |

`SocialGraph.tla` is the promise: friendship is a symmetric relation, brought
about by an accepted request and ended by either side. `ImplementsGraph` maps the
`pending` and `accepted` rows to it. Both it and `Mutual` hold until the first
clash, and each of the three kinds is needed: `NotTorn`, `NotStale` and `NotLate`
are refuted with `FriendClaims.cfg`. The likeliest is `"torn"`: two users who
have asked each other, or one who asks after having been rejected.

| Run | Instance | Shows |
|---|---|---|
| `FriendsSafety` | 3 threads, 2 users, one of them answered for by the server, 1 failing statement | `Mutual`, `ImplementsGraph`. Friendships of different pairs do not touch each other's rows; three requests are an acceptance, one that overtakes it and one that undoes that |

Safety only, as for `Groups`. Notifications and the names in the lists are left
out.

## 9. The TCP server: SessionWrite and Sessions

`SessionWrite.tla` models `send`, `do_write` and `close` of `session.cpp`. Any
thread appends to the queue and posts `do_write` if it found the queue empty; the
four threads of `io_context_` run what is posted, without a strand. `do_write`
takes a message and gives `async_write` a view of its own local vector. What the
socket takes at once is right; the rest is read later from freed memory, so it may
be the message or `Junk` (`WriteRest`).

| TLA+ | Code |
|---|---|
| `queue`, `open` | `write_queue_`, `socket_` |
| `posting`, `posts` | a `send` between its unlock and its post; calls of `do_write` posted and not begun |
| `st` | where each message is |
| `wire` | what the client can read |
| `pushed`, `overlap` | history: the order of the pushes; two messages were being written at once |

- `QueueServed`: no wake-up is lost. It is not obvious, because `do_write`
  empties the queue before its message is written, so `send` tests something that
  does not say whether a write is in progress.
- `InOrder`: while no two writes overlapped and no write was partial, the client
  gets whole messages in the order of their pushes. Whatever overlaps, no
  message is begun twice: two calls of `do_write` never take the same one.

The conditions are needed: `OneWriter` (two `async_write` on one socket) and
`NoJunk` are refuted with `WriteClaims.cfg`.

`Sessions.tla` models the registry. Each critical section of `sessions_mutex_` is
one step; a frame is handled on a thread of the pool, and several of one session
at once.

| TLA+ | Code |
|---|---|
| `temp`, `route` | `sessions_` under temporary and under user ids |
| `sock`, `uid`, `auth`, `age` | the socket, `user_id_`, `authenticated_` and `last_heartbeat_` of a session |
| `accepting` | the session `handle_accept` has started and not registered |
| `Frame`, `LoginUser` ... `SetUserOnline`, `LogoutUnauth`, `LogoutClose` | `handle_message`, `handle_login`, `handle_logout` |
| `Collect`, `CloseSwept`, `RemoveSession` | `check_heartbeats`: under the lock, then outside it, for each session |
| `frozen` | `remove_session` waits for the mutex it holds |
| `replaced` | history: another login took the session's route |

A read error only ends the reading (`Disconnect`): the entry stays until the
sweep. So what matters is that the sweep can find every open session. `Tracked`
says it does, unless a login elsewhere has replaced the session, and that no
session is listed for two accounts. `SilentSwept` says that a silent session is
closed and forgotten, also if it is listed twice or a late login lists it again.
It ends where the server freezes: `remove_session` of a session that is still
logged in calls `set_user_offline`, which locks the mutex again. `NeverFrozen`,
`ListedOnce`, `RouteIsUser`, `SweptSilent` (a session that speaks between the
collection and the close is closed all the same) and `ReplacedCloses` (a replaced
session is in no table and stays open for ever) are refuted with
`SessionClaims.cfg`.

| Run | Instance | Shows |
|---|---|---|
| `WriteSafety` | 3 messages | `QueueServed`, `InOrder`, types. Two messages overlap and a third queues behind them |
| `SessionsLive` | 2 sessions, 2 accounts, 2 threads, 2 frames | `Tracked`, `SilentSwept`. Two frames are two logins, or a login and a logout, that overlap each other, the registration and the sweep |

`FairSpec` asks only that the timer and its loop go on, as the timer rearms itself
in every tick. Nothing is asked of clients or handlers. Both runs may stop: the
messages and frames are finite.

## 10. Proofs

All theorems are proved by TLAPS for every value of the constants under the named
assumptions of the modules (`ConstAssumption`, `PoolAssumption`,
`ClientAssumption`, `GroupAssumption`, `DbPoolAssumption`, `FriendAssumption`,
`WriteAssumption`, `SessionAssumption`), which the runs evaluate.

`WsGatewayProofs`: `DescriptorInv` is inductive. `ClosesOwnDescriptor` alone is
not: that a thread about to close owns the number needs `OneCloser` (at most one
thread inside a `close()`, and then `closed_` is set), `OpenOwns` (an open
connection owns its number and the thread's copy agrees with it) and
`NotMadeYet` (nobody refers to an object before it is made, so a number handed
out twice cannot be confused). `DescriptorTableRight` joins it because
`remove_connection` erases by number. The proof has a lemma per group of
actions: those that change no descriptor, `Close`, accept, handshake, the two
steps of `close()`, destruction, handlers, sweep, stop. The action properties
`OwnBytesOnly` and `RouteDropsOnlyDead` and the invariant `NoRouteAfterExit`
follow from it; `RouteDropsOnlyDead` is thereby also proved with `stop()`.

`ThreadPoolProofs`: `PoolInv` joins the type invariant with the facts that keep
sleepers honest: who sleeps, who has been told, and how many are counted active.
`AcceptedKept` needs one fact more: a worker that has run its task has left a
trace of it (`RanDone`), so the task may leave its hands. The refinement
`PoolIsTaskPool` needs `PlaceInv`: a task is in one place (`OnePlace`: an open
submission is nowhere in the pool, a queued task in no hands and not done, and no
two workers hold one task), and workers that run are members of the pool, so their
tasks are no more than the threads. Each action then maps to one step of
`TaskPool` or to a stutter. `NoTaskTwice` carries what `TaskPool` says of
tasks over to the pool: none runs twice, and none that was dropped runs.

`ClientReconnectProofs`: `LinkInv` adds `LinksRight` to the two properties:
an attempt is on a channel of its own that is being opened, only channels that
were open are listened to, and the misses of a live connection are below the
limit. Without the first, a timer of one device could be thought to take the
channel another one listens on; without the last, the miss count has no bound.
The proof has a lemma for `connect()`, one for the stream callbacks, one for the
heartbeat, one for the user and one for the gateway. `NeverKicksItself` is far
from inductive: it needs `CalmRight`, which says that while calm a device is in one
phase at a time (attempt, connected, or timer, `OnePhase`), that each channel
listened to is its holder's `_channel` (`OneChannel`), and that a channel nobody
listens to, as an abandoned one, has no request and no route, and any other one
request at most (`OneRequest`).

`GroupsProofs`: `GroupInv` adds `Leaving` and `Alone` to the invariants. `Right`
says for each position of a request what its questions have established: at the
DELETE of a removal, say, that the target is not the owner and the operator is
the owner, or an admin over a plain member. `Alone` carries it from question to
write while `clash = {}`: the other requests are then for other groups, which a
write does not touch. The two action properties are then read off the
writes. The proof has one lemma for arrivals, one for
questions (on a general lemma `AskStep`: an answer establishes what the next
position relies on), one general lemma for writes and one per write.

`DatabasePoolProofs`: `DbInv` (types, `Accounted`, `WithinMax`) is inductive: a
connection moves between `idle` and `Held` one at a time (`HeldGrows`,
`HeldShrinks`, `Lends`). `EnoughTold` needs besides it that sleepers and idle
connections are finite sets whose sizes change together. The refinement
`PoolLends` has one step per action: those that give or take a connection map to
`Lend` and `Return`, with the limit from `WithinMax` and `Held \subseteq all`; all
others stutter. `LentOnce` is proved of `Leases` and carried over: `WithinMax` does
not imply it, because `shutdown()` empties `all` while connections are out.

`FriendsProofs`: the types, `Mutual`, and `TablesAreGraph`, where `Grant` maps to
`Accept`, `Remove` to `Part`, and a clash sets `void`.

`SessionWriteProofs`: `QueueServed` is proved with `OneAtATime` (without an
overlap, at most one message is being written), which `InOrder` needs too: the
pushes are the wire, the message in hand and the queue, one after the other. That
no message is begun twice holds without that condition, since what is on the wire
has left the queue for good (`BegunGone`).

`SessionsProofs`: `SInv` is the types, `Tracked` and `ClosedFirst`: the sweep
removes no session it has not closed. Without it a removal could take an open
session out of the table. `SetUserOnline` is the one step with work in it: it
lists one session anew and can take only one other down, which is then `replaced`.

TLC only: all liveness (`ConnectionsEnd`, `QueuedRuns`, `BlockedReturns`,
`StopReturns`, `Reconnects`, `SettlesWhenCalm`, `ShutdownWakes`, `SilentSwept`),
since fairness and ENABLED are beyond the prover, and the refuted statements.

## 11. Not modelled

- The database itself (`database.cpp`): the SQL text, the decoding of rows and
  the statements that stand alone. What several statements do together is in
  `Groups` and `Friends`. Two places lock `mutex_` twice in one thread, which
  needs no interleaving and no model: `recall_group_message` calls
  `is_group_admin` with the mutex held (2805), and a reconnect runs `init_tables`
  from callers that may hold it (82).
- Users, messages, favourites: single statements, nothing that relates two of
  them beyond what MySQL keeps.
- Push notifications and bots: HTTP requests, a script engine and the text of
  conversations. Their hazards are in `PROJECT.json`: a token cache that a
  concurrent update can make stale, a conversation used after its map's mutex was
  released.
- The HTTP gateway and the media server: parsing and file input and output. The
  user interface: layout and navigation.
- Of the TCP server: `start()` and `stop()` of the whole server. The handler of
  a signal runs `stop()` on a thread of `io_context_` and joins that very thread,
  in any order of events; `get_stats` reads the size of `sessions_` without its
  mutex.
