# socium-backend: a verification development

TLA+ modules for the server of *socium* (NestJS, Prisma on Postgres, Bull queues
on Redis, a socket.io gateway), TLC configurations that check them on small
instances, and proofs for every instance, checked by TLAPS. File names below
are relative to the repository; `src/src/chat/chat.gateway.ts` is written
`chat.gateway.ts` where no confusion is possible.

## How the program runs, and what that means for a model

One Node.js process serves GraphQL, REST and socket.io. JavaScript runs a
handler without interruption until its next `await`, so

* a synchronous handler (the whole match queue) is **one action**;
* an asynchronous handler is a record with a program counter (`at`), and each
  statement it sends to Postgres or Redis is **one action**: between two of
  them any other handler may run;
* a `.then` callback is an entry of a queue, run by an action of its own.

There is no transaction anywhere in the code, so a restart may cut a handler
between any two statements. Postgres and Redis keep what they have; the pool,
the callbacks, the calls in flight and the `queue.add` that nobody awaits are
lost. Constraints of the schema (unique, foreign keys, cascades) are part of
the statement they constrain.

## Inventory

| Component | State | Operations | What is hard | What makes it correct |
|---|---|---|---|---|
| Match queue (`chat.gateway.ts`) | `pool` array, promise callbacks | join queue, leave queue, connection | order of the two notifications, sockets that drop and stay in the pool, joining twice, the range of the random index | at most one socket waits, nobody is paired with itself, both sides hear of a room and nobody else does |
| Signalling (`chat.gateway.ts`) | socket.io rooms | join room, leave room, call, answer, candidates, media permissions | no handler for a dropped connection, joins and leaves in any order, signals that outlive the pairing | a room holds its pair only, who is left alone has heard so, who signals has been introduced to whom it reaches |
| Rooms and messages (`chat.service.ts`, `chat.gateway.ts`, `messages.resolver.ts`) | tables Room, Messages; what the clients show | send message, delete room, messages of a room, mark read | find-then-create over two awaits, a room deleted and created anew under a message on its way, replies across rooms, a push between the row and its emit | one room per address, no orphans, a message lands at its address, a deletion reaches what it must and no more, nobody misses a message |
| Message requests (`chat.resolver.ts`, `chat.service.ts`) | table MessageRequest, queue deleteOutdatedMessages | new, accept, reject, retrieve, worker | decided by several calls at once, four statements with no transaction, an `add` that is not awaited, a request or a greeting that may be refused, retries and stalls | decided once, one room for an accepted request, the room expires |
| Notifications (`notification/`) | tables Notification, NotificationSettings, FcmNotificationTokens, queue | worker, mark read, save token, edit settings | a worker that throws and never calls back, a restart between row, push and callback, an inverted flag, a token read long before it is used | whoever refused a kind is not notified of it, a push goes to his own device, rows are not doubled, the queue goes on |
| Accounts (`auth/`, `profile/`, `prisma/hooks/User`) | table User (codes, refresh token), its star and settings, mail queues | register, login, refresh, verify, resend, forgot and change password, age and gender, rename | register in several statements, guards that read what is written later, rows found by a stale name, codes used late or twice | registered is whole or cut short, codes go to their address and are spent, a stored token is known to a client |
| Stars, followers (`user/`, `star/`, `follower/`) | Star counts, Follower rows | add and delete a star, follow, unfollow | read-modify-write, check-then-create, a `SmallInt` | counts are off, and pairs have two rows, only where calls overlapped |
| Posts, comments, likes (`post/`, `comment/`, `likes/`, `prisma/hooks/UserLike`) | Posts, Comment, PostLike counters, UserLike rows | create, remove, like, unlike | a post and its counter in two statements, one UserLike row for all likers, hooks that never find their entry, cascades | counters cover likers, every post that was not cut can be liked, threads go with their post |
| Spotify (`spotify/`) | one row of a user's song | look, update or create, remove, publish | two calls that store and publish in different orders, a row that is gone or there by now | listeners hear the song that is stored |
| Ratings, category | rows nobody reads, rows nobody writes | create, read | nothing | not modelled |
| Mail templates, images, link previews, bootstrap | none | pure input/output | - | not modelled |

`app.module.ts` has PostModule, CommentModule, LikesModule, StarModule,
SpotifyModule and CategoryModule commented out (StarModule is imported by
ChatModule all the same). `Posts` and `Social` model the first five as they are
written.

Interactions: what `pair()` tells two clients are the rooms they join and the
uuids they call; a client that joined a room hears what is emitted to it and
asks for what it missed; the gateway and `acceptRequest` share `saveMessage`; the worker of
the queue deletes rooms under both; `chat.resolver.ts` and `likes`, `follower`
hand jobs to the notification queue; registration and password reset hand jobs
to mail queues.

## Modules

| Module | Models | Main definitions |
|---|---|---|
| `Rendezvous` | what the match queue promises: a meeting point with one chair | `Arrive`, `GiveUp`, `Meet` |
| `MatchQueue` | pool, `pair()`, join, leave, callbacks, drops, restarts | `HandleJoinQueue`, `Pair`, `RunThen` |
| `CallSignalling` | extends `MatchQueue` with the rooms of socket.io and the relays of a call | `HandleJoinRoom`, `HandleLeaveRoom`, `Relay` |
| `ChatRooms` | Room and Messages, `saveMessage`, send message, `deleteRoom` | `FindRoom`, `SaveRoom`, `CreateMessage` |
| `MessageFeed` | extends `ChatRooms` with clients that join, ask, hear, mark as read, drop | `MessagesFromRoom`, `EmitMessage`, `Disconnect` |
| `RequestLifecycle` | what a message request goes through as its two users see it | `Make`, `Decide`, `Open` |
| `MessageRequests` | extends `ChatRooms` with requests, their acceptance and the expiry queue | `AnswerRequest`, `OpenRoom`, `DeleteOutdated` |
| `NotificationQueue` | the notification worker, settings, device tokens, marking as read | `ReadSettings`, `SaveNotificationToDatabase`, `SendToDevice` |
| `Accounts` | registration, login, refresh, codes, age and gender, renaming, mail queues | `CreateUser`, `CreateRefreshToken`, `VerifyEmail`, `SetPassword` |
| `Social` | stars, followers, the song a user listens to | `GetUserStars`, `UpdateStar`, `CheckFollow`, `CreateFollow`, `UpdateUserCurrentTrack` |
| `Posts` | posts, comments, likes and the like hooks | `CreatePost`, `NewComment`, `LikeEntry`, `DeleteUserLike` |
| `GatewayProofs` (`MatchQueue` and `CallSignalling`), `ChatRoomsProofs`, `MessageFeedProofs`, `MessageRequestsProofs`, `NotificationQueueProofs`, `AccountsProofs`, `SocialProofs`, `PostsProofs` | the theorems | see *Proofs* |
| `MC...` | what TLC runs; the constants' values are in the `.cfg` files | |

Definitions named `Wrong...` are slips a programmer might make; replaced for the
definition that follows them they break the property their comment names.
They are part of no specification.

## How state and actions correspond to the code

**MatchQueue.** `pool` is the array `ChatGateway.pool`; an entry is a socket id,
since the gateway looks at `uuid` only. `HandleJoinQueue` and `HandleLeaveQueue`
are the whole handlers: the push, the draw by `RangeNumber` over the array as it
stands after the push, the event to the partner, the filter. What `pair()`
resolves is told to the joiner by `RunThen`, an entry of `thens`, in order.
`Disconnect` changes `conn` only, because there is no `handleDisconnect`.
`told`, `pairings` and `entries` are histories: what sockets have been sent, who
was paired with whom, how often a socket was pushed.

**CallSignalling** extends `MatchQueue`; its queue steps are those of
`MatchQueue`, with the rooms of a socket that drops emptied (`Still`). `joined`
are the rooms of socket.io. The gateway checks nothing of what a client sends:
any of the five signals may come at any time, and an answer need not have been
asked for. Only that a client can name no more than what it was told or has
heard (`RoomsTold`, `Known`) is assumed, see *Assumptions*. The five relays differ in their event only and share `Relay`, which
appends `uuid: socket.id` last (`Sender`). The `ClientDisconnected` of
`handleLeaveRoom` goes to `Others`, the sockets in the room at that moment; what
it tells them is kept in the history `company`: the rooms in which a socket has
been together with its peer and has not heard since that it left.

**ChatRooms.** `rooms` and `messages` are the tables; their constraints
(unique `roomAdress`, foreign keys, cascades of `schema.prisma`) are in
`InsertRoom`, `Cascades`, `DropRoom`. A call of `send message` goes through
`HandleMessage`, `FindRoom`, `SaveRoom` or `CreateMessage`, `PublishMessage`;
what it read it keeps in its record until it uses it. `DeleteRoom` of any room
may come between any two. The id a message replies to is the client's word
(`0 .. MaxMessages`: none, one in any room, one that is gone, one still to come,
its own), since no statement looks at its room. The insert is refused when the
room or that message is missing (`ReferencesExist`), and it may be refused
whatever is there, since nothing checks that sender and receiver are users, whose
table is left out.

**MessageFeed** extends `ChatRooms`. A client that has `joined` the room of an
address on its socket asks for messages by the id of a room, which is its word
too: any id ever given out, so that it may be stale or of another address.
`shown` is what it got and what is emitted since; `fetched` is the history of
the views whose own room it asked for, with the id that was right at that
moment. `EmitMessage` is the end of `handleMessage`, publish
and emit in one piece, after the push service has answered or failed; it goes to
the `Receivers` in the room of that *address*, whatever has become of the row.
`Disconnect` and `Restart` take the client out of its rooms and void what it
shows. `seen` is the column, set by `updateMany` over the room.

**MessageRequests** extends `ChatRooms`: an accepted request sends its greeting
through the same `saveMessage`, so `AnswerRequest` and `OpenRoom` put a call of
`ChatRooms` on its way. `asks` are the `newMessageRequest` calls, one action per
awaited statement; `toUserId` is the client's word, so the creation may be
refused. `enqueuing` holds the `addQueue` that nobody awaits
(`chat.service.ts:200`), for the room that `saveRoom` returned (`opens`), which
need not be the one that `saveMessage` found for the greeting; `jobs` the queue, with attempts, timeout (at most 5 s,
also when the deletion was done), stalls. `fate` is the history of each request.

**NotificationQueue.** A job's `at` is the statement of `sendNotification` that
comes next; `threw` is a function that has thrown: Bull waits for the callback
it was given, so the job stays active. The token read at `ReadToken` is kept in
`device` and used after the row is stored; `held` is the history of the tokens the
receiver has had since the job was taken. A token that is saved may be any, also
the one that is there or another user's. `IsUserDisabledNotification` has the
switch with its missing breaks and its negated `disableAll`. The two lists,
`GetUserNotifications` and `GetUserReadedNotifications`, change nothing and are
operators of the state; `ShownTypes` are the entities they look up.

**Accounts.** One row per address holds the user with his star and settings. A
call's `at` is the statement that comes next; guards (`NotVerifiedGraphqlGuard`,
`ForgotPasswordGuard`) and first lookups are conjuncts of the action that starts
it; a refresh compares with the row of any user the client names (`IsEqual`).
What a middleware adds to a statement is part of it
(`WithPassword`). `createRefreshToken` and `updateUserAgeAndGender` write to
whoever has the name that was read (`CreateRefreshToken`, `SetAgeAndGender`).
`late` is the history of the reset codes drawn while a change of the same
user's password was past its guard. `made` numbers the calls; the codes and tokens a call draws
carry its number. Mails have attempts and stalls; `Attempt` either sends the
mail or does not.

**Social.** A star call is `GetUserStars` (what was read is kept in `read`) and
`UpdateStar`, which writes it back changed by one unless it is out of the range
of a `SmallInt`; `addNewStar` always goes to the user with id 1
(`user.resolver.ts:54`). `followUser` is `CheckFollow` and `CreateFollow`, its
`notification.add`, which nobody awaits, `NotificationAdded`. `added`, `deleted`,
`overlapped` and `rivals` are histories. A song goes through
`GetUserCurrentTrack`, which keeps the id it found, `UpdateUserCurrentTrack`,
which updates that row, creates one, or throws, and `PublishTrack`;
`garbled` is the history of users whose song was stored while another was being
published, or cut before it was.

**Posts.** An entry is a post or a comment with its row of PostLike (`counter`,
`likes`) and its row of UserLike (`like`, `liker`), of which the unique `postId`
and `commentId` allow one. `createPost` is `CreatePost` and `CreatePostLike`; a
comment gets its counter in the statement that creates it. `LikeEntry` is one
statement, increment and `connectOrCreate` together; `unlikeEntry` is three. The
hooks of `prisma/hooks/UserLike` are `IncreasePostLike` and `DecreasePostLike`,
both 0: nested creates pass no middleware, and a delete has no `args.data`.

## Runs

| Run | Instance | What it shows |
|---|---|---|
| `calls` | 3 sockets, 2 entries each, 2 rooms, 2 signals | no two sockets wait, both sides of a pair hear, an entry is matched at most once, the matcher implements `Rendezvous`; a room holds its pair, who is left in it has heard so or lost its peer's connection; whom a signal names was introduced to whom it reaches, or is about to be, whoever calls and answers whom it knows |
| `message_feed` | 2 addresses, 2 calls, 2 messages, ids of rooms up to 3, 1 client | one room per address, no orphans, a message lands at the address it was sent to, a deletion follows rooms and replies, a client that joined and asked misses none |
| `chat_rooms_race` | 1 address, 2 calls | **violation**: of two first messages one is dropped |
| `message_requests` | 2 users, 1 request, 2 calls, 2 addresses, 3 attempts, 1 stall | a request gets one room; once there is a message in it, it expires, unless a restart cut it; the calls implement `RequestLifecycle`; an accepted request gets its room, and a queued room goes, unless a restart cut it |
| `message_requests_race` | 2 `newMessageRequest` calls | **violation**: two open requests to one user |
| `notification_queue` | 2 users, one of them without settings and device, 2 jobs, 2 tokens, 2 settings | rows are counted by starts; a push goes to a device that was the receiver's since the job was taken; a refused kind stays out; a job is dealt with unless the worker has thrown |
| `disable_all` | 1 job | **violation**: `disableAll` is read the wrong way round |
| `notification_list` | 1 job | **violation**: a message request is listed without its entity |
| `accounts` | 2 addresses, 2 names, 4 calls (2 at a time), every operation | a registration is whole or cut short, an unconfirmed user's code was mailed to him, only his mail confirms an address, a code is spent, a change of password erases no reset code that waits to be used, stored tokens are known, a token or an age lands at another user only after a change of names |
| `mail_retry` | 1 registration | **violation**: a refused mail is not tried again |
| `social` | 2 users, 3 calls at a time, 5 calls in all, 2 songs, counts of -2 to 1 | a count lies between what was taken and given and is off only after an overlap; a pair has two rows only after an overlap; the song last published is the one stored unless one overtook the other |
| `posts` | 2 users, 2 calls at a time, 3 entries, 3 likes | a counter covers the liker and every like being taken back; only a cut post has no counter; comments go with their post |

The passing runs have between 280 thousand and 2.4 million distinct states and
take from half a minute to three minutes each. Each `Wrong...`
definition, put for the one it is named after, makes the run that is listed with
it in `PROJECT.json` fail.

### Bounds, and why they are enough

Every bound is a constant marked `bound:` in its module and stands in a guard
that starts something new; no step of something already started is cut off by
one, so nothing that runs is stopped by a bound. (`MaxRequests` stands where a
request is created; a call that finds it used up goes on as one whose request is
refused, which it may be anyway.) One liveness property does lean
on one: with `lifo` a job may wait for ever while newer ones keep coming, and
`EveryJobSettles` says nothing of that, since `MaxJobs` ends the inflow. Sockets, calls
and users that a specification treats alike are declared symmetric, but not in
the runs with liveness properties.

* Two sockets make a pair, a third one finds the pool after it and is paired
  while a callback is still queued; two entries per socket give joining again,
  before or after the callback. Two rooms are one pairing after another of the
  same socket, so that a room, a peer and a signal of an earlier one are still
  there; two signals are a call and its answer, an answer to nothing, or a call
  before the callback and one back.
* Of two calls of `send message` one creates the room that the other has found
  missing, or has found before it was deleted; the second message replies to the
  first, to itself, or to one still to come, in its room or across. `MaxRooms`
  leaves three ids of rooms: one at each address, and one created anew at either.
  One client is enough for the feed: clients see nothing of each other.
* Two calls that accept, a rejection and a retrieval of one request compete; two
  requests at once are made in `message_requests_race` only, and that jobs and
  rooms are not mixed up between requests is left to the proofs (`OpenedInv`,
  `DeletionsInv`). A call also sends to an address that a deletion gave away
  (`Matches` is empty, other messages are the matter of `message_feed`), while an
  acceptance is on its way there. Three attempts and one stall are the values of
  the code and of Bull.
* Two jobs, one of them blocked by the other; a user with and one without
  settings; one kind of notification, since a job looks at no other job's kind.
  One user does what is notified of (`Senders`) and the other has the devices
  (`Owners`), two of them, or one that was the sender's. One call at a time saves a
  token in `notification_queue`; two that overlap, of which the second create may
  be refused, are left to the proofs.
* The shortest way for a token or an age to reach another user takes a
  registration, a login or an age, and a renaming, after which another one
  registers with the old name. A reset code that is drawn while the password is
  being changed takes four calls: a registration, a draw, a change, a draw. In
  `accounts` a mail has one attempt and no stall, since what depends on it asks
  only whether it went out, is waiting, or was given up; `mail_retry` has the
  three attempts and the stall of the code and of Bull.
* Two star calls that overlap lose a star, a third one writes on what is left;
  `Limit` 1 stands for the 32767 of a `SmallInt`, so that its end is reached.
  Two `followUser` calls make a second row of a pair. Three calls at a time are
  two songs stored and published in different orders while a third one starts.
* Three entries are a post, a comment and its answer, or two posts and an answer
  across them; two users and three likes give a like that keeps no row, one that
  is taken back, and one in between.

## Fairness

Safety needs none: the other runs have none, and the proofs use none.
`message_requests` and `notification_queue`, which have liveness properties,
assume weak fairness of the steps of a call that is running (`SendStep`,
`AcceptStep`, `AskStep`), of the un-awaited `add` (`JobQueued`) and of a queue's
worker (`WorkerStep`): the event loop runs what is ready, and Postgres, Redis,
the mail and the push server answer, be it with an error. Nothing is assumed of
clients, which may never come, nor of restarts, which may come any time; the
properties say so (*unless a restart cut it*). Where failing again and again
would defeat progress, `Attempts` and `MaxStalled` bound it as they do in Bull.

## Proofs

For every value of the constants that meets the `ASSUME`s of the modules:

| Theorem | States |
|---|---|
| `GatewayProofs!PoolSafe` | types, `AtMostOneWaiting`, `NoSelfPairing` |
| `GatewayProofs!EventsSafe` | `RoomsArePrivate`, `BothSidesHear` |
| `GatewayProofs!MatchesSafe` | `OneMatchPerEntry` |
| `GatewayProofs!Refinement` | the matcher implements `Rendezvous` |
| `GatewayProofs!CallsTyped`, `RoomsArePairs`, `RoomsSafe`, `SignalsSafe` | `CallsTypeOK`, `RoomHoldsItsPair`, `GoodbyeIsHeard`, `CallersAreIntroduced` |
| `GatewayProofs!CallsRefineRendezvous` | the calls implement `MatchQueue`, and with it `Rendezvous` |
| `ChatRoomsProofs!TablesSafe`, `MessagesSafe`, `DeletionSafe` | `TablesAgree` (`OneRoomPerAddress`, `NoOrphans`), `MessageLandsAtItsAddress`, `DeletionFollowsReplies` |
| `MessageFeedProofs!FeedTyped`, `FeedSafe`, `FeedRefinesRooms` | `FeedTypeOK`, `NoMessageMissed`; the feed implements `ChatRooms` |
| `MessageRequestsProofs!TypeCorrect`, `RequestsSafe`, `ExpirySafe`, `NoticesSafe`, `TablesStaySafe` | every safety property of `message_requests`, moreover `TableTellsFate`, `JobsDeleteTheirOwnRoom`, `NoticeFollowsRoom`, and those of `ChatRooms` in the larger system |
| `MessageRequestsProofs!LifecycleRefinement` | the calls implement `RequestLifecycle` |
| `NotificationQueueProofs!TypeCorrect`, `QueueSafe`, `RefusalIsKept`, `DevicesSafe` | every safety property of `notification_queue`: `TypeOK`, `RowsCountStarts`, `RefusedKindStaysOut`, `PushGoesToHisDevice` |
| `AccountsProofs!TypeCorrect`, `RegistrationsAreWhole`, `CodesReachTheirUser`, `ConfirmedByMail`, `TokensAreKnown`, `WritesLand`, `ResetsErase`, `CodesAreSpent` | every property of `accounts`, in this order |
| `SocialProofs!TypeCorrect`, `StarsSafe`, `FollowsSafe`, `ListenersSafe` | every property of `social` |
| `PostsProofs!TypeCorrect`, `CountersCoverLikers`, `PostsCanBeLiked`, `ThreadsAreWhole` | every property of `posts` |

The arguments:

* *MatchQueue.* `AtMostOneWaiting` is inductive only together with the types:
  with a pool of at most one, the array after the push has at most two entries,
  `RangeNumber(0, 1)` is `{0}`, and the entry drawn is the one that waited, or
  the socket itself. `pair()` then drops both or keeps the one. The events need
  more: `ThensMatchPairings` says that each queued callback belongs to a
  pairing, that no two callbacks share a room, and that room names are below the
  next one; from it follows who may have been told. `OneMatchPerEntry` is about
  cardinalities: the rooms a socket has had, and one more while it waits, are at
  most its entries; a pairing turns the wait of one and the push of the other
  into a room of each.
* *CallSignalling.* No handler of a call touches the queue, so every step is one
  of `MatchQueue` or none (`CallsRefineQueue`) and its invariants hold as they
  are. Of the queue's own steps only two facts are needed (`QueueOnlyGrows`):
  pairings only grow, and no closed connection opens again. `GoodbyeIsHeard` is
  inductive with `MembersConnected` (who is in a room is connected, so that a
  peer that vanished is closed, not new) and `CompanyInRooms` (who keeps a room
  in its company is in it, so that `socket.to(room)` reaches it).
  `CallersAreIntroduced` is not inductive: a caller may know a socket from a
  signal only. What is, is `CallersWerePaired`: both of the ends of a signal were
  paired once, so that what they know of each other goes round in pairs; and of
  those that were paired `BothSidesHear` says that each has been told, or is
  about to be.
* *ChatRooms.* Between `FindRoom` and `CreateMessage` the room id in a call may
  point to no room. What is invariant is `RoomRemembered`: *if* a room with that
  id exists, it is at the call's address, because ids are never used again and a
  room never changes its address. Likewise for the message just written.
  `CreateMessage` fails on the foreign key unless the room is there, so what it
  writes is at its address. `NoOrphans` needs that what `DropRoom` takes is closed
  under replies (`CascadedIsClosed`), for a reply may be in another room, and
  `DeletionFollowsReplies` that it takes no more: `RepliesLookBack` (a reply is
  younger than what it replies to, or is that itself, whatever id the client
  named) makes each chain of replies end.
* *MessageFeed.* Every step is one of `ChatRooms` or leaves the tables alone
  (`FeedTakesRoomSteps`), so that its invariant holds here as well. It says at
  which address the message is that a call is about to publish: at the call's
  own or, its room being gone, at none. So what is emitted to an address is what
  had been added there (`EmitMissesNothing`), whoever has created the room since.
* *MessageRequests.* Until its greeting is written the room of an acceptance is
  `Secret`: nobody holds its address, so nobody writes in it. A client may delete
  it all the same, by its id, and is told the address; then another room may be
  found there for the greeting, while the deletion queued is that of the room
  that was opened (`OwnRoom`, `Acceptance`). `OneAcceptance` says that no two
  calls hold the same request; with `DeletionsInv` (each job is about a room
  opened for its request) this gives one room per request, and with `ExpiryInv`
  (a room opened for a request is secret or its deletion is under way) its
  expiry. The steps of `ChatRooms` are reused through the lemmas of
  `ChatRoomsProofs`.
* *NotificationQueue.* The queue makes one attempt, so a job keeps it until it
  has failed (`AttemptInv`), and a job starts again only after a stall; the rows
  of a job are counted by its stalls and by whether this start has stored one
  (`RowsInv`). A setting that was off when the job was taken and stayed off is
  off now (`SteadyInv`), so that past the reading of the settings nothing that
  is refused is on its way to the table. A job at work counts every token that is
  written for its receiver among the `held` ones, so the token in the table is
  one of them, and so is the one that was read (`DevicesInv`).
* *Accounts.* Codes and tokens carry the number of the call that draws them, so
  that one fact about a row says which call wrote it: `MakerInv`, `CodeInv`,
  `ResetInv` and `TokenInv` say, of each of the four numbers in a row, where the
  call with that number has come to and what it has already done, and
  `IdsInv` that no other call has it. A step touches one row in one way
  (`RowSteps`) and one call (`CallSteps`), except for a restart, which cuts all;
  the rest is a comparison of the two. `OnlyItsMailConfirms` needs more: a
  mailed code is nobody else's and of no other kind (`PostedInv`), since no call
  writes it again (`NoNewCode`); hence a call that passed the comparison brings
  a code that its own address was mailed (`BroughtInv`), even if the row has
  another one by now. From the same facts a code that was used is in no row
  (`SpentInv`), and `changePassword` finds its own reset code, none, or one
  drawn since. That names are unique (`UsersInv`) makes the lookups by name,
  long after the name was read, hit at most one user.
* *Social.* What a star call has read may be stale, but it lies between the
  stars taken and given (`ReadsInv`), and it is the count itself as long as no
  other call on that user is under way (`StarCallsInv`); so is what it writes.
  A `followUser` that has found nothing finds nothing when it creates its row,
  unless another one of the same pair is or was under way (`CreatesInv`,
  `RivalsInv`). A user who is not garbled has at most one publication
  under way, with the song of his row (`PublishInv`).
* *Posts.* `LikesCoverLikers` is inductive with `LikersInv`: a row of UserLike has
  an id and a liker, or there is none, so that a second unlike finds nothing to
  take back. `EveryPostCanBeLiked` and `ThreadsStandTogether` rest on
  `FreshInv` (ids are never used again, and no call is about one to come) and
  on `RemovalsInv` (a removal under way is one of a post, be it gone).

The inductive invariants were found with TLC first, on the instances of the
runs. Two fields of one row are updated as `[f EXCEPT ![i] = [@ EXCEPT !.a = ...,
!.b = ...]]`, which says the same as two paths through `f` and is what the
provers read without loss.

Every safety property of every passing run is proved. Only model-checked:
liveness (`AcceptedGetsRoom`, `QueuedRoomGoes`, `EveryJobSettles`), which is out
of the provers' reach.

What the `ASSUME`s ask of the constants is little: bounds are naturals, `Nobody`
is none of those it stands in for, the sets that are counted are finite, a job
has at least one attempt, and there is at least one address, user or kind of
notification where the initial values name one. Every run evaluates them.

## Assumptions about what is not in the repository

* `getRandomString` and the six-digit codes do not repeat while they matter, and
  nobody guesses one: the codes tried are those that were mailed (`ConfirmEmail`,
  `ForgotPasswordGuard`), although no attempt is counted
  (`auth.resolver.ts:98-106`), and the addresses written to are those a client
  holds (`known`).
* The same goes for the ids of sockets and the names of matched rooms, which the
  gateway checks nowhere (`chat.gateway.ts:135-138`, 229-283): a client joins a
  room it was told of (`HandleJoinRoom`) and signals to whom it was told of or
  heard from (`Known`). `RoomHoldsItsPair`, `GoodbyeIsHeard` and
  `CallersAreIntroduced` rest on it. Ids of rows, which count up, are open to
  everybody.
* Prisma statements are atomic; Postgres hands out ids that are never reused,
  also when a statement fails.
* Bull runs one job of a queue at a time, renews the lock of a job whose
  function has not called back, takes up a stalled job once
  (`maxStalledCount`), and then gives it up. `registerQueue` inherits
  `defaultJobOptions` of `app.module.ts`, `registerQueueAsync` replaces them.
* Node 14 (`Dockerfile`) only warns of an unhandled rejection; the process
  goes on.
* A worker's single deletion does not outlast its 5 s timeout by more than one
  attempt.

## Findings

* `message_requests_race`: `newMessageRequest` checks and creates in two
  statements without a unique index (`chat.resolver.ts:93-111`).
* `chat_rooms_race`: the branch of `saveMessage` that should *create and
  re-save* (`chat.service.ts:87`) is never reached; the message is lost.
* `disable_all`: `disableAll` is negated (`Notification.consumer.ts:117-121`).
* `mail_retry`: a refused mail counts as sent, its three attempts are never used
  (`EmailVerification.consumer.ts:25`).
* `notification_list`: the two lists look up posts and followers only
  (`notification.service.ts:41`), though every listed notification is declared
  to have its entity, and message requests are notified of, too.

A few more things the models show that no text of the repository denies: a change
of the password replaces an unconfirmed user's code by one that is never mailed
(`redrawn` in `UnconfirmedCanConfirm`), and a user registered by Google has no
settings, so that the first notification to him stops the queue until a restart
(`Blocked` in `EveryJobSettles`);
`addNewStar` gives the star to the user with id 1 whoever calls it; of two
who like an entry, only the first one can take his like back; an acceptance whose
`receiverId` names no user opens a room, fails at the greeting, and leaves the
room empty for ever, since `addQueue` comes after it (hence *with a message in
it* in `AcceptedRoomExpires`); and a reply may be in another room than what it
replies to, so that the deletion of one room takes messages of others along.

## Not modelled

* `rateUser`: one statement creates a row of UserRating that no code reads, and
  no other operation touches.
* What the subscription of Spotify makes of a publication: its filter
  (`spotify.resolver.ts:22`) reads a user that no statement includes. Filters of
  the other subscriptions.
* What `seen` means to a user: `MarkAllMessagesRead` sets it, nothing in the
  server reads it.
* `removeMessage`, `StarService.decreaseStar` and `increaseStar`: they have no
  caller.
* Passwords, hashes and JWT: whoever may call, calls. Expiry of the access
  token changes no state.
* The other queries, pages and their order; mail templates, images, link previews,
  bootstrap: input and output only.
* Failure of a Postgres statement other than by its constraints.

## Plan

Done: all the modules above, with the safety properties of each proved.

1. An abstract counter of which stars and likes are the implementation as long
   as no calls overlap.
2. A composition of `MessageRequests` with `NotificationQueue`: an acceptance is
   heard of, unless refused.
