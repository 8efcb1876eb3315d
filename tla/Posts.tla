------------------------------- MODULE Posts --------------------------------
(***************************************************************************)
(* Posts (src/post/), comments (src/comment/) and their likes (src/likes/  *)
(* and the hooks of src/prisma/hooks/UserLike).                            *)
(*                                                                         *)
(* Posts and comments are both entries, numbered together.  An entry is    *)
(* kept with its row of PostLike (counter, likes), which another statement *)
(* creates, and with its row of UserLike (like, liker): the unique postId  *)
(* and commentId of that table leave room for one liker of an entry.       *)
(*                                                                         *)
(* Contents, categories, slugs and queries are left out.                   *)
(***************************************************************************)
EXTENDS Integers, FiniteSets

CONSTANTS Users,
          Nobody,       \* not a user
          Calls,        \* calls running at a time
          MaxEntries,   \* bound: posts and comments ever created
          MaxLikes      \* bound: likes ever given

ASSUME NobodyAssumption == Nobody \notin Users
ASSUME CallsAssumption == IsFiniteSet(Calls)
ASSUME BoundsAssumption == MaxEntries \in Nat /\ MaxLikes \in Nat

VARIABLES entries,      \* tables Posts, Comment, PostLike and UserLike
          nextEntry,    \* the sequences behind Posts.id and Comment.id
          nextLike,     \* the next UserLike.id; every like takes one
          calls,        \* the calls in flight
          cut           \* history: posts whose creation was cut by a restart

vars == <<entries, nextEntry, nextLike, calls, cut>>

Ids == 1 .. MaxEntries
Entry == [kind: {"none", "post", "comment"}, author: Users \cup {Nobody},
          post: Ids \cup {0}, parent: Ids \cup {0},
          counter: BOOLEAN, likes: Int, like: Nat, liker: Users \cup {Nobody}]
Call == [at: {"idle", "counter", "remove", "notify", "unlike", "decrement"},
         entry: Ids \cup {0}, like: Nat]

TypeOK == /\ entries \in [Ids -> Entry]
          /\ nextEntry \in 1 .. (MaxEntries + 1)
          /\ nextLike \in 1 .. (MaxLikes + 1)
          /\ calls \in [Calls -> Call]
          /\ cut \in SUBSET Ids

NoEntry == [kind |-> "none", author |-> Nobody, post |-> 0,
            parent |-> 0, counter |-> FALSE, likes |-> 0, like |-> 0, liker |-> Nobody]
NoCall == [at |-> "idle", entry |-> 0, like |-> 0]

Init == /\ entries = [e \in Ids |-> NoEntry]
        /\ nextEntry = 1
        /\ nextLike = 1
        /\ calls = [c \in Calls |-> NoCall]
        /\ cut = {}

There(e) == e \in Ids /\ entries[e].kind # "none"
PostsThere == {e \in Ids : entries[e].kind = "post"}
CommentsThere == {e \in Ids : entries[e].kind = "comment"}

Goto(c, at, e, like) ==
  calls' = [calls EXCEPT ![c] = [at |-> at, entry |-> e, like |-> like]]
Return(c) == calls' = [calls EXCEPT ![c] = NoCall]
-----------------------------------------------------------------------------
(* createPost, posts.create. *)
CreatePost(c, u) ==
  /\ calls[c].at = "idle"
  /\ nextEntry \in Ids
  /\ entries' = [entries EXCEPT ![nextEntry] =
                   [NoEntry EXCEPT !.kind = "post", !.author = u]]
  /\ nextEntry' = nextEntry + 1
  /\ Goto(c, "counter", nextEntry, 0)
  /\ UNCHANGED <<nextLike, cut>>

(* EveryPostCanBeLiked: the counter is created with the first like. *)
WrongCreatePostLike(c) ==
  /\ calls[c].at = "counter"
  /\ Return(c)
  /\ UNCHANGED <<entries, nextEntry, nextLike, cut>>

(* createPost, postLike.create: it fails on its foreign key when the post  *)
(* has been removed.                                                       *)
CreatePostLike(c) ==
  /\ calls[c].at = "counter"
  /\ \/ /\ There(calls[c].entry)
        /\ entries' = [entries EXCEPT ![calls[c].entry].counter = TRUE]
     \/ ~There(calls[c].entry) /\ UNCHANGED entries
  /\ Return(c)
  /\ UNCHANGED <<nextEntry, nextLike, cut>>

(* removePost, the post is found and is the user's own. *)
RemovePost(c, u, e) ==
  /\ calls[c].at = "idle"
  /\ e \in PostsThere
  /\ entries[e].author = u
  /\ Goto(c, "remove", e, 0)
  /\ UNCHANGED <<entries, nextEntry, nextLike, cut>>

(* ThreadsStandTogether: the comments of a post stay behind. *)
WrongCascaded(e) == {e}

(* What a deleted entry takes with it: onDelete: Cascade of the post of a  *)
(* comment and of an entry's PostLike and UserLike; the answers to a       *)
(* comment stay, and lose their parent (ON DELETE SET NULL).               *)
Cascaded(e) == {e} \cup {x \in CommentsThere : entries[x].post = e}

Drop(gone) ==
  entries' = [x \in Ids |-> IF x \in gone THEN NoEntry
                            ELSE IF entries[x].parent \in gone
                            THEN [entries[x] EXCEPT !.parent = 0] ELSE entries[x]]

(* removePost, posts.delete, which throws when another call was faster. *)
DeletePost(c) ==
  /\ calls[c].at = "remove"
  /\ IF There(calls[c].entry) THEN Drop(Cascaded(calls[c].entry))
                              ELSE UNCHANGED entries
  /\ Return(c)
  /\ UNCHANGED <<nextEntry, nextLike, cut>>
-----------------------------------------------------------------------------
(* newComment: the comment and its PostLike are created by one statement.  *)
(* Both postId and parentId may be left out; who leaves out both has his   *)
(* comment stored, and an exception for an answer.                         *)
NewComment(c, u, post, parent) ==
  /\ calls[c].at = "idle"
  /\ nextEntry \in Ids
  /\ post \in PostsThere \cup {0}
  /\ parent \in CommentsThere \cup {0}
  /\ entries' = [entries EXCEPT ![nextEntry] =
                   [NoEntry EXCEPT !.kind = "comment", !.author = u, !.post = post,
                                   !.parent = parent, !.counter = TRUE]]
  /\ nextEntry' = nextEntry + 1
  /\ IF post = 0 /\ parent = 0 THEN UNCHANGED calls
                               ELSE Goto(c, "notify", nextEntry, 0)
  /\ UNCHANGED <<nextLike, cut>>

(* notification.add: the job is in Redis (NotificationQueue!Add). *)
Notify(c) ==
  /\ calls[c].at = "notify"
  /\ Return(c)
  /\ UNCHANGED <<entries, nextEntry, nextLike, cut>>

(* removeComment: whoever asks. *)
RemoveComment(e) ==
  /\ e \in CommentsThere
  /\ Drop({e})
  /\ UNCHANGED <<nextEntry, nextLike, calls, cut>>
-----------------------------------------------------------------------------
(* The hooks of prisma.service.ts look for the entry in args.data, which a *)
(* delete does not have, and they do not see the nested create of likePost *)
(* at all: neither changes the counter.                                    *)
IncreasePostLike == 0

(* LikesCoverLikers: the hook does what its name says. *)
WrongDecreasePostLike == -1
DecreasePostLike == 0

(* TypeOK: every like is a row of its own. *)
WrongConnectOrCreate(entry, u) ==
  [entry EXCEPT !.like = nextLike,
                !.liker = IF entry.liker = Nobody THEN u ELSE <<entry.liker, u>>]

(* connectOrCreate by postId or commentId: the row that is there, whoever  *)
(* has liked, or a new one.                                                *)
ConnectOrCreate(entry, u) ==
  IF entry.like # 0 THEN entry
  ELSE [entry EXCEPT !.like = nextLike, !.liker = u, !.likes = @ + IncreasePostLike]

(* likePost and likeComment: one statement, which throws without the row   *)
(* of PostLike.  The counter goes up whoever has liked.                    *)
LikeEntry(u, e) ==
  /\ There(e)
  /\ entries[e].counter
  /\ nextLike <= MaxLikes
  /\ entries' = [entries EXCEPT ![e] = [ConnectOrCreate(entries[e], u)
                                          EXCEPT !.likes = @ + 1]]
  /\ nextLike' = nextLike + 1
  /\ UNCHANGED <<nextEntry, calls, cut>>

(* unlikePost and unlikeComment, userLike.findFirst: only the liker goes on.*)
UnlikeEntry(c, u, e) ==
  /\ calls[c].at = "idle"
  /\ There(e)
  /\ entries[e].liker = u
  /\ Goto(c, "unlike", e, entries[e].like)
  /\ UNCHANGED <<entries, nextEntry, nextLike, cut>>

(* userLike.delete by id, with its hook; it throws when the row has gone.  *)
DeleteUserLike(c) ==
  /\ calls[c].at = "unlike"
  /\ LET e == calls[c].entry
     IN \/ /\ There(e) /\ entries[e].like = calls[c].like
           /\ entries' = [entries EXCEPT ![e] =
                [@ EXCEPT !.like = 0, !.liker = Nobody,
                          !.likes = entries[e].likes + DecreasePostLike]]
           /\ Goto(c, "decrement", e, 0)
        \/ /\ ~(There(e) /\ entries[e].like = calls[c].like)
           /\ Return(c)
           /\ UNCHANGED entries
  /\ UNCHANGED <<nextEntry, nextLike, cut>>

(* postLike.update, which throws when the entry has gone. *)
DecrementLikes(c) ==
  /\ calls[c].at = "decrement"
  /\ \/ /\ There(calls[c].entry)
        /\ entries' = [entries EXCEPT ![calls[c].entry].likes = @ - 1]
     \/ ~There(calls[c].entry) /\ UNCHANGED entries
  /\ Return(c)
  /\ UNCHANGED <<nextEntry, nextLike, cut>>
-----------------------------------------------------------------------------
Creating(e) == \E c \in Calls : calls[c].at = "counter" /\ calls[c].entry = e

Restart ==
  /\ \E c \in Calls : calls[c].at # "idle"
  /\ calls' = [c \in Calls |-> NoCall]
  /\ cut' = cut \cup {e \in Ids : Creating(e)}
  /\ UNCHANGED <<entries, nextEntry, nextLike>>

Next == \/ \E c \in Calls : \/ CreatePostLike(c) \/ DeletePost(c) \/ Notify(c)
                            \/ DeleteUserLike(c) \/ DecrementLikes(c)
        \/ \E c \in Calls, u \in Users :
             \/ CreatePost(c, u)
             \/ \E e \in Ids : RemovePost(c, u, e) \/ UnlikeEntry(c, u, e)
             \/ \E post, parent \in Ids \cup {0} : NewComment(c, u, post, parent)
        \/ \E u \in Users, e \in Ids : LikeEntry(u, e)
        \/ \E e \in Ids : RemoveComment(e)
        \/ Restart

Spec == Init /\ [][Next]_vars
-----------------------------------------------------------------------------
Decrements(e) == {c \in Calls : calls[c].at = "decrement" /\ calls[c].entry = e}

(* An entry counts its liker, and every like that is being taken back,     *)
(* however likes and unlikes of several users overlap: no decrement makes  *)
(* the counter negative (likes.service.ts:9-137).                          *)
LikesCoverLikers ==
  \A e \in Ids : There(e) =>
    entries[e].likes >= Cardinality(Decrements(e)) + (IF entries[e].like = 0 THEN 0 ELSE 1)

(* A post without a counter, which nobody can ever like, is one whose      *)
(* creation is under way or was cut by a restart (post.service.ts:132-155).*)
EveryPostCanBeLiked ==
  \A e \in PostsThere : entries[e].counter \/ Creating(e) \/ e \in cut

(* No comment is left of a post that has gone, and no answer points to a   *)
(* comment that has gone (schema.prisma:24-25).                            *)
ThreadsStandTogether ==
  \A e \in CommentsThere : /\ entries[e].post \in PostsThere \cup {0}
                           /\ entries[e].parent \in CommentsThere \cup {0}
=============================================================================
