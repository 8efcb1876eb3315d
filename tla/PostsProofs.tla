---------------------------- MODULE PostsProofs -----------------------------
(***************************************************************************)
(* Posts, comments and likes for any users, calls, entries and likes:      *)
(* counters cover the likers, posts can be liked, threads stand together.  *)
(***************************************************************************)
EXTENDS Posts, FiniteSetTheorems, TLAPS

(* Ids are never used again: what is to come is empty, and no call is      *)
(* about it.                                                               *)
FreshInv == /\ \A e \in Ids : e >= nextEntry => entries[e] = NoEntry
            /\ \A c \in Calls : calls[c].entry < nextEntry

(* A row of UserLike has an id and a liker, or there is none.  Who takes a *)
(* like back has found one.                                                *)
LikersInv == /\ \A e \in Ids : entries[e].like = 0 <=> entries[e].liker = Nobody
             /\ \A c \in Calls : calls[c].at = "unlike" => calls[c].like # 0

(* A call of removePost is about a post, be it gone. *)
RemovalsInv ==
  \A c \in Calls : calls[c].at = "remove"
    => calls[c].entry \in Ids /\ calls[c].entry \notin CommentsThere

PostsInv == /\ TypeOK /\ FreshInv /\ LikersInv /\ RemovalsInv
            /\ LikesCoverLikers /\ EveryPostCanBeLiked /\ ThreadsStandTogether
-----------------------------------------------------------------------------
LEMMA EmptyRecords ==
  /\ NoEntry \in Entry /\ NoEntry.kind = "none" /\ NoEntry.likes = 0
  /\ NoEntry.like = 0 /\ NoEntry.liker = Nobody
  /\ NoCall \in Call /\ NoCall.at = "idle" /\ NoCall.entry = 0
BY DEF NoEntry, Entry, NoCall, Call

LEMMA EntryTyped ==
  ASSUME TypeOK, NEW e \in Ids
  PROVE  /\ entries[e] \in Entry
         /\ entries[e].kind \in {"none", "post", "comment"}
         /\ entries[e].author \in Users \cup {Nobody}
         /\ entries[e].post \in Ids \cup {0} /\ entries[e].parent \in Ids \cup {0}
         /\ entries[e].counter \in BOOLEAN /\ entries[e].likes \in Int
         /\ entries[e].like \in Nat /\ entries[e].liker \in Users \cup {Nobody}
BY DEF TypeOK, Entry

(* What likes never change of an entry. *)
Same(r, s) == /\ s.kind = r.kind /\ s.author = r.author
              /\ s.post = r.post /\ s.parent = r.parent

LEMMA LikedEntry ==
  ASSUME NEW entry \in Entry, NEW id \in Nat, NEW who \in Users \cup {Nobody},
         NEW n \in Int
  PROVE  [entry EXCEPT !.like = id, !.liker = who, !.likes = n] \in Entry
<1>1. [entry EXCEPT !.like = id, !.liker = who] \in Entry
  BY DEF Entry
<1>2. [[entry EXCEPT !.like = id, !.liker = who] EXCEPT !.likes = n] \in Entry
  BY <1>1 DEF Entry
<1>3. [[entry EXCEPT !.like = id, !.liker = who] EXCEPT !.likes = n]
        = [entry EXCEPT !.like = id, !.liker = who, !.likes = n]
  BY DEF Entry
<1>4. QED BY <1>2, <1>3

LEMMA CallTyped ==
  ASSUME TypeOK, NEW c \in Calls
  PROVE  /\ calls[c] \in Call /\ calls[c].entry \in Ids \cup {0}
         /\ calls[c].like \in Nat
         /\ calls[c].at \in {"idle", "counter", "remove", "notify", "unlike",
                             "decrement"}
BY DEF TypeOK, Call

LEMMA DecrementsFinite ==
  ASSUME NEW e
  PROVE  IsFiniteSet(Decrements(e)) /\ Cardinality(Decrements(e)) \in Nat
<1>1. Decrements(e) \in SUBSET Calls
  BY DEF Decrements
<1>2. QED BY <1>1, CallsAssumption, FS_Subset, FS_CardinalityType

LEMMA InitEstablishes == Init => PostsInv
<1> SUFFICES ASSUME Init PROVE PostsInv
  OBVIOUS
<1> USE EmptyRecords, BoundsAssumption DEF Init
<1>1. TypeOK
  BY DEF TypeOK, Ids
<1>2. FreshInv /\ LikersInv /\ RemovalsInv
  BY DEF FreshInv, LikersInv, RemovalsInv, Ids
<1>3. LikesCoverLikers /\ EveryPostCanBeLiked /\ ThreadsStandTogether
  BY DEF LikesCoverLikers, EveryPostCanBeLiked, ThreadsStandTogether, There,
         PostsThere, CommentsThere
<1>4. QED BY <1>1, <1>2, <1>3 DEF PostsInv
-----------------------------------------------------------------------------
(* What deleting entries leaves of each. *)
LEMMA Dropped ==
  ASSUME TypeOK, NEW gone \in SUBSET Ids, Drop(gone)
  PROVE  /\ entries' \in [Ids -> Entry]
         /\ \A x \in gone : entries'[x] = NoEntry
         /\ \A x \in Ids \ gone :
              /\ entries'[x].kind = entries[x].kind
              /\ entries'[x].post = entries[x].post
              /\ entries'[x].counter = entries[x].counter
              /\ entries'[x].likes = entries[x].likes
              /\ entries'[x].like = entries[x].like
              /\ entries'[x].liker = entries[x].liker
              /\ entries[x] = NoEntry => entries'[x] = NoEntry
              /\ entries'[x].parent = IF entries[x].parent \in gone THEN 0
                                      ELSE entries[x].parent
<1>1. ASSUME NEW x \in Ids \ gone
      PROVE  /\ entries'[x] \in Entry
             /\ entries'[x].kind = entries[x].kind
             /\ entries'[x].post = entries[x].post
             /\ entries'[x].counter = entries[x].counter
             /\ entries'[x].likes = entries[x].likes
             /\ entries'[x].like = entries[x].like
             /\ entries'[x].liker = entries[x].liker
             /\ entries[x] = NoEntry => entries'[x] = NoEntry
             /\ entries'[x].parent = IF entries[x].parent \in gone THEN 0
                                     ELSE entries[x].parent
  <2>1. CASE entries[x].parent \in gone
    <3>1. entries'[x] = [entries[x] EXCEPT !.parent = 0]
      BY <1>1, <2>1 DEF Drop
    <3>2. entries[x] # NoEntry
      BY <2>1 DEF NoEntry, Ids
    <3>3. QED BY <2>1, <3>1, <3>2, EntryTyped DEF Entry
  <2>2. CASE entries[x].parent \notin gone
    <3>1. entries'[x] = entries[x]
      BY <1>1, <2>2 DEF Drop
    <3>2. QED BY <2>2, <3>1, EntryTyped
  <2>3. QED BY <2>1, <2>2
<1>2. \A x \in gone : entries'[x] = NoEntry
  BY DEF Drop
<1>3. entries' \in [Ids -> Entry]
  BY <1>1, <1>2, EmptyRecords DEF Drop
<1>4. QED BY <1>1, <1>2, <1>3
-----------------------------------------------------------------------------
LEMMA TypeStep ==
  ASSUME TypeOK, [Next]_vars PROVE TypeOK'
<1> USE EmptyRecords, BoundsAssumption
<1>1. ASSUME NEW c \in Calls, NEW at \in {"idle", "counter", "remove", "notify",
                                          "unlike", "decrement"},
             NEW e \in Ids \cup {0}, NEW like \in Nat, Goto(c, at, e, like)
      PROVE  calls' \in [Calls -> Call]
  BY <1>1 DEF Goto, TypeOK, Call
<1>2. ASSUME NEW c \in Calls, Return(c) PROVE calls' \in [Calls -> Call]
  BY <1>2 DEF Return, TypeOK
<1>3. ASSUME NEW c \in Calls, CreatePostLike(c) PROVE TypeOK'
  <2>1. calls' \in [Calls -> Call]
    BY <1>2, <1>3 DEF CreatePostLike
  <2>2. entries' \in [Ids -> Entry]
    <3>1. CASE ~There(calls[c].entry)
      BY <1>3, <3>1 DEF CreatePostLike, TypeOK
    <3>2. CASE There(calls[c].entry)
      <4>1. [entries[calls[c].entry] EXCEPT !.counter = TRUE] \in Entry
        BY <3>2, EntryTyped DEF There, Entry
      <4>2. QED BY <1>3, <3>2, <4>1 DEF CreatePostLike, There, TypeOK
    <3>3. QED BY <3>1, <3>2
  <2>3. QED BY <1>3, <2>1, <2>2 DEF CreatePostLike, TypeOK
<1>4. ASSUME NEW c \in Calls, DeletePost(c) PROVE TypeOK'
  <2>1. calls' \in [Calls -> Call]
    BY <1>2, <1>4 DEF DeletePost
  <2>2. There(calls[c].entry) => Cascaded(calls[c].entry) \in SUBSET Ids
    BY DEF There, Cascaded, CommentsThere
  <2>3. entries' \in [Ids -> Entry]
    BY <1>4, <2>2, Dropped DEF DeletePost, TypeOK
  <2>4. QED BY <1>4, <2>1, <2>3 DEF DeletePost, TypeOK
<1>5. ASSUME NEW c \in Calls, Notify(c) PROVE TypeOK'
  BY <1>2, <1>5 DEF Notify, TypeOK
<1>6. ASSUME NEW c \in Calls, DeleteUserLike(c) PROVE TypeOK'
  <2>1. CASE UNCHANGED entries
    BY <1>2, <1>1, <1>6, <2>1, CallTyped DEF DeleteUserLike, TypeOK
  <2>2. CASE entries' # entries
    <3>1. /\ calls[c].entry \in Ids /\ Goto(c, "decrement", calls[c].entry, 0)
          /\ entries' = [entries EXCEPT ![calls[c].entry] =
               [@ EXCEPT !.like = 0, !.liker = Nobody,
                         !.likes = entries[calls[c].entry].likes + DecreasePostLike]]
      BY <1>6, <2>2 DEF DeleteUserLike, There
    <3>2. calls' \in [Calls -> Call]
      BY <1>1, <3>1
    <3>3. entries' \in [Ids -> Entry]
      <4>1. [entries[calls[c].entry] EXCEPT !.like = 0, !.liker = Nobody,
               !.likes = entries[calls[c].entry].likes + DecreasePostLike] \in Entry
        <5> DEFINE e == calls[c].entry
        <5>1. entries[e].likes + DecreasePostLike \in Int /\ entries[e] \in Entry
          BY <3>1, EntryTyped DEF DecreasePostLike
        <5>2. QED BY <5>1, LikedEntry
      <4>2. QED BY <3>1, <4>1 DEF TypeOK
    <3>4. QED BY <1>6, <3>2, <3>3 DEF DeleteUserLike, TypeOK
  <2>3. QED BY <2>1, <2>2
<1>7. ASSUME NEW c \in Calls, DecrementLikes(c) PROVE TypeOK'
  <2>1. calls' \in [Calls -> Call]
    BY <1>2, <1>7 DEF DecrementLikes
  <2>2. entries' \in [Ids -> Entry]
    BY <1>7, EntryTyped DEF DecrementLikes, There, TypeOK, Entry
  <2>3. QED BY <1>7, <2>1, <2>2 DEF DecrementLikes, TypeOK
<1>8. ASSUME NEW c \in Calls, NEW u \in Users, CreatePost(c, u) PROVE TypeOK'
  <2>1. calls' \in [Calls -> Call]
    BY <1>1, <1>8 DEF CreatePost
  <2>2. [NoEntry EXCEPT !.kind = "post", !.author = u] \in Entry
    BY DEF Entry
  <2>3. QED BY <1>8, <2>1, <2>2 DEF CreatePost, TypeOK, Ids
<1>9. ASSUME NEW c \in Calls, NEW u \in Users, NEW e \in Ids,
             RemovePost(c, u, e) \/ UnlikeEntry(c, u, e) PROVE TypeOK'
  BY <1>1, <1>9, EntryTyped DEF RemovePost, UnlikeEntry, TypeOK
<1>10. ASSUME NEW c \in Calls, NEW u \in Users, NEW post \in Ids \cup {0},
              NEW parent \in Ids \cup {0}, NewComment(c, u, post, parent)
       PROVE  TypeOK'
  <2>1. calls' \in [Calls -> Call]
    BY <1>1, <1>10 DEF NewComment, TypeOK
  <2>2. [NoEntry EXCEPT !.kind = "comment", !.author = u, !.post = post,
                        !.parent = parent, !.counter = TRUE] \in Entry
    BY DEF Entry
  <2>3. QED BY <1>10, <2>1, <2>2 DEF NewComment, TypeOK, Ids
<1>11. ASSUME NEW u \in Users, NEW e \in Ids, LikeEntry(u, e) PROVE TypeOK'
  <2>1. ConnectOrCreate(entries[e], u) \in Entry
    <3>1. [entries[e] EXCEPT !.like = nextLike, !.liker = u,
                             !.likes = entries[e].likes + IncreasePostLike] \in Entry
      <4>1. entries[e].likes + IncreasePostLike \in Int /\ nextLike \in Nat
        BY EntryTyped DEF TypeOK, IncreasePostLike
      <4>2. QED BY <4>1, EntryTyped, LikedEntry
    <3>2. QED BY <3>1, EntryTyped DEF ConnectOrCreate
  <2>2. [ConnectOrCreate(entries[e], u)
           EXCEPT !.likes = ConnectOrCreate(entries[e], u).likes + 1] \in Entry
    BY <2>1 DEF Entry
  <2>3. QED BY <1>11, <2>2 DEF LikeEntry, TypeOK
<1>12. ASSUME NEW e \in Ids, RemoveComment(e) PROVE TypeOK'
  <2>1. entries' \in [Ids -> Entry]
    BY <1>12, Dropped DEF RemoveComment
  <2>2. QED BY <1>12, <2>1 DEF RemoveComment, TypeOK
<1>13. ASSUME Restart PROVE TypeOK'
  BY <1>13 DEF Restart, TypeOK
<1>14. CASE UNCHANGED vars
  BY <1>14 DEF vars, TypeOK
<1>15. QED
  BY <1>3, <1>4, <1>5, <1>6, <1>7, <1>8, <1>9, <1>10, <1>11, <1>12, <1>13, <1>14
  DEF Next
-----------------------------------------------------------------------------
(* What each of the steps on one entry writes to it. *)
LEMMA CounterCreated ==
  ASSUME TypeOK, NEW c \in Calls, CreatePostLike(c)
  PROVE  \A x \in Ids : /\ Same(entries[x], entries'[x])
                        /\ entries'[x].likes = entries[x].likes
                        /\ entries'[x].like = entries[x].like
                        /\ entries'[x].liker = entries[x].liker
                        /\ entries[x].counter => entries'[x].counter
                        /\ x = calls[c].entry /\ There(x) => entries'[x].counter
<1> TAKE x \in Ids
<1>1. CASE ~There(calls[c].entry)
  BY <1>1 DEF CreatePostLike, Same
<1>2. CASE There(calls[c].entry) /\ x # calls[c].entry
  BY <1>2 DEF CreatePostLike, Same, TypeOK
<1>3. CASE There(calls[c].entry) /\ x = calls[c].entry
  <2>1. entries'[x] = [entries[x] EXCEPT !.counter = TRUE]
    BY <1>3 DEF CreatePostLike, TypeOK
  <2>2. QED BY <2>1, <1>3, EntryTyped DEF Same, Entry
<1>4. QED BY <1>1, <1>2, <1>3

LEMMA Liked ==
  ASSUME TypeOK, NEW u \in Users, NEW e \in Ids, LikeEntry(u, e)
  PROVE  /\ \A x \in Ids \ {e} : entries'[x] = entries[x]
         /\ There(e) /\ Same(entries[e], entries'[e])
         /\ entries'[e].counter = entries[e].counter
         /\ entries'[e].likes = entries[e].likes + 1
         /\ IF entries[e].like = 0
            THEN entries'[e].like = nextLike /\ entries'[e].liker = u
            ELSE entries'[e].like = entries[e].like /\ entries'[e].liker = entries[e].liker
<1> DEFINE r == ConnectOrCreate(entries[e], u)
<1>1. entries'[e] = [r EXCEPT !.likes = r.likes + 1]
  BY DEF LikeEntry, TypeOK
<1>2. There(e) /\ \A x \in Ids \ {e} : entries'[x] = entries[x]
  BY DEF LikeEntry, TypeOK
<1>3. /\ r \in Entry /\ Same(entries[e], r) /\ r.counter = entries[e].counter
      /\ r.likes = entries[e].likes
      /\ IF entries[e].like = 0 THEN r.like = nextLike /\ r.liker = u
         ELSE r.like = entries[e].like /\ r.liker = entries[e].liker
  <2>1. CASE entries[e].like # 0
    <3>1. r = entries[e]
      BY <2>1 DEF ConnectOrCreate
    <3> HIDE DEF r
    <3>2. QED BY <2>1, <3>1, EntryTyped DEF Same
  <2>2. CASE entries[e].like = 0
    <3>1. r = [entries[e] EXCEPT !.like = nextLike, !.liker = u,
                                 !.likes = entries[e].likes + IncreasePostLike]
      BY <2>2 DEF ConnectOrCreate
    <3>2. entries[e].likes + IncreasePostLike = entries[e].likes
      BY EntryTyped DEF IncreasePostLike
    <3>3. /\ nextLike \in Nat /\ entries[e] \in Entry /\ entries[e].likes \in Int
          /\ u \in Users \cup {Nobody}
      BY EntryTyped DEF TypeOK
    <3> HIDE DEF r
    <3>4. r = [entries[e] EXCEPT !.like = nextLike, !.liker = u,
                                 !.likes = entries[e].likes]
      BY <3>1, <3>2
    <3>5. r \in Entry
      BY <3>3, <3>4, LikedEntry
    <3>6. /\ Same(entries[e], r) /\ r.counter = entries[e].counter
          /\ r.likes = entries[e].likes /\ r.like = nextLike /\ r.liker = u
      BY <3>3, <3>4 DEF Same, Entry
    <3>7. QED BY <2>2, <3>5, <3>6
  <2>3. QED BY <2>1, <2>2
<1> HIDE DEF r
<1>4. /\ Same(r, entries'[e]) /\ entries'[e].counter = r.counter
      /\ entries'[e].likes = r.likes + 1
      /\ entries'[e].like = r.like /\ entries'[e].liker = r.liker
  BY <1>1, <1>3 DEF Same, Entry
<1>5. QED BY <1>2, <1>3, <1>4 DEF Same

LEMMA Unliked ==
  ASSUME TypeOK, NEW c \in Calls, DeleteUserLike(c), entries' # entries
  PROVE  LET e == calls[c].entry
         IN /\ e \in Ids /\ There(e) /\ entries[e].like = calls[c].like
            /\ Goto(c, "decrement", e, 0)
            /\ \A x \in Ids \ {e} : entries'[x] = entries[x]
            /\ Same(entries[e], entries'[e])
            /\ entries'[e].counter = entries[e].counter
            /\ entries'[e].likes = entries[e].likes
            /\ entries'[e].like = 0 /\ entries'[e].liker = Nobody
<1> DEFINE e == calls[c].entry
<1>1. /\ e \in Ids /\ There(e) /\ entries[e].like = calls[c].like
      /\ Goto(c, "decrement", e, 0)
      /\ entries' = [entries EXCEPT ![e] =
           [@ EXCEPT !.like = 0, !.liker = Nobody,
                     !.likes = entries[e].likes + DecreasePostLike]]
  BY DEF DeleteUserLike, There
<1>2. /\ \A x \in Ids \ {e} : entries'[x] = entries[x]
      /\ entries'[e] = [entries[e] EXCEPT !.like = 0, !.liker = Nobody,
                           !.likes = entries[e].likes + DecreasePostLike]
  BY <1>1 DEF TypeOK
<1>3. entries[e].likes + DecreasePostLike = entries[e].likes
  BY <1>1, EntryTyped DEF DecreasePostLike
<1>4. /\ Same(entries[e], entries'[e])
      /\ entries'[e].counter = entries[e].counter
      /\ entries'[e].likes = entries[e].likes
      /\ entries'[e].like = 0 /\ entries'[e].liker = Nobody
  <2>1. entries[e] \in Entry /\ entries[e].likes \in Int
    BY <1>1, EntryTyped
  <2>2. entries'[e] = [entries[e] EXCEPT !.like = 0, !.liker = Nobody,
                                         !.likes = entries[e].likes]
    BY <1>2, <1>3
  <2> HIDE DEF e
  <2>3. QED BY <2>1, <2>2 DEF Same, Entry
<1>5. QED BY <1>1, <1>2, <1>4

LEMMA Decremented ==
  ASSUME TypeOK, NEW c \in Calls, DecrementLikes(c)
  PROVE  \A x \in Ids : /\ Same(entries[x], entries'[x])
                        /\ entries'[x].counter = entries[x].counter
                        /\ entries'[x].like = entries[x].like
                        /\ entries'[x].liker = entries[x].liker
                        /\ entries'[x].likes =
                             entries[x].likes - (IF x = calls[c].entry /\ There(x)
                                                 THEN 1 ELSE 0)
<1> TAKE x \in Ids
<1>1. CASE ~There(calls[c].entry)
  BY <1>1, EntryTyped DEF DecrementLikes, Same
<1>2. CASE There(calls[c].entry) /\ x # calls[c].entry
  BY <1>2, EntryTyped DEF DecrementLikes, Same, TypeOK
<1>3. CASE There(calls[c].entry) /\ x = calls[c].entry
  <2>1. entries'[x] = [entries[x] EXCEPT !.likes = entries[x].likes - 1]
    BY <1>3 DEF DecrementLikes, TypeOK
  <2>2. QED BY <2>1, <1>3, EntryTyped DEF Same, Entry
<1>4. QED BY <1>1, <1>2, <1>3
-----------------------------------------------------------------------------
(* Where a call is after its step. *)
LEMMA Went ==
  ASSUME TypeOK, NEW c \in Calls, NEW at, NEW e, NEW like, Goto(c, at, e, like)
  PROVE  \A d \in Calls : /\ calls'[d].at = IF d = c THEN at ELSE calls[d].at
                          /\ calls'[d].entry = IF d = c THEN e ELSE calls[d].entry
                          /\ calls'[d].like = IF d = c THEN like ELSE calls[d].like
BY DEF Goto, TypeOK

LEMMA Returned ==
  ASSUME TypeOK, NEW c \in Calls, Return(c)
  PROVE  \A d \in Calls : calls'[d] = IF d = c THEN NoCall ELSE calls[d]
BY DEF Return, TypeOK

LEMMA FreshStep ==
  ASSUME TypeOK, FreshInv, [Next]_vars PROVE FreshInv'
<1> USE EmptyRecords
<1>1. ASSUME NEW c \in Calls, NEW at, NEW e \in Ids \cup {0}, NEW like,
             nextEntry' \in Int, e < nextEntry', nextEntry' >= nextEntry,
             Goto(c, at, e, like)
      PROVE  \A d \in Calls : calls'[d].entry < nextEntry'
  <2> TAKE d \in Calls
  <2>1. calls'[d].entry = IF d = c THEN e ELSE calls[d].entry
    BY <1>1, Went
  <2>2. nextEntry \in Int /\ nextEntry' \in Int /\ calls[d].entry \in Int /\ e \in Int
    BY <1>1, CallTyped DEF TypeOK, Ids
  <2>3. QED BY <1>1, <2>1, <2>2 DEF FreshInv
<1>2. ASSUME NEW c \in Calls, Return(c), nextEntry' = nextEntry
      PROVE  \A d \in Calls : calls'[d].entry < nextEntry'
  BY <1>2, CallTyped DEF Return, FreshInv, TypeOK, Ids
<1>3. ASSUME NEW e \in Ids PROVE There(e) => e < nextEntry
  BY <1>3 DEF There, FreshInv, TypeOK, Ids
<1>4. ASSUME NEW c \in Calls, CreatePostLike(c) PROVE FreshInv'
  <2>1. \A e \in Ids : e >= nextEntry => entries'[e] = entries[e]
    <3> TAKE e \in Ids
    <3> HAVE e >= nextEntry
    <3>1. ~There(e)
      BY <1>3 DEF TypeOK, Ids
    <3>2. QED BY <1>4, <3>1 DEF CreatePostLike, TypeOK
  <2>2. QED BY <1>2, <1>4, <2>1 DEF CreatePostLike, FreshInv
<1>5. ASSUME NEW c \in Calls, DeletePost(c) PROVE FreshInv'
  <2>1. There(calls[c].entry) => Cascaded(calls[c].entry) \in SUBSET Ids
    BY DEF There, Cascaded, CommentsThere
  <2>2. \A e \in Ids : entries[e] = NoEntry => entries'[e] = NoEntry
    BY <1>5, <2>1, Dropped DEF DeletePost
  <2>3. QED BY <1>2, <1>5, <2>2 DEF DeletePost, FreshInv
<1>6. ASSUME NEW c \in Calls, Notify(c) PROVE FreshInv'
  BY <1>2, <1>6 DEF Notify, FreshInv
<1>7. ASSUME NEW c \in Calls, DeleteUserLike(c) PROVE FreshInv'
  <2>1. CASE entries' = entries
    <3>1. \A d \in Calls : calls'[d].entry < nextEntry'
      BY <1>7, <2>1, CallTyped DEF DeleteUserLike, Goto, Return, FreshInv, TypeOK, Ids
    <3>2. QED BY <1>7, <2>1, <3>1 DEF DeleteUserLike, FreshInv
  <2>2. CASE entries' # entries
    <3>1. calls[c].entry < nextEntry
      BY DEF FreshInv
    <3>2. \A d \in Calls : calls'[d].entry < nextEntry'
      <4>1. nextEntry' = nextEntry /\ nextEntry \in Int
        BY <1>7 DEF DeleteUserLike, TypeOK
      <4>2. calls[c].entry \in Ids /\ Goto(c, "decrement", calls[c].entry, 0)
        BY <1>7, <2>2, Unliked
      <4>3. QED BY <1>1, <3>1, <4>1, <4>2
    <3>3. \A e \in Ids : e >= nextEntry => entries'[e] = entries[e]
      BY <1>7, <2>2, <3>1, Unliked DEF TypeOK, Ids
    <3>4. QED BY <1>7, <3>2, <3>3 DEF DeleteUserLike, FreshInv
  <2>3. QED BY <2>1, <2>2
<1>8. ASSUME NEW c \in Calls, DecrementLikes(c) PROVE FreshInv'
  <2>1. \A e \in Ids : e >= nextEntry => entries'[e] = entries[e]
    <3> TAKE e \in Ids
    <3> HAVE e >= nextEntry
    <3>1. ~There(e)
      BY <1>3 DEF TypeOK, Ids
    <3>2. QED BY <1>8, <3>1 DEF DecrementLikes, TypeOK
  <2>2. QED BY <1>2, <1>8, <2>1 DEF DecrementLikes, FreshInv
<1>9. ASSUME NEW c \in Calls, NEW u \in Users, CreatePost(c, u) PROVE FreshInv'
  <2>1. \A d \in Calls : calls'[d].entry < nextEntry'
    BY <1>1, <1>9 DEF CreatePost, Ids, TypeOK
  <2>2. \A e \in Ids : e >= nextEntry' => entries'[e] = NoEntry
    BY <1>9 DEF CreatePost, FreshInv, TypeOK, Ids
  <2>3. QED BY <2>1, <2>2 DEF FreshInv
<1>10. ASSUME NEW c \in Calls, NEW u \in Users, NEW e \in Ids,
              RemovePost(c, u, e) \/ UnlikeEntry(c, u, e)
       PROVE  FreshInv'
  <2>1. e < nextEntry /\ nextEntry' = nextEntry /\ entries' = entries
    BY <1>3, <1>10 DEF RemovePost, UnlikeEntry, There, PostsThere
  <2>2. \A d \in Calls : calls'[d].entry < nextEntry'
    BY <1>1, <1>10, <2>1 DEF RemovePost, UnlikeEntry, TypeOK, Ids
  <2>3. QED BY <2>1, <2>2 DEF FreshInv
<1>11. ASSUME NEW c \in Calls, NEW u \in Users, NEW post, NEW parent,
              NewComment(c, u, post, parent)
       PROVE  FreshInv'
  <2>1. \A d \in Calls : calls'[d].entry < nextEntry'
    BY <1>1, <1>11, CallTyped DEF NewComment, Ids, TypeOK, FreshInv
  <2>2. \A e \in Ids : e >= nextEntry' => entries'[e] = NoEntry
    BY <1>11 DEF NewComment, FreshInv, TypeOK, Ids
  <2>3. QED BY <2>1, <2>2 DEF FreshInv
<1>12. ASSUME NEW u \in Users, NEW e \in Ids, LikeEntry(u, e) PROVE FreshInv'
  <2>1. e < nextEntry
    BY <1>3, <1>12 DEF LikeEntry
  <2>2. \A x \in Ids : x >= nextEntry => entries'[x] = entries[x]
    BY <1>12, <2>1, Liked DEF TypeOK, Ids
  <2>3. QED BY <1>12, <2>2 DEF LikeEntry, FreshInv
<1>13. ASSUME NEW e \in Ids, RemoveComment(e) PROVE FreshInv'
  <2>1. \A x \in Ids : entries[x] = NoEntry => entries'[x] = NoEntry
    BY <1>13, Dropped DEF RemoveComment
  <2>2. QED BY <1>13, <2>1 DEF RemoveComment, FreshInv
<1>14. ASSUME Restart PROVE FreshInv'
  BY <1>14 DEF Restart, FreshInv, TypeOK, Ids
<1>15. CASE UNCHANGED vars
  BY <1>15 DEF vars, FreshInv
<1>16. QED
  BY <1>4, <1>5, <1>6, <1>7, <1>8, <1>9, <1>10, <1>11, <1>12, <1>13, <1>14, <1>15
  DEF Next
-----------------------------------------------------------------------------
LEMMA DroppedPost ==
  ASSUME TypeOK, NEW c \in Calls, DeletePost(c), entries' # entries
  PROVE  /\ calls[c].entry \in Ids /\ There(calls[c].entry)
         /\ Cascaded(calls[c].entry) \in SUBSET Ids /\ Drop(Cascaded(calls[c].entry))
BY DEF DeletePost, There, Cascaded, CommentsThere

LEMMA LikersStep ==
  ASSUME TypeOK, LikersInv, [Next]_vars PROVE LikersInv'
<1> USE EmptyRecords
<1> DEFINE Rows(r) == r.like = 0 <=> r.liker = Nobody
<1>0. \A e \in Ids : Rows(entries[e])
  BY DEF LikersInv
<1>1. ASSUME NEW gone \in SUBSET Ids, Drop(gone)
      PROVE  \A e \in Ids : Rows(entries'[e])
  BY <1>0, <1>1, Dropped
<1>2. ASSUME NEW c \in Calls, NEW at, NEW e, NEW like, Goto(c, at, e, like),
             at = "unlike" => like # 0
      PROVE  \A d \in Calls : calls'[d].at = "unlike" => calls'[d].like # 0
  BY <1>2, Went DEF LikersInv
<1>3. ASSUME NEW c \in Calls, Return(c)
      PROVE  \A d \in Calls : calls'[d].at = "unlike" => calls'[d].like # 0
  BY <1>3, Returned DEF LikersInv
<1>4. ASSUME NEW c \in Calls, CreatePostLike(c) PROVE LikersInv'
  <2>1. \A e \in Ids : Rows(entries'[e])
    BY <1>0, <1>4, CounterCreated
  <2>2. QED BY <1>3, <1>4, <2>1 DEF CreatePostLike, LikersInv
<1>5. ASSUME NEW c \in Calls, DeletePost(c) PROVE LikersInv'
  <2>1. \A e \in Ids : Rows(entries'[e])
    BY <1>0, <1>1, <1>5, DroppedPost
  <2>2. QED BY <1>3, <1>5, <2>1 DEF DeletePost, LikersInv
<1>6. ASSUME NEW c \in Calls, Notify(c) PROVE LikersInv'
  BY <1>3, <1>6 DEF Notify, LikersInv
<1>7. ASSUME NEW c \in Calls, DeleteUserLike(c) PROVE LikersInv'
  <2>1. CASE entries' = entries
    <3>1. Return(c) \/ Goto(c, "decrement", calls[c].entry, 0)
      BY <1>7 DEF DeleteUserLike
    <3>2. QED BY <1>2, <1>3, <2>1, <3>1 DEF LikersInv
  <2>2. CASE entries' # entries
    <3>1. \A e \in Ids : Rows(entries'[e])
      BY <1>0, <1>7, <2>2, Unliked
    <3>2. \A d \in Calls : calls'[d].at = "unlike" => calls'[d].like # 0
      BY <1>2, <1>7, <2>2, Unliked
    <3>3. QED BY <3>1, <3>2 DEF LikersInv
  <2>3. QED BY <2>1, <2>2
<1>8. ASSUME NEW c \in Calls, DecrementLikes(c) PROVE LikersInv'
  <2>1. \A e \in Ids : Rows(entries'[e])
    BY <1>0, <1>8, Decremented
  <2>2. QED BY <1>3, <1>8, <2>1 DEF DecrementLikes, LikersInv
<1>9. ASSUME NEW c \in Calls, NEW u \in Users, CreatePost(c, u) PROVE LikersInv'
  <2>1. \A e \in Ids : Rows(entries'[e])
    BY <1>0, <1>9 DEF CreatePost, TypeOK, NoEntry
  <2>2. QED BY <1>2, <1>9, <2>1 DEF CreatePost, LikersInv
<1>10. ASSUME NEW c \in Calls, NEW u \in Users, NEW e \in Ids,
              RemovePost(c, u, e) \/ UnlikeEntry(c, u, e)
       PROVE  LikersInv'
  <2>1. CASE RemovePost(c, u, e)
    BY <1>2, <2>1 DEF RemovePost, LikersInv
  <2>2. CASE UnlikeEntry(c, u, e)
    <3>1. entries[e].like # 0
      BY <1>0, <2>2, NobodyAssumption DEF UnlikeEntry
    <3>2. QED BY <1>2, <2>2, <3>1 DEF UnlikeEntry, LikersInv
  <2>3. QED BY <1>10, <2>1, <2>2
<1>11. ASSUME NEW c \in Calls, NEW u \in Users, NEW post, NEW parent,
              NewComment(c, u, post, parent)
       PROVE  LikersInv'
  <2>1. \A e \in Ids : Rows(entries'[e])
    BY <1>0, <1>11 DEF NewComment, TypeOK, NoEntry
  <2>2. QED BY <1>2, <1>11, <2>1 DEF NewComment, LikersInv
<1>12. ASSUME NEW u \in Users, NEW e \in Ids, LikeEntry(u, e) PROVE LikersInv'
  <2>1. nextLike # 0
    BY BoundsAssumption DEF TypeOK
  <2>2. \A x \in Ids : Rows(entries'[x])
    BY <1>0, <1>12, <2>1, Liked, NobodyAssumption
  <2>3. QED BY <1>12, <2>2 DEF LikeEntry, LikersInv
<1>13. ASSUME NEW e \in Ids, RemoveComment(e) PROVE LikersInv'
  BY <1>1, <1>13 DEF RemoveComment, LikersInv
<1>14. ASSUME Restart PROVE LikersInv'
  BY <1>14 DEF Restart, LikersInv
<1>15. CASE UNCHANGED vars
  BY <1>15 DEF vars, LikersInv
<1>16. QED
  BY <1>4, <1>5, <1>6, <1>7, <1>8, <1>9, <1>10, <1>11, <1>12, <1>13, <1>14, <1>15
  DEF Next

(* An entry keeps what it is until it has gone. *)
LEMMA EntriesKept ==
  ASSUME TypeOK, [Next]_vars, NEW e \in Ids, e # nextEntry
  PROVE  entries'[e].kind \in {entries[e].kind, "none"}
<1> USE EmptyRecords
<1>1. ASSUME NEW gone \in SUBSET Ids, Drop(gone)
      PROVE  entries'[e].kind \in {entries[e].kind, "none"}
  BY <1>1, Dropped
<1>2. ASSUME NEW c \in Calls, CreatePostLike(c) \/ DecrementLikes(c)
      PROVE  entries'[e].kind = entries[e].kind
  BY <1>2, CounterCreated, Decremented DEF Same
<1>3. ASSUME NEW c \in Calls, DeletePost(c)
      PROVE  entries'[e].kind \in {entries[e].kind, "none"}
  BY <1>1, <1>3, DroppedPost
<1>4. ASSUME NEW c \in Calls, DeleteUserLike(c)
      PROVE  entries'[e].kind = entries[e].kind
  BY <1>4, Unliked DEF Same
<1>5. ASSUME NEW u \in Users, NEW x \in Ids, LikeEntry(u, x)
      PROVE  entries'[e].kind = entries[e].kind
  BY <1>5, Liked DEF Same
<1>6. ASSUME NEW c \in Calls, NEW u \in Users, CreatePost(c, u)
      PROVE  entries'[e] = entries[e]
  BY <1>6 DEF CreatePost, TypeOK
<1>7. ASSUME NEW c \in Calls, NEW u \in Users, NEW post, NEW parent,
             NewComment(c, u, post, parent)
      PROVE  entries'[e] = entries[e]
  BY <1>7 DEF NewComment, TypeOK
<1>8. ASSUME NEW x \in Ids, RemoveComment(x)
      PROVE  entries'[e].kind \in {entries[e].kind, "none"}
  BY <1>1, <1>8 DEF RemoveComment
<1>9. QED
  BY <1>2, <1>3, <1>4, <1>5, <1>6, <1>7, <1>8
  DEF Next, vars, Notify, RemovePost, UnlikeEntry, Restart

LEMMA RemovalsStep ==
  ASSUME TypeOK, FreshInv, RemovalsInv, [Next]_vars PROVE RemovalsInv'
<1> USE EmptyRecords
<1>1. \A e \in Ids : e < nextEntry /\ e \notin CommentsThere => e \notin CommentsThere'
  BY EntriesKept DEF CommentsThere, TypeOK, Ids
<1>2. ASSUME NEW c \in Calls, calls'[c].at = "remove" PROVE
        \/ calls[c].at = "remove" /\ calls'[c].entry = calls[c].entry
        \/ calls'[c].entry \in PostsThere
  <2>1. ASSUME NEW d \in Calls, NEW at \in {"counter", "notify", "unlike", "decrement"},
               NEW e, NEW like, Goto(d, at, e, like)
        PROVE  calls[c].at = "remove" /\ calls'[c].entry = calls[c].entry
    BY <1>2, <2>1, Went
  <2>2. ASSUME NEW d \in Calls, Return(d)
        PROVE  calls[c].at = "remove" /\ calls'[c].entry = calls[c].entry
    BY <1>2, <2>2, Returned
  <2>3. ASSUME NEW d \in Calls, NEW u \in Users, NEW e \in Ids, RemovePost(d, u, e)
        PROVE  \/ calls[c].at = "remove" /\ calls'[c].entry = calls[c].entry
               \/ calls'[c].entry \in PostsThere
    BY <1>2, <2>3, Went DEF RemovePost
  <2>4. ~Restart
    BY <1>2 DEF Restart
  <2>5. QED
    BY <1>2, <2>1, <2>2, <2>3, <2>4
    DEF Next, vars, CreatePostLike, DeletePost, Notify, DeleteUserLike, DecrementLikes,
        CreatePost, UnlikeEntry, NewComment, LikeEntry, RemoveComment
<1>3. ASSUME NEW e \in PostsThere
      PROVE  e \in Ids /\ e < nextEntry /\ e \notin CommentsThere
  BY <1>3 DEF PostsThere, CommentsThere, FreshInv, TypeOK, Ids
<1>4. QED BY <1>1, <1>2, <1>3 DEF RemovalsInv, FreshInv
-----------------------------------------------------------------------------
(* What a counter owes: its liker and the likes that are being taken back. *)
Owed(e) == Cardinality(Decrements(e)) + (IF entries[e].like = 0 THEN 0 ELSE 1)

LEMMA LikesStep ==
  ASSUME TypeOK, FreshInv, LikersInv, LikesCoverLikers, [Next]_vars
  PROVE  LikesCoverLikers'
<1> USE EmptyRecords
<1> DEFINE Covered(e) == There(e) => entries[e].likes >= Owed(e)
<1>0. \A e \in Ids : Covered(e)
  BY DEF LikesCoverLikers, Owed
<1> SUFFICES ASSUME NEW e \in Ids PROVE Covered(e)'
  BY DEF LikesCoverLikers, Owed
<1>1. /\ Cardinality(Decrements(e)) \in Nat /\ entries[e].likes \in Int
      /\ IsFiniteSet(Decrements(e)) /\ Owed(e) \in Nat
  BY DecrementsFinite, EntryTyped DEF Owed
<1>2. ASSUME Decrements(e)' = Decrements(e), entries'[e].kind = entries[e].kind,
             entries'[e].likes >= entries[e].likes,
             entries[e].like = 0 => entries'[e].like = 0,
             entries'[e].likes \in Int
      PROVE  Covered(e)'
  BY <1>0, <1>1, <1>2 DEF There, Owed
<1>3. ASSUME NEW c \in Calls, NEW at \in {"counter", "remove", "notify", "unlike"},
             NEW x, NEW like, Goto(c, at, x, like), calls[c].at # "decrement"
      PROVE  Decrements(e)' = Decrements(e)
  BY <1>3, Went DEF Decrements
<1>4. ASSUME NEW c \in Calls, Return(c), calls[c].at # "decrement"
      PROVE  Decrements(e)' = Decrements(e)
  BY <1>4, Returned DEF Decrements
<1>5. ASSUME NEW gone \in SUBSET Ids, Drop(gone), Decrements(e)' = Decrements(e)
      PROVE  Covered(e)'
  <2>1. CASE e \in gone
    BY <1>5, <2>1, Dropped DEF There
  <2>2. CASE e \notin gone
    BY <1>1, <1>2, <1>5, <2>2, Dropped
  <2>3. QED BY <2>1, <2>2
<1>6. ASSUME e = nextEntry, entries'[e].likes = 0, entries'[e].like = 0,
             Decrements(e)' = Decrements(e)
      PROVE  Covered(e)'
  <2>1. Decrements(e) = {}
    BY <1>6 DEF Decrements, FreshInv, TypeOK, Ids
  <2>2. QED BY <1>6, <2>1, FS_EmptySet DEF Owed
<1>7. ASSUME NEW c \in Calls, CreatePostLike(c) PROVE Covered(e)'
  <2>1. Decrements(e)' = Decrements(e)
    BY <1>4, <1>7 DEF CreatePostLike
  <2>2. QED BY <1>1, <1>2, <1>7, <2>1, CounterCreated DEF Same
<1>8. ASSUME NEW c \in Calls, DeletePost(c) PROVE Covered(e)'
  <2>1. Decrements(e)' = Decrements(e)
    BY <1>4, <1>8 DEF DeletePost
  <2>2. QED BY <1>1, <1>2, <1>5, <1>8, <2>1, DroppedPost
<1>9. ASSUME NEW c \in Calls, Notify(c) PROVE Covered(e)'
  <2>1. Decrements(e)' = Decrements(e)
    BY <1>4, <1>9 DEF Notify
  <2>2. QED BY <1>1, <1>2, <1>9, <2>1 DEF Notify
<1>10. ASSUME NEW c \in Calls, DeleteUserLike(c) PROVE Covered(e)'
  <2>1. CASE entries' = entries
    <3>1. Return(c) /\ calls[c].at # "decrement"
      <4>1. calls[c].at = "unlike"
        BY <1>10 DEF DeleteUserLike
      <4>2. CASE Return(c)
        BY <4>1, <4>2
      <4>3. CASE ~Return(c)
        <5>1. /\ There(calls[c].entry) /\ entries[calls[c].entry].like = calls[c].like
              /\ entries' = [entries EXCEPT ![calls[c].entry] =
                   [@ EXCEPT !.like = 0, !.liker = Nobody,
                             !.likes = entries[calls[c].entry].likes + DecreasePostLike]]
          BY <1>10, <4>3 DEF DeleteUserLike
        <5>2. entries'[calls[c].entry].like = 0
          BY <5>1, EntryTyped DEF There, TypeOK, Entry
        <5>3. QED BY <2>1, <4>1, <5>1, <5>2 DEF LikersInv
      <4>4. QED BY <4>2, <4>3
    <3>2. QED BY <1>1, <1>2, <1>4, <2>1, <3>1
  <2>2. CASE entries' # entries /\ e # calls[c].entry
    <3>1. entries'[e] = entries[e] /\ Goto(c, "decrement", calls[c].entry, 0)
      BY <1>10, <2>2, Unliked
    <3>2. Decrements(e)' = Decrements(e)
      BY <1>10, <2>2, <3>1, Went DEF Decrements, DeleteUserLike
    <3>3. QED BY <1>1, <1>2, <3>1, <3>2
  <2>3. CASE entries' # entries /\ e = calls[c].entry
    <3>1. /\ There(e) /\ entries[e].like = calls[c].like /\ Goto(c, "decrement", e, 0)
          /\ entries'[e].likes = entries[e].likes /\ entries'[e].like = 0
          /\ calls[c].at = "unlike"
      BY <1>10, <2>3, Unliked DEF DeleteUserLike
    <3>2. entries[e].like # 0
      BY <3>1 DEF LikersInv
    <3>3. Decrements(e)' = Decrements(e) \cup {c}
      BY <3>1, Went DEF Decrements
    <3>4. c \notin Decrements(e)
      BY <3>1 DEF Decrements
    <3>5. Cardinality(Decrements(e)') = Cardinality(Decrements(e)) + 1
      BY <1>1, <3>3, <3>4, FS_AddElement
    <3>6. QED BY <1>0, <1>1, <3>1, <3>2, <3>5 DEF Owed
  <2>4. QED BY <2>1, <2>2, <2>3
<1>11. ASSUME NEW c \in Calls, DecrementLikes(c) PROVE Covered(e)'
  <2>1. calls[c].at = "decrement" /\ Return(c)
    BY <1>11 DEF DecrementLikes
  <2>2. CASE e # calls[c].entry
    <3>1. Decrements(e)' = Decrements(e)
      BY <2>1, <2>2, Returned DEF Decrements
    <3>2. QED BY <1>1, <1>2, <1>11, <2>2, <3>1, Decremented DEF Same
  <2>3. CASE e = calls[c].entry
    <3>1. Decrements(e)' = Decrements(e) \ {c} /\ c \in Decrements(e)
      BY <2>1, <2>3, Returned DEF Decrements
    <3>2. Cardinality(Decrements(e)') = Cardinality(Decrements(e)) - 1
      BY <1>1, <3>1, FS_RemoveElement
    <3>3. /\ entries'[e].like = entries[e].like
          /\ There(e)' => There(e)
          /\ There(e) => entries'[e].likes = entries[e].likes - 1
      BY <1>11, <2>3, Decremented DEF Same, There
    <3>4. Owed(e)' = Owed(e) - 1
      BY <1>1, <3>2, <3>3 DEF Owed
    <3>5. QED BY <1>0, <1>1, <3>3, <3>4
  <2>4. QED BY <2>2, <2>3
<1>12. ASSUME NEW c \in Calls, NEW u \in Users, CreatePost(c, u) PROVE Covered(e)'
  <2>1. Decrements(e)' = Decrements(e)
    BY <1>3, <1>12 DEF CreatePost
  <2>2. CASE e = nextEntry
    BY <1>6, <1>12, <2>1, <2>2 DEF CreatePost, TypeOK, NoEntry
  <2>3. CASE e # nextEntry
    BY <1>1, <1>2, <1>12, <2>1, <2>3 DEF CreatePost, TypeOK
  <2>4. QED BY <2>2, <2>3
<1>13. ASSUME NEW c \in Calls, NEW u \in Users, NEW x \in Ids,
              RemovePost(c, u, x) \/ UnlikeEntry(c, u, x)
       PROVE  Covered(e)'
  <2>1. Decrements(e)' = Decrements(e) /\ entries' = entries
    BY <1>3, <1>13 DEF RemovePost, UnlikeEntry
  <2>2. QED BY <1>1, <1>2, <2>1
<1>14. ASSUME NEW c \in Calls, NEW u \in Users, NEW post, NEW parent,
              NewComment(c, u, post, parent)
       PROVE  Covered(e)'
  <2>1. Decrements(e)' = Decrements(e)
    BY <1>3, <1>14 DEF NewComment, Decrements
  <2>2. CASE e = nextEntry
    BY <1>6, <1>14, <2>1, <2>2 DEF NewComment, TypeOK, NoEntry
  <2>3. CASE e # nextEntry
    BY <1>1, <1>2, <1>14, <2>1, <2>3 DEF NewComment, TypeOK
  <2>4. QED BY <2>2, <2>3
<1>15. ASSUME NEW u \in Users, NEW x \in Ids, LikeEntry(u, x) PROVE Covered(e)'
  <2>1. Decrements(e)' = Decrements(e)
    BY <1>15 DEF LikeEntry, Decrements
  <2>2. CASE e # x
    BY <1>1, <1>2, <1>15, <2>1, <2>2, Liked
  <2>3. CASE e = x
    <3>1. There(e) /\ entries'[e].likes = entries[e].likes + 1
      BY <1>15, <2>3, Liked
    <3>2. entries[e].likes >= Cardinality(Decrements(e))
      BY <1>0, <1>1, <3>1 DEF Owed
    <3>3. QED BY <1>1, <2>1, <3>1, <3>2, <1>0, <1>15, <2>3, Liked DEF Owed
  <2>4. QED BY <2>2, <2>3
<1>16. ASSUME NEW x \in Ids, RemoveComment(x) PROVE Covered(e)'
  <2>1. Decrements(e)' = Decrements(e)
    BY <1>16 DEF RemoveComment, Decrements
  <2>2. QED BY <1>5, <1>16, <2>1 DEF RemoveComment
<1>17. ASSUME Restart PROVE Covered(e)'
  <2>1. Decrements(e)' = {} /\ entries' = entries
    BY <1>17 DEF Restart, Decrements
  <2>2. Cardinality(Decrements(e)') = 0
    BY <2>1, FS_EmptySet
  <2>3. QED BY <1>0, <1>1, <2>1, <2>2 DEF Owed, There
<1>18. CASE UNCHANGED vars
  <2>1. Decrements(e)' = Decrements(e) /\ entries' = entries
    BY <1>18 DEF vars, Decrements
  <2>2. QED BY <1>1, <1>2, <2>1
<1>19. QED
  BY <1>7, <1>8, <1>9, <1>10, <1>11, <1>12, <1>13, <1>14, <1>15, <1>16, <1>17, <1>18
  DEF Next
-----------------------------------------------------------------------------
LEMMA CreatingStep ==
  ASSUME TypeOK, EveryPostCanBeLiked, [Next]_vars
  PROVE  EveryPostCanBeLiked'
<1> USE EmptyRecords
<1> DEFINE Likeable(e) == e \in PostsThere => entries[e].counter \/ Creating(e) \/ e \in cut
<1>0. \A e \in Ids : Likeable(e)
  BY DEF EveryPostCanBeLiked
<1> SUFFICES ASSUME NEW e \in Ids PROVE Likeable(e)'
  BY DEF EveryPostCanBeLiked, PostsThere
<1>1. ASSUME Creating(e) => Creating(e)', cut' = cut,
             entries'[e].kind = entries[e].kind, entries'[e].counter = entries[e].counter
      PROVE  Likeable(e)'
  BY <1>0, <1>1 DEF PostsThere
<1>2. ASSUME NEW c \in Calls, NEW at, NEW x, NEW like, Goto(c, at, x, like),
             calls[c].at # "counter"
      PROVE  Creating(e) => Creating(e)'
  BY <1>2, Went DEF Creating
<1>3. ASSUME NEW c \in Calls, Return(c),
             calls[c].at # "counter" \/ calls[c].entry # e
      PROVE  Creating(e) => Creating(e)'
  BY <1>3, Returned DEF Creating
<1>4. ASSUME NEW gone \in SUBSET Ids, Drop(gone), Creating(e) => Creating(e)', cut' = cut
      PROVE  Likeable(e)'
  <2>1. CASE e \in gone
    BY <1>4, <2>1, Dropped DEF PostsThere
  <2>2. CASE e \notin gone
    BY <1>1, <1>4, <2>2, Dropped
  <2>3. QED BY <2>1, <2>2
<1>5. ASSUME NEW c \in Calls, CreatePostLike(c) PROVE Likeable(e)'
  <2>1. CASE e = calls[c].entry
    BY <1>5, <2>1, CounterCreated DEF Same, PostsThere, There
  <2>2. CASE e # calls[c].entry
    <3>1. (Creating(e) => Creating(e)') /\ cut' = cut
      BY <1>3, <1>5, <2>2 DEF CreatePostLike
    <3>2. entries'[e].kind = entries[e].kind
      BY <1>5, CounterCreated DEF Same
    <3>3. entries[e].counter => entries'[e].counter
      BY <1>5, CounterCreated
    <3>4. QED BY <1>0, <3>1, <3>2, <3>3 DEF PostsThere
  <2>3. QED BY <2>1, <2>2
<1>6. ASSUME NEW c \in Calls, DeletePost(c) PROVE Likeable(e)'
  <2>1. (Creating(e) => Creating(e)') /\ cut' = cut
    BY <1>3, <1>6 DEF DeletePost
  <2>2. QED BY <1>1, <1>4, <1>6, <2>1, DroppedPost
<1>7. ASSUME NEW c \in Calls, Notify(c) PROVE Likeable(e)'
  BY <1>1, <1>3, <1>7 DEF Notify
<1>8. ASSUME NEW c \in Calls, DeleteUserLike(c) PROVE Likeable(e)'
  <2>1. (Creating(e) => Creating(e)') /\ cut' = cut
    <3>1. calls[c].at # "counter" /\ cut' = cut
      BY <1>8 DEF DeleteUserLike
    <3>2. Return(c) \/ Goto(c, "decrement", calls[c].entry, 0)
      BY <1>8 DEF DeleteUserLike
    <3>3. QED BY <1>2, <1>3, <3>1, <3>2
  <2>2. entries'[e].kind = entries[e].kind /\ entries'[e].counter = entries[e].counter
    BY <1>8, Unliked DEF Same
  <2>3. QED BY <1>1, <2>1, <2>2
<1>9. ASSUME NEW c \in Calls, DecrementLikes(c) PROVE Likeable(e)'
  <2>1. (Creating(e) => Creating(e)') /\ cut' = cut
    BY <1>3, <1>9 DEF DecrementLikes
  <2>2. QED BY <1>1, <1>9, <2>1, Decremented DEF Same
<1>10. ASSUME NEW c \in Calls, NEW u \in Users, CreatePost(c, u) PROVE Likeable(e)'
  <2>1. (Creating(e) => Creating(e)') /\ cut' = cut
    BY <1>2, <1>10 DEF CreatePost
  <2>2. CASE e = nextEntry
    BY <1>10, <2>2, Went DEF CreatePost, Creating
  <2>3. CASE e # nextEntry
    BY <1>1, <1>10, <2>1, <2>3 DEF CreatePost, TypeOK
  <2>4. QED BY <2>2, <2>3
<1>11. ASSUME NEW c \in Calls, NEW u \in Users, NEW x \in Ids,
              RemovePost(c, u, x) \/ UnlikeEntry(c, u, x)
       PROVE  Likeable(e)'
  BY <1>1, <1>2, <1>11 DEF RemovePost, UnlikeEntry
<1>12. ASSUME NEW c \in Calls, NEW u \in Users, NEW post, NEW parent,
              NewComment(c, u, post, parent)
       PROVE  Likeable(e)'
  <2>1. (Creating(e) => Creating(e)') /\ cut' = cut
    BY <1>2, <1>12 DEF NewComment, Creating
  <2>2. CASE e = nextEntry
    BY <1>12, <2>2 DEF NewComment, PostsThere, NoEntry, TypeOK
  <2>3. CASE e # nextEntry
    BY <1>1, <1>12, <2>1, <2>3 DEF NewComment, TypeOK
  <2>4. QED BY <2>2, <2>3
<1>13. ASSUME NEW u \in Users, NEW x \in Ids, LikeEntry(u, x) PROVE Likeable(e)'
  <2>1. (Creating(e) => Creating(e)') /\ cut' = cut
    BY <1>13 DEF LikeEntry, Creating
  <2>2. QED BY <1>1, <1>13, <2>1, Liked DEF Same
<1>14. ASSUME NEW x \in Ids, RemoveComment(x) PROVE Likeable(e)'
  <2>1. (Creating(e) => Creating(e)') /\ cut' = cut
    BY <1>14 DEF RemoveComment, Creating
  <2>2. QED BY <1>4, <1>14, <2>1 DEF RemoveComment
<1>15. ASSUME Restart PROVE Likeable(e)'
  BY <1>0, <1>15 DEF Restart, PostsThere
<1>16. CASE UNCHANGED vars
  BY <1>0, <1>16 DEF vars, PostsThere, Creating
<1>17. QED
  BY <1>5, <1>6, <1>7, <1>8, <1>9, <1>10, <1>11, <1>12, <1>13, <1>14, <1>15, <1>16
  DEF Next

LEMMA ThreadsStep ==
  ASSUME TypeOK, FreshInv, RemovalsInv, ThreadsStandTogether, [Next]_vars
  PROVE  ThreadsStandTogether'
<1> USE EmptyRecords
<1>1. ASSUME \A e \in Ids : Same(entries[e], entries'[e])
      PROVE  ThreadsStandTogether'
  BY <1>1 DEF Same, ThreadsStandTogether, PostsThere, CommentsThere
<1>2. ASSUME NEW gone \in SUBSET Ids, Drop(gone),
             \A e \in CommentsThere : entries[e].post \in gone => e \in gone
      PROVE  ThreadsStandTogether'
  <2> SUFFICES ASSUME NEW e \in CommentsThere'
               PROVE  /\ entries'[e].post \in PostsThere' \cup {0}
                      /\ entries'[e].parent \in CommentsThere' \cup {0}
    BY DEF ThreadsStandTogether
  <2>1. /\ e \in CommentsThere /\ e \notin gone /\ entries'[e].post = entries[e].post
        /\ entries'[e].parent = IF entries[e].parent \in gone THEN 0
                                ELSE entries[e].parent
    BY <1>2, Dropped DEF CommentsThere
  <2>2. /\ PostsThere \ gone \subseteq PostsThere'
        /\ CommentsThere \ gone \subseteq CommentsThere'
    BY <1>2, Dropped DEF PostsThere, CommentsThere
  <2>3. /\ entries[e].post \in (PostsThere \ gone) \cup {0}
        /\ entries[e].parent \in CommentsThere \cup {0}
    BY <1>2, <2>1 DEF ThreadsStandTogether, Ids
  <2>4. QED BY <2>1, <2>2, <2>3
<1>3. ASSUME nextEntry \in Ids, NEW r, entries' = [entries EXCEPT ![nextEntry] = r],
             \/ r.kind = "post"
             \/ /\ r.kind = "comment"
                /\ r.post \in PostsThere \cup {0} /\ r.parent \in CommentsThere \cup {0}
      PROVE  ThreadsStandTogether'
  <2>1. /\ entries'[nextEntry] = r /\ entries[nextEntry] = NoEntry
        /\ \A e \in Ids \ {nextEntry} : entries'[e] = entries[e]
    BY <1>3 DEF TypeOK, FreshInv, Ids
  <2>2. PostsThere \subseteq PostsThere' /\ CommentsThere \subseteq CommentsThere'
    BY <2>1 DEF PostsThere, CommentsThere
  <2> SUFFICES ASSUME NEW e \in CommentsThere'
               PROVE  /\ entries'[e].post \in PostsThere' \cup {0}
                      /\ entries'[e].parent \in CommentsThere' \cup {0}
    BY DEF ThreadsStandTogether
  <2>3. CASE e = nextEntry
    BY <1>3, <2>1, <2>2, <2>3 DEF CommentsThere
  <2>4. CASE e # nextEntry
    <3>1. e \in CommentsThere /\ entries'[e] = entries[e]
      BY <2>1, <2>4 DEF CommentsThere
    <3>2. QED BY <2>2, <3>1 DEF ThreadsStandTogether
  <2>5. QED BY <2>3, <2>4
<1>4. ASSUME NEW c \in Calls, CreatePostLike(c) \/ DecrementLikes(c)
      PROVE  ThreadsStandTogether'
  BY <1>1, <1>4, CounterCreated, Decremented
<1>5. ASSUME NEW c \in Calls, DeletePost(c) PROVE ThreadsStandTogether'
  <2>1. CASE entries' = entries
    BY <1>1, <2>1 DEF Same
  <2>2. CASE entries' # entries
    <3> DEFINE e == calls[c].entry
    <3>1. /\ e \in PostsThere /\ Cascaded(e) \in SUBSET Ids /\ Drop(Cascaded(e))
      BY <1>5, <2>2, DroppedPost, EntryTyped
      DEF DeletePost, RemovalsInv, PostsThere, CommentsThere, There
    <3>2. \A x \in CommentsThere : entries[x].post \in Cascaded(e) => x \in Cascaded(e)
      <4> TAKE x \in CommentsThere
      <4> HAVE entries[x].post \in Cascaded(e)
      <4>1. entries[x].post \in PostsThere
        BY <3>1 DEF ThreadsStandTogether, Ids
      <4>2. entries[x].post = e
        BY <3>1, <4>1 DEF Cascaded, PostsThere, CommentsThere
      <4>3. QED BY <4>2 DEF Cascaded
    <3> HIDE DEF e
    <3>3. QED BY <1>2, <3>1, <3>2
  <2>3. QED BY <2>1, <2>2
<1>6. ASSUME NEW c \in Calls, DeleteUserLike(c) PROVE ThreadsStandTogether'
  <2>1. CASE entries' = entries
    BY <1>1, <2>1 DEF Same
  <2>2. CASE entries' # entries
    BY <1>1, <1>6, <2>2, Unliked DEF Same
  <2>3. QED BY <2>1, <2>2
<1>7. ASSUME NEW c \in Calls, NEW u \in Users, CreatePost(c, u)
      PROVE  ThreadsStandTogether'
  BY <1>3, <1>7 DEF CreatePost, NoEntry
<1>8. ASSUME NEW c \in Calls, NEW u \in Users, NEW post, NEW parent,
             NewComment(c, u, post, parent)
      PROVE  ThreadsStandTogether'
  BY <1>3, <1>8 DEF NewComment, NoEntry
<1>9. ASSUME NEW u \in Users, NEW e \in Ids, LikeEntry(u, e)
      PROVE  ThreadsStandTogether'
  BY <1>1, <1>9, Liked DEF Same
<1>10. ASSUME NEW e \in Ids, RemoveComment(e) PROVE ThreadsStandTogether'
  <2>1. \A x \in CommentsThere : entries[x].post \in {e} => x \in {e}
    BY <1>10 DEF RemoveComment, ThreadsStandTogether, PostsThere, CommentsThere, Ids
  <2>2. QED BY <1>2, <1>10, <2>1 DEF RemoveComment
<1>11. CASE UNCHANGED entries
  BY <1>1, <1>11 DEF Same
<1>12. QED
  BY <1>4, <1>5, <1>6, <1>7, <1>8, <1>9, <1>10, <1>11
  DEF Next, vars, Notify, RemovePost, UnlikeEntry, Restart
-----------------------------------------------------------------------------
LEMMA Step == PostsInv /\ [Next]_vars => PostsInv'
BY TypeStep, FreshStep, LikersStep, RemovalsStep, LikesStep, CreatingStep, ThreadsStep
DEF PostsInv

LEMMA AlwaysPostsInv == Spec => []PostsInv
BY InitEstablishes, Step, PTL DEF Spec

(* Entries, rows and calls are what the tables and handlers can hold: every*)
(* entry has one liker at most.                                            *)
THEOREM TypeCorrect == Spec => []TypeOK
<1>1. PostsInv => TypeOK
  BY DEF PostsInv
<1>2. QED BY <1>1, AlwaysPostsInv, PTL

(* However the likes and unlikes of users overlap, the counter of an entry *)
(* covers its liker and every like that is being taken back.               *)
THEOREM CountersCoverLikers == Spec => []LikesCoverLikers
<1>1. PostsInv => LikesCoverLikers
  BY DEF PostsInv
<1>2. QED BY <1>1, AlwaysPostsInv, PTL

(* Only a restart between the two statements of createPost leaves a post   *)
(* that nobody can like.                                                   *)
THEOREM PostsCanBeLiked == Spec => []EveryPostCanBeLiked
<1>1. PostsInv => EveryPostCanBeLiked
  BY DEF PostsInv
<1>2. QED BY <1>1, AlwaysPostsInv, PTL

(* What a delete cascades to, and what it sets to null, is all that pointed*)
(* to what has gone.                                                       *)
THEOREM ThreadsAreWhole == Spec => []ThreadsStandTogether
<1>1. PostsInv => ThreadsStandTogether
  BY DEF PostsInv
<1>2. QED BY <1>1, AlwaysPostsInv, PTL
=============================================================================
