---------------------------- MODULE SocialProofs ----------------------------
(***************************************************************************)
(* Stars, followers and songs for any users, calls and bounds: TypeOK, and *)
(* the three statements that what goes wrong needs calls that overlap.     *)
(***************************************************************************)
EXTENDS Social, TLAPS

StarCall(c) == calls[c].at \in {"add", "delete"}

(* What a star call has read is within the stars given and taken, and it   *)
(* is the count itself as long as nobody else is about to change it.       *)
ReadsInv ==
  \A c \in Calls : StarCall(c) =>
    LET u == calls[c].user
    IN /\ u \in Starred
       /\ calls[c].read \in -deleted[u] .. added[u]
       /\ u \notin overlapped => calls[c].read = stars[u]

StarCallsInv ==
  \A c, d \in Calls :
    StarCall(c) /\ StarCall(d) /\ calls[c].user = calls[d].user /\ c # d
      => calls[c].user \in overlapped

StarsInv == ReadsInv /\ StarCallsInv /\ StarsAddUp

Pair(c) == <<calls[c].user, calls[c].actor>>

(* A followUser that has found no row finds none when it creates its own,  *)
(* unless another one of the same pair has come in between.                *)
CreatesInv ==
  \A c \in Calls : calls[c].at = "create" /\ Pair(c) \notin rivals
                     => RowsOf(calls[c].user, calls[c].actor) = {}

RivalsInv ==
  \A c, d \in Calls :
    calls[c].at = "create" /\ calls[d].at = "create" /\ Pair(c) = Pair(d) /\ c # d
      => Pair(c) \in rivals

FollowsInv == CreatesInv /\ RivalsInv /\ DuplicatesNeedRivals

(* A call about to publish has the song of the user's row, and is alone in *)
(* that, unless the user is garbled.                                       *)
PublishInv ==
  /\ \A c \in Calls : LET u == calls[c].user
                     IN  calls[c].at = "publish" /\ u \notin garbled
                           => tracks[u].row = 0 \/ calls[c].song = tracks[u].song
  /\ \A c, d \in Calls :
       /\ calls[c].at = "publish" /\ calls[d].at = "publish"
       /\ calls[c].user = calls[d].user /\ c # d
       => calls[c].user \in garbled

TracksInv == PublishInv /\ ListenersAgree

SocialInv == TypeOK /\ StarsInv /\ FollowsInv /\ TracksInv
-----------------------------------------------------------------------------
LEMMA InitEstablishes == Init => SocialInv
  BY UsersAssumption, LimitAssumption
     DEF Init, SocialInv, TypeOK, StarsInv, ReadsInv, StarCallsInv, StarsAddUp,
         FollowsInv, CreatesInv, RivalsInv, DuplicatesNeedRivals, StarCall, Pair,
         RowsOf, NoCall, Call, Follow, TracksInv, PublishInv, ListenersAgree,
         NoTrack, Track

(* A call in flight is a Call, whichever statement it has come to. *)
LEMMA CallForms ==
  /\ NoCall \in Call
  /\ \A what \in {"add", "delete"}, u \in Users, n \in Int :
       [NoCall EXCEPT !.at = what, !.user = u, !.read = n] \in Call
  /\ \A u, a \in Users :
       [NoCall EXCEPT !.at = "create", !.user = u, !.actor = a] \in Call
  /\ \A u, a \in Users, i \in Nat :
       [NoCall EXCEPT !.at = "unfollow", !.user = u, !.actor = a, !.row = i] \in Call
  /\ \A u \in Users, i \in Nat, song \in Songs :
       [NoCall EXCEPT !.at = "track", !.user = u, !.row = i, !.song = song] \in Call
<1>0. First \in Users /\ 0 \in Int /\ 0 \in Nat
  BY UsersAssumption
<1>1. NoCall \in Call
  BY <1>0 DEF NoCall, Call
<1>2. ASSUME NEW what \in {"add", "delete"}, NEW u \in Users, NEW n \in Int
      PROVE  [NoCall EXCEPT !.at = what, !.user = u, !.read = n] \in Call
  BY <1>0 DEF NoCall, Call
<1>3. ASSUME NEW u \in Users, NEW a \in Users
      PROVE  [NoCall EXCEPT !.at = "create", !.user = u, !.actor = a] \in Call
  BY <1>0 DEF NoCall, Call
<1>4. ASSUME NEW u \in Users, NEW a \in Users, NEW i \in Nat
      PROVE  [NoCall EXCEPT !.at = "unfollow", !.user = u, !.actor = a, !.row = i] \in Call
  BY <1>0 DEF NoCall, Call
<1>5. ASSUME NEW u \in Users, NEW i \in Nat, NEW song \in Songs
      PROVE  [NoCall EXCEPT !.at = "track", !.user = u, !.row = i, !.song = song] \in Call
  BY <1>0 DEF NoCall, Call
<1>6. QED BY <1>1, <1>2, <1>3, <1>4, <1>5

LEMMA TypeStep == TypeOK /\ [Next]_vars => TypeOK'
<1> SUFFICES ASSUME TypeOK, [Next]_vars PROVE TypeOK'
  OBVIOUS
<1> USE UsersAssumption, LimitAssumption DEF TypeOK
<1>0. NoCall \in Call
  BY DEF NoCall, Call
<1>1. ASSUME NEW c \in Calls, NEW u \in Users, NEW what \in {"add", "delete"},
             GetUserStars(c, u, what)
      PROVE  TypeOK'
  <2>1. stars[u] \in Int
    BY <1>1 DEF GetUserStars
  <2>2. [NoCall EXCEPT !.at = what, !.user = u, !.read = stars[u]] \in Call
    BY <2>1, CallForms
  <2>3. QED BY <1>1, <2>2 DEF GetUserStars, Made, followVars, trackVars
<1>2. ASSUME NEW c \in Calls, UpdateStar(c) PROVE TypeOK'
  <2>1. calls[c].user \in Users /\ calls[c].read \in Int
    BY DEF Call
  <2>2. Updated(calls[c].at, calls[c].read) \in Int
    BY <2>1 DEF Updated
  <2>3. stars' \in [Starred -> -Limit - 1 .. Limit]
    BY <1>2, <2>2 DEF UpdateStar, InRange
  <2>4. added' \in [Users -> Nat] /\ deleted' \in [Users -> Nat]
    BY <1>2, <2>1 DEF UpdateStar
  <2>5. QED BY <1>0, <1>2, <2>3, <2>4 DEF UpdateStar, Return, followVars, trackVars
<1>3. ASSUME NEW c \in Calls, NEW u \in Users, NEW a \in Users, CheckFollow(c, u, a)
      PROVE  TypeOK'
  <2>1. [NoCall EXCEPT !.at = "create", !.user = u, !.actor = a] \in Call
    BY CallForms
  <2>2. calls' \in [Calls -> Call]
    BY <1>3, <2>1 DEF CheckFollow
  <2>3. adding' \in SUBSET Nat
    BY <1>3 DEF CheckFollow, RowsOf, Follow
  <2>4. rivals' \in SUBSET (Users \X Users)
    BY <1>3 DEF CheckFollow
  <2>5. QED BY <1>3, <2>2, <2>3, <2>4 DEF CheckFollow, Made, starVars, trackVars
<1>4. ASSUME NEW c \in Calls, CreateFollow(c) PROVE TypeOK'
  <2>1. [id |-> nextFollow, user |-> calls[c].user, actor |-> calls[c].actor] \in Follow
    BY DEF Call, Follow
  <2>2. QED BY <1>0, <1>4, <2>1 DEF CreateFollow, Return, starVars, trackVars
<1>5. ASSUME NEW c \in Calls, NEW u \in Users, NEW a \in Users, CheckUnfollow(c, u, a)
      PROVE  TypeOK'
  <2>1. \A f \in RowsOf(u, a) :
          [NoCall EXCEPT !.at = "unfollow", !.user = u, !.actor = a, !.row = f.id] \in Call
    <3>1. \A f \in RowsOf(u, a) : f.id \in Nat
      BY DEF RowsOf, Follow
    <3>2. QED BY <3>1, CallForms
  <2>2. calls' \in [Calls -> Call]
    BY <1>5, <2>1 DEF CheckUnfollow
  <2>3. QED BY <1>5, <2>2 DEF CheckUnfollow, Made, starVars, followVars, trackVars
<1>6. ASSUME NEW c \in Calls, DeleteFollow(c) PROVE TypeOK'
  BY <1>0, <1>6 DEF DeleteFollow, Return, starVars, trackVars
<1>7. ASSUME NEW f \in adding, NotificationAdded(f) PROVE TypeOK'
  BY <1>7 DEF NotificationAdded, starVars, trackVars
<1>8. ASSUME Restart PROVE TypeOK'
  BY <1>0, <1>8 DEF Restart, starVars
<1>9. ASSUME NEW c \in Calls, NEW u \in Users, NEW song \in Songs,
             GetUserCurrentTrack(c, u, song)
      PROVE  TypeOK'
  <2>1. tracks[u].row \in Nat
    BY DEF Track
  <2>2. [NoCall EXCEPT !.at = "track", !.user = u, !.row = tracks[u].row,
                       !.song = song] \in Call
    BY <2>1, CallForms
  <2>3. QED BY <1>9, <2>2 DEF GetUserCurrentTrack, Made, starVars, followVars, trackVars
<1>10. ASSUME NEW c \in Calls, UpdateUserCurrentTrack(c) PROVE TypeOK'
  <2>1. calls[c].user \in Users /\ calls[c].row \in Nat
        /\ calls[c].song \in Songs \cup {Silence}
    BY DEF Call
  <2>2. \A row \in Nat : [row |-> row, song |-> calls[c].song] \in Track
    BY <2>1 DEF Track
  <2>3. ASSUME NEW row \in Nat, Stored(c, row)
        PROVE  /\ tracks' \in [Users -> Track] /\ garbled' \in SUBSET Users
               /\ calls' \in [Calls -> Call]
    <3>1. [calls[c] EXCEPT !.at = "publish"] \in Call
      BY DEF Call
    <3>2. calls' = [calls EXCEPT ![c] = [calls[c] EXCEPT !.at = "publish"]]
      BY <2>3 DEF Stored
    <3>3. QED BY <2>1, <2>2, <2>3, <3>1, <3>2 DEF Stored
  <2>4. ASSUME Refused(c)
        PROVE  /\ tracks' \in [Users -> Track] /\ garbled' \in SUBSET Users
               /\ calls' \in [Calls -> Call]
    BY <1>0, <2>4 DEF Refused, Return
  <2>5. /\ tracks' \in [Users -> Track] /\ garbled' \in SUBSET Users
        /\ calls' \in [Calls -> Call] /\ nextTrack' \in Nat \ {0}
    BY <1>10, <2>1, <2>3, <2>4 DEF UpdateUserCurrentTrack
  <2>6. QED BY <1>10, <2>5 DEF UpdateUserCurrentTrack, starVars, followVars
<1>11. ASSUME NEW c \in Calls, PublishTrack(c) PROVE TypeOK'
  <2>1. calls[c].user \in Users /\ calls[c].song \in Songs \cup {Silence}
    BY DEF Call
  <2>2. QED BY <1>0, <1>11, <2>1 DEF PublishTrack, Return, starVars, followVars
<1>12. ASSUME NEW u \in Users, RemoveCurrentTrack(u) PROVE TypeOK'
  <2>1. NoTrack \in Track
    BY DEF NoTrack, Track
  <2>2. QED BY <1>12, <2>1 DEF RemoveCurrentTrack, starVars, followVars
<1>13. ASSUME UNCHANGED vars PROVE TypeOK'
  BY <1>13 DEF vars, starVars, followVars, trackVars
<1>14. QED
  BY <1>1, <1>2, <1>3, <1>4, <1>5, <1>6, <1>7, <1>8, <1>9, <1>10, <1>11, <1>12,
     <1>13
     DEF Next, AddNewStar, DeleteStar
-----------------------------------------------------------------------------
(* What touches no star and starts no star call keeps StarsInv. *)
LEMMA StarsUntouched ==
  ASSUME StarsInv, UNCHANGED <<stars, added, deleted, overlapped>>,
         \A c \in Calls : StarCall(c)' => calls'[c] = calls[c]
  PROVE  StarsInv'
  BY DEF StarsInv, ReadsInv, StarCallsInv, StarsAddUp, StarCall

LEMMA StarsStep ==
  ASSUME TypeOK, StarsInv, [Next]_vars PROVE StarsInv'
<1> USE UsersAssumption, LimitAssumption DEF TypeOK
<1>1. ASSUME NEW c \in Calls, NEW u \in Users, NEW what \in {"add", "delete"},
             GetUserStars(c, u, what)
      PROVE  StarsInv'
  <2>1. /\ calls' = [calls EXCEPT ![c] = [NoCall EXCEPT !.at = what, !.user = u,
                                                        !.read = stars[u]]]
        /\ u \in Starred /\ calls[c].at = "idle"
        /\ overlapped' = IF StarCallOn(u) THEN overlapped \cup {u} ELSE overlapped
        /\ UNCHANGED <<stars, added, deleted>>
    BY <1>1 DEF GetUserStars, Made
  <2>2. /\ calls'[c].at = what /\ calls'[c].user = u /\ calls'[c].read = stars[u]
        /\ \A d \in Calls \ {c} : calls'[d] = calls[d]
        /\ overlapped \subseteq overlapped'
    BY <2>1 DEF NoCall, Call
  <2>3. stars[u] \in -deleted[u] .. added[u]
    BY <2>1 DEF StarsInv, StarsAddUp
  <2>4. ReadsInv'
    BY <2>1, <2>2, <2>3 DEF StarsInv, ReadsInv, StarCall
  <2>5. \A d \in Calls \ {c} : StarCall(d) /\ calls[d].user = u => u \in overlapped'
    BY <2>1 DEF StarCallOn, StarCall
  <2>6. StarCallsInv'
    BY <2>2, <2>5 DEF StarsInv, StarCallsInv, StarCall
  <2>7. StarsAddUp'
    BY <2>1, <2>2 DEF StarsInv, StarsAddUp
  <2>8. QED BY <2>4, <2>6, <2>7 DEF StarsInv
<1>2. ASSUME NEW c \in Calls, UpdateStar(c) PROVE StarsInv'
  <2> DEFINE u == calls[c].user
             new == Updated(calls[c].at, calls[c].read)
  <2>1. /\ StarCall(c) /\ u \in Starred /\ calls[c].read \in Int
        /\ calls[c].read \in -deleted[u] .. added[u]
        /\ u \notin overlapped => calls[c].read = stars[u]
    BY <1>2 DEF StarsInv, ReadsInv, StarCall, UpdateStar, Call
  <2>2. /\ calls' = [calls EXCEPT ![c] = NoCall] /\ overlapped' = overlapped
        /\ ~StarCall(c)' /\ \A d \in Calls \ {c} : calls'[d] = calls[d]
    BY <1>2 DEF UpdateStar, Return, StarCall, NoCall
  <2>3. StarCallsInv'
    BY <2>2 DEF StarsInv, StarCallsInv, StarCall
  <2>4. CASE UNCHANGED <<stars, added, deleted>>
    BY <2>2, <2>4, StarsUntouched
  <2>5. ASSUME stars' = [stars EXCEPT ![u] = new], calls[c].at = "add",
               added' = [added EXCEPT ![u] = @ + 1], UNCHANGED deleted
        PROVE  StarsInv'
    <3>1. new = calls[c].read + 1
      BY <2>5 DEF Updated
    <3>2. StarsAddUp'
      BY <2>1, <2>2, <2>5, <3>1 DEF StarsInv, StarsAddUp
    <3>3. ReadsInv'
      BY <2>1, <2>2, <2>5 DEF StarsInv, ReadsInv, StarCallsInv, StarCall, Call
    <3>4. QED BY <2>3, <3>2, <3>3 DEF StarsInv
  <2>6. ASSUME stars' = [stars EXCEPT ![u] = new], calls[c].at = "delete",
               deleted' = [deleted EXCEPT ![u] = @ + 1], UNCHANGED added
        PROVE  StarsInv'
    <3>1. new = calls[c].read - 1
      BY <2>6 DEF Updated
    <3>2. StarsAddUp'
      BY <2>1, <2>2, <2>6, <3>1 DEF StarsInv, StarsAddUp
    <3>3. ReadsInv'
      BY <2>1, <2>2, <2>6 DEF StarsInv, ReadsInv, StarCallsInv, StarCall, Call
    <3>4. QED BY <2>3, <3>2, <3>3 DEF StarsInv
  <2>7. QED BY <1>2, <2>1, <2>4, <2>5, <2>6 DEF UpdateStar, StarCall
<1>3. ASSUME NEW c \in Calls, NEW u \in Users, NEW a \in Users, CheckFollow(c, u, a)
      PROVE  StarsInv'
  BY <1>3, StarsUntouched DEF CheckFollow, starVars, StarCall, NoCall
<1>4. ASSUME NEW c \in Calls, CreateFollow(c) \/ DeleteFollow(c) PROVE StarsInv'
  BY <1>4, StarsUntouched DEF CreateFollow, DeleteFollow, Return, starVars, StarCall, NoCall
<1>5. ASSUME NEW c \in Calls, NEW u \in Users, NEW a \in Users, CheckUnfollow(c, u, a)
      PROVE  StarsInv'
  BY <1>5, StarsUntouched DEF CheckUnfollow, starVars, StarCall, NoCall
<1>6. ASSUME NEW f \in adding, NotificationAdded(f) PROVE StarsInv'
  BY <1>6, StarsUntouched DEF NotificationAdded, starVars
<1>7. ASSUME Restart PROVE StarsInv'
  BY <1>7, StarsUntouched DEF Restart, starVars, StarCall, NoCall
<1>8. ASSUME NEW c \in Calls, NEW u \in Users, NEW song \in Songs,
             GetUserCurrentTrack(c, u, song)
      PROVE  StarsInv'
  BY <1>8, StarsUntouched DEF GetUserCurrentTrack, starVars, StarCall, NoCall
<1>9. ASSUME NEW c \in Calls, UpdateUserCurrentTrack(c) \/ PublishTrack(c)
      PROVE  StarsInv'
  <2>1. UNCHANGED starVars /\ ~StarCall(c)'
        /\ \A d \in Calls \ {c} : calls'[d] = calls[d]
    BY <1>9 DEF UpdateUserCurrentTrack, PublishTrack, Stored, Refused, Return,
                StarCall, NoCall, Call
  <2>2. QED BY <2>1, StarsUntouched DEF starVars
<1>10. ASSUME NEW u \in Users, RemoveCurrentTrack(u) PROVE StarsInv'
  BY <1>10, StarsUntouched DEF RemoveCurrentTrack, starVars
<1>11. ASSUME UNCHANGED vars PROVE StarsInv'
  BY <1>11, StarsUntouched DEF vars, starVars
<1>12. QED
  BY <1>1, <1>2, <1>3, <1>4, <1>5, <1>6, <1>7, <1>8, <1>9, <1>10, <1>11
     DEF Next, AddNewStar, DeleteStar
-----------------------------------------------------------------------------
(* What creates no row and starts no followUser keeps FollowsInv. *)
LEMMA FollowsUntouched ==
  ASSUME FollowsInv, follows' \subseteq follows, rivals' = rivals,
         \A c \in Calls : calls'[c].at = "create" => calls'[c] = calls[c]
  PROVE  FollowsInv'
  BY DEF FollowsInv, CreatesInv, RivalsInv, DuplicatesNeedRivals, RowsOf, Pair

LEMMA FollowsStep ==
  ASSUME TypeOK, FollowsInv, [Next]_vars PROVE FollowsInv'
<1> USE UsersAssumption DEF TypeOK
<1>1. ASSUME NEW c \in Calls, NEW u \in Users, NEW what \in {"add", "delete"},
             GetUserStars(c, u, what)
      PROVE  FollowsInv'
  BY <1>1, FollowsUntouched DEF GetUserStars, followVars, NoCall
<1>2. ASSUME NEW c \in Calls, UpdateStar(c) PROVE FollowsInv'
  BY <1>2, FollowsUntouched DEF UpdateStar, Return, followVars, NoCall
<1>3. ASSUME NEW c \in Calls, NEW u \in Users, NEW a \in Users, CheckFollow(c, u, a)
      PROVE  FollowsInv'
  <2>1. CASE UNCHANGED <<calls, rivals>>
    BY <1>3, <2>1, FollowsUntouched DEF CheckFollow
  <2>2. CASE /\ RowsOf(u, a) = {}
             /\ calls' = [calls EXCEPT ![c] = [NoCall EXCEPT !.at = "create",
                                                             !.user = u, !.actor = a]]
             /\ rivals' = IF FollowOf(u, a) THEN rivals \cup {<<u, a>>} ELSE rivals
    <3>1. /\ calls'[c].at = "create" /\ calls'[c].user = u /\ calls'[c].actor = a
          /\ \A d \in Calls \ {c} : calls'[d] = calls[d]
          /\ rivals \subseteq rivals' /\ follows' = follows
      BY <1>3, <2>2 DEF NoCall, CheckFollow
    <3>2. \A d \in Calls \ {c} :
            calls[d].at = "create" /\ Pair(d) = <<u, a>> => <<u, a>> \in rivals'
      BY <2>2 DEF FollowOf, Pair
    <3>3. RivalsInv'
      BY <3>1, <3>2 DEF FollowsInv, RivalsInv, Pair
    <3>4. CreatesInv' /\ DuplicatesNeedRivals'
      BY <2>2, <3>1 DEF FollowsInv, CreatesInv, DuplicatesNeedRivals, RowsOf, Pair
    <3>5. QED BY <3>3, <3>4 DEF FollowsInv
  <2>3. QED BY <1>3, <2>1, <2>2 DEF CheckFollow
<1>4. ASSUME NEW c \in Calls, CreateFollow(c) PROVE FollowsInv'
  <2> DEFINE new == [id |-> nextFollow, user |-> calls[c].user, actor |-> calls[c].actor]
  <2>1. /\ calls[c].at = "create" /\ follows' = follows \cup {new} /\ rivals' = rivals
        /\ calls'[c].at = "idle" /\ \A d \in Calls \ {c} : calls'[d] = calls[d]
    BY <1>4 DEF CreateFollow, Return, NoCall
  <2>2. RivalsInv'
    BY <2>1 DEF FollowsInv, RivalsInv, Pair
  <2>3. \A f \in follows : f.user = new.user /\ f.actor = new.actor => Pair(c) \in rivals
    BY <2>1 DEF FollowsInv, CreatesInv, RowsOf, Pair
  <2>4. DuplicatesNeedRivals'
    BY <2>1, <2>3 DEF FollowsInv, DuplicatesNeedRivals, Pair
  <2>5. CreatesInv'
    <3> SUFFICES ASSUME NEW d \in Calls, (calls[d].at = "create" /\ Pair(d) \notin rivals)'
                 PROVE  (RowsOf(calls[d].user, calls[d].actor) = {})'
      BY DEF CreatesInv
    <3>1. d # c /\ calls'[d] = calls[d] /\ Pair(d) \notin rivals
      BY <2>1 DEF Pair
    <3>2. Pair(d) # Pair(c)
      BY <2>1, <3>1 DEF FollowsInv, RivalsInv
    <3>3. RowsOf(calls[d].user, calls[d].actor) = {}
      BY <3>1 DEF FollowsInv, CreatesInv
    <3>4. QED BY <2>1, <3>1, <3>2, <3>3 DEF RowsOf, Pair
  <2>6. QED BY <2>2, <2>4, <2>5 DEF FollowsInv
<1>5. ASSUME NEW c \in Calls, NEW u \in Users, NEW a \in Users, CheckUnfollow(c, u, a)
      PROVE  FollowsInv'
  BY <1>5, FollowsUntouched DEF CheckUnfollow, followVars, NoCall
<1>6. ASSUME NEW c \in Calls, DeleteFollow(c) PROVE FollowsInv'
  BY <1>6, FollowsUntouched DEF DeleteFollow, Return, NoCall
<1>7. ASSUME NEW f \in adding, NotificationAdded(f) PROVE FollowsInv'
  BY <1>7, FollowsUntouched DEF NotificationAdded
<1>8. ASSUME Restart PROVE FollowsInv'
  BY <1>8, FollowsUntouched DEF Restart, NoCall
<1>9. ASSUME NEW c \in Calls, NEW u \in Users, NEW song \in Songs,
             GetUserCurrentTrack(c, u, song)
      PROVE  FollowsInv'
  BY <1>9, FollowsUntouched DEF GetUserCurrentTrack, followVars, NoCall
<1>10. ASSUME NEW c \in Calls, UpdateUserCurrentTrack(c) \/ PublishTrack(c)
      PROVE  FollowsInv'
  <2>1. UNCHANGED followVars /\ calls'[c].at # "create"
        /\ \A d \in Calls \ {c} : calls'[d] = calls[d]
    BY <1>10 DEF UpdateUserCurrentTrack, PublishTrack, Stored, Refused, Return,
                 NoCall, Call
  <2>2. QED BY <2>1, FollowsUntouched DEF followVars
<1>11. ASSUME NEW u \in Users, RemoveCurrentTrack(u) PROVE FollowsInv'
  BY <1>11, FollowsUntouched DEF RemoveCurrentTrack, followVars
<1>12. ASSUME UNCHANGED vars PROVE FollowsInv'
  BY <1>12, FollowsUntouched DEF vars, followVars
<1>13. QED
  BY <1>1, <1>2, <1>3, <1>4, <1>5, <1>6, <1>7, <1>8, <1>9, <1>10, <1>11, <1>12
     DEF Next, AddNewStar, DeleteStar
-----------------------------------------------------------------------------
(* What stores and publishes nothing, and starts no publication, keeps     *)
(* TracksInv.                                                              *)
LEMMA TracksUntouched ==
  ASSUME TracksInv, UNCHANGED trackVars,
         \A c \in Calls : calls'[c].at = "publish" \/ calls[c].at = "publish"
                           => calls'[c] = calls[c]
  PROVE  TracksInv'
  BY DEF TracksInv, PublishInv, ListenersAgree, Publishing, trackVars

LEMMA TracksStored ==
  ASSUME TypeOK, TracksInv, NEW c \in Calls, calls[c].at = "track",
         NEW row \in Nat \ {0}, Stored(c, row), published' = published
  PROVE  TracksInv'
<1> DEFINE u == calls[c].user
<1>1. /\ u \in Users /\ calls'[c].at = "publish" /\ calls'[c].user = u
      /\ calls'[c].song = calls[c].song
      /\ \A d \in Calls \ {c} : calls'[d] = calls[d]
      /\ tracks'[u] = [row |-> row, song |-> calls[c].song]
      /\ \A v \in Users \ {u} : tracks'[v] = tracks[v]
  BY DEF TypeOK, Call, Stored
<1>2. \A v \in Users \ {u} : v \in garbled' <=> v \in garbled
  BY DEF Stored
<1>3. u \notin garbled'
        => \A d \in Calls : ~(calls[d].at = "publish" /\ calls[d].user = u)
  BY DEF Stored, Publishing
<1>4. \A d \in Calls : calls[d].user \in Users
  BY DEF TypeOK, Call
<1>5. PublishInv'
  BY <1>1, <1>2, <1>3, <1>4 DEF TracksInv, PublishInv
<1>6. ListenersAgree'
  <2> SUFFICES ASSUME NEW v \in Users,
                      (tracks[v].row # 0 /\ ~Publishing(v) /\ v \notin garbled)'
               PROVE  (published[v] = tracks[v].song)'
    BY DEF ListenersAgree
  <2>1. v # u
    BY <1>1 DEF Publishing
  <2>2. ~Publishing(v)
    BY <1>1, <2>1 DEF Publishing
  <2>3. QED BY <1>1, <1>2, <2>1, <2>2 DEF TracksInv, ListenersAgree
<1>7. QED BY <1>5, <1>6 DEF TracksInv

LEMMA TracksStep ==
  ASSUME TypeOK, TracksInv, [Next]_vars PROVE TracksInv'
<1> USE UsersAssumption DEF TypeOK
<1>1. ASSUME NEW c \in Calls, UpdateUserCurrentTrack(c) PROVE TracksInv'
  <2>1. calls[c].at = "track" /\ calls[c].row \in Nat /\ published' = published
    BY <1>1 DEF UpdateUserCurrentTrack, Call
  <2>2. ASSUME Refused(c), UNCHANGED nextTrack PROVE TracksInv'
    BY <2>1, <2>2, TracksUntouched DEF Refused, Return, NoCall, trackVars
  <2>3. QED BY <1>1, <2>1, <2>2, TracksStored DEF UpdateUserCurrentTrack
<1>2. ASSUME NEW c \in Calls, PublishTrack(c) PROVE TracksInv'
  <2> DEFINE u == calls[c].user
  <2>1. /\ u \in Users /\ calls[c].at = "publish" /\ calls'[c].at = "idle"
        /\ \A d \in Calls \ {c} : calls'[d] = calls[d]
        /\ tracks' = tracks /\ garbled' = garbled
        /\ published'[u] = calls[c].song
        /\ \A v \in Users \ {u} : published'[v] = published[v]
    BY <1>2 DEF PublishTrack, Return, NoCall, Call
  <2>2. PublishInv'
    BY <2>1 DEF TracksInv, PublishInv
  <2>3. ListenersAgree'
    BY <2>1 DEF TracksInv, PublishInv, ListenersAgree, Publishing
  <2>4. QED BY <2>2, <2>3 DEF TracksInv
<1>3. ASSUME NEW u \in Users, RemoveCurrentTrack(u) PROVE TracksInv'
  <2>1. /\ UNCHANGED <<calls, published, garbled>> /\ tracks'[u].row = 0
        /\ \A v \in Users \ {u} : tracks'[v] = tracks[v]
    BY <1>3 DEF RemoveCurrentTrack, NoTrack
  <2>2. \A c \in Calls : calls[c].user \in Users
    BY DEF Call
  <2>3. PublishInv' /\ ListenersAgree'
    BY <2>1, <2>2 DEF TracksInv, PublishInv, ListenersAgree, Publishing
  <2>4. QED BY <2>3 DEF TracksInv
<1>4. ASSUME Restart PROVE TracksInv'
  <2>1. /\ UNCHANGED <<tracks, published>>
        /\ garbled' = garbled \cup {u \in Users : Publishing(u)}
        /\ \A c \in Calls : calls'[c].at = "idle"
    BY <1>4 DEF Restart, NoCall
  <2>2. PublishInv' /\ ListenersAgree'
    BY <2>1 DEF TracksInv, PublishInv, ListenersAgree
  <2>3. QED BY <2>2 DEF TracksInv
<1>5. ASSUME NEW c \in Calls, NEW u \in Users, NEW song \in Songs,
             GetUserCurrentTrack(c, u, song)
      PROVE  TracksInv'
  BY <1>5, TracksUntouched DEF GetUserCurrentTrack, Made, NoCall
<1>6. ASSUME NEW c \in Calls, NEW u \in Users, NEW what \in {"add", "delete"},
             GetUserStars(c, u, what)
      PROVE  TracksInv'
  BY <1>6, TracksUntouched DEF GetUserStars, Made, NoCall
<1>7. ASSUME NEW c \in Calls, UpdateStar(c) PROVE TracksInv'
  BY <1>7, TracksUntouched DEF UpdateStar, Return, NoCall
<1>8. ASSUME NEW c \in Calls, NEW u \in Users, NEW a \in Users,
             CheckFollow(c, u, a) \/ CheckUnfollow(c, u, a)
      PROVE  TracksInv'
  BY <1>8, TracksUntouched DEF CheckFollow, CheckUnfollow, Made, NoCall
<1>9. ASSUME NEW c \in Calls, CreateFollow(c) \/ DeleteFollow(c) PROVE TracksInv'
  BY <1>9, TracksUntouched DEF CreateFollow, DeleteFollow, Return, NoCall
<1>10. ASSUME NEW f \in adding, NotificationAdded(f) PROVE TracksInv'
  BY <1>10, TracksUntouched DEF NotificationAdded
<1>11. ASSUME UNCHANGED vars PROVE TracksInv'
  BY <1>11, TracksUntouched DEF vars
<1>12. QED
  BY <1>1, <1>2, <1>3, <1>4, <1>5, <1>6, <1>7, <1>8, <1>9, <1>10, <1>11
     DEF Next, AddNewStar, DeleteStar
-----------------------------------------------------------------------------
LEMMA InvHolds == Spec => []SocialInv
<1>1. SocialInv /\ [Next]_vars => SocialInv'
  BY TypeStep, StarsStep, FollowsStep, TracksStep DEF SocialInv
<1>2. QED BY <1>1, InitEstablishes, PTL DEF Spec

(* Stars, followers, tracks and calls keep their types.                    *)
THEOREM TypeCorrect == Spec => []TypeOK
<1>1. SocialInv => TypeOK
  BY DEF SocialInv
<1>2. QED BY <1>1, InvHolds, PTL

(* Whatever calls overlap and restarts cut, a count lies between the stars *)
(* taken and given, and it is exact until two calls on it have overlapped. *)
THEOREM StarsSafe == Spec => []StarsAddUp
<1>1. SocialInv => StarsAddUp
  BY DEF SocialInv, StarsInv
<1>2. QED BY <1>1, InvHolds, PTL

(* A pair has one row of Follower until two followUser calls have          *)
(* overlapped.                                                             *)
THEOREM FollowsSafe == Spec => []DuplicatesNeedRivals
<1>1. SocialInv => DuplicatesNeedRivals
  BY DEF SocialInv, FollowsInv
<1>2. QED BY <1>1, InvHolds, PTL

(* The song last published of a user is the one that is stored, unless the *)
(* publication of the last one overlapped another or was cut.              *)
THEOREM ListenersSafe == Spec => []ListenersAgree
<1>1. SocialInv => ListenersAgree
  BY DEF SocialInv, TracksInv
<1>2. QED BY <1>1, InvHolds, PTL
=============================================================================
