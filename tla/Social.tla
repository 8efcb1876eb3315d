------------------------------- MODULE Social -------------------------------
(***************************************************************************)
(* Stars (src/user/user.service.ts, user.resolver.ts), followers           *)
(* (src/follower/follower.service.ts, follower.resolver.ts) and what a user*)
(* listens to (src/spotify/spotify.service.ts, spotify.resolver.ts): calls *)
(* of two statements, the second of which relies on what the first read.   *)
(*                                                                         *)
(* A star call reads the count and writes it back, changed by one; of two  *)
(* that overlap one is lost.  followUser looks for a row of the pair and   *)
(* creates one if there is none; nothing in schema.prisma keeps a pair     *)
(* from having two.  A song is stored by one statement and published by a  *)
(* later one.  What the subscription makes of a publication is left out    *)
(* (its filter, spotify.resolver.ts:21-22, wants a user in the row, which  *)
(* no statement of the service includes).                                  *)
(***************************************************************************)
EXTENDS Integers

CONSTANTS Users,
          Starred,      \* the users with a row of Star, all but cut registrations
          First,        \* the user with id 1
          Calls,        \* calls running at a time
          Songs,
          Silence,      \* no song
          Limit,        \* the largest SmallInt, 32767 in Postgres
          MaxCalls      \* bound: how many calls are made

ASSUME UsersAssumption == Starred \subseteq Users /\ First \in Users
ASSUME LimitAssumption == Limit \in Nat /\ MaxCalls \in Nat
ASSUME SilenceAssumption == Silence \notin Songs

VARIABLES stars,        \* table Star: starCount
          follows,      \* table Follower
          nextFollow,   \* the sequence behind Follower.id
          tracks,       \* table SpotifyCurrentlyListening, row 0: none
          nextTrack,    \* the sequence behind its ids
          published,    \* the song last published as each user's
          calls,        \* the calls in flight
          adding,       \* promises of notification.add that nobody awaits
          added,        \* history: stars given to a user, by calls that were done
          deleted,      \* history: stars taken from him
          overlapped,   \* history: users on whom two star calls have overlapped
          rivals,       \* history: pairs whose followUser calls have overlapped
          garbled,      \* history: users whose last song was stored while
                        \* another was being published, or cut before it was
          made          \* history: how many calls were made

starVars == <<stars, added, deleted, overlapped>>
followVars == <<follows, nextFollow, adding, rivals>>
trackVars == <<tracks, nextTrack, published, garbled>>
vars == <<starVars, followVars, trackVars, calls, made>>

Follow == [id: Nat, user: Users, actor: Users]
Track == [row: Nat, song: Songs \cup {Silence}]
Call == [at: {"idle", "add", "delete", "create", "unfollow", "track", "publish"},
         user: Users, actor: Users, read: Int, row: Nat,
         song: Songs \cup {Silence}]

TypeOK == /\ stars \in [Starred -> -Limit - 1 .. Limit]
          /\ follows \in SUBSET Follow
          /\ nextFollow \in Nat
          /\ calls \in [Calls -> Call]
          /\ adding \in SUBSET Nat
          /\ added \in [Users -> Nat]
          /\ deleted \in [Users -> Nat]
          /\ overlapped \in SUBSET Users
          /\ rivals \in SUBSET (Users \X Users)
          /\ tracks \in [Users -> Track]
          /\ nextTrack \in Nat \ {0}
          /\ published \in [Users -> Songs \cup {Silence}]
          /\ garbled \in SUBSET Users
          /\ made \in Nat

NoCall == [at |-> "idle", user |-> First, actor |-> First, read |-> 0, row |-> 0,
           song |-> Silence]
NoTrack == [row |-> 0, song |-> Silence]

Init == /\ stars = [u \in Starred |-> 0]
        /\ follows = {}
        /\ nextFollow = 1
        /\ calls = [c \in Calls |-> NoCall]
        /\ adding = {}
        /\ added = [u \in Users |-> 0]
        /\ deleted = [u \in Users |-> 0]
        /\ overlapped = {}
        /\ rivals = {}
        /\ tracks = [u \in Users |-> NoTrack]
        /\ nextTrack = 1
        /\ published = [u \in Users |-> Silence]
        /\ garbled = {}
        /\ made = 0

(* A client makes a call, which call c runs. *)
Made(c) == calls[c].at = "idle" /\ made < MaxCalls /\ made' = made + 1

Return(c) == calls' = [calls EXCEPT ![c] = NoCall]
-----------------------------------------------------------------------------
StarCallOn(u) == \E d \in Calls : calls[d].at \in {"add", "delete"} /\ calls[d].user = u

(* getUserStars, the first statement of addNewStar and deleteOneStar.      *)
(* Without a row the call is over and has changed nothing.                 *)
GetUserStars(c, u, what) ==
  /\ Made(c)
  /\ u \in Starred
  /\ calls' = [calls EXCEPT ![c] = [NoCall EXCEPT !.at = what, !.user = u,
                                                  !.read = stars[u]]]
  /\ overlapped' = IF StarCallOn(u) THEN overlapped \cup {u} ELSE overlapped
  /\ UNCHANGED <<stars, added, deleted, followVars, trackVars>>

(* Whoever calls addNewStar, the star is the one of the user with id 1.    *)
AddNewStar(c) == GetUserStars(c, First, "add")
DeleteStar(c, u) == GetUserStars(c, u, "delete")

(* TypeOK: only the upper end is looked at. *)
WrongInRange(n) == n <= Limit

(* starCount is a SmallInt, and Postgres refuses what is out of its range. *)
InRange(n) == n \in -Limit - 1 .. Limit

(* StarsAddUp: a copy of increaseStar with its sign left as it was. *)
WrongUpdated(what, read) == read + 1

Updated(what, read) == IF what = "add" THEN read + 1 ELSE read - 1

(* star.update writes what was read, changed by one. *)
UpdateStar(c) ==
  /\ calls[c].at \in {"add", "delete"}
  /\ LET u == calls[c].user
         new == Updated(calls[c].at, calls[c].read)
     IN \/ /\ InRange(new)
           /\ stars' = [stars EXCEPT ![u] = new]
           /\ IF calls[c].at = "add"
              THEN added' = [added EXCEPT ![u] = @ + 1] /\ UNCHANGED deleted
              ELSE deleted' = [deleted EXCEPT ![u] = @ + 1] /\ UNCHANGED added
        \/ /\ ~InRange(new)
           /\ UNCHANGED <<stars, added, deleted>>
  /\ Return(c)
  /\ UNCHANGED <<overlapped, followVars, trackVars, made>>
-----------------------------------------------------------------------------
RowsOf(u, a) == {f \in follows : f.user = u /\ f.actor = a}

FollowOf(u, a) == \E d \in Calls : /\ calls[d].at = "create"
                                   /\ calls[d].user = u /\ calls[d].actor = a

(* DuplicatesNeedRivals: the row that was found is not looked at. *)
WrongCheckFollow(c, u, a) ==
  /\ Made(c)
  /\ u # a
  /\ calls' = [calls EXCEPT ![c] = [NoCall EXCEPT !.at = "create", !.user = u,
                                                  !.actor = a]]
  /\ rivals' = IF FollowOf(u, a) THEN rivals \cup {<<u, a>>} ELSE rivals
  /\ UNCHANGED <<starVars, follows, nextFollow, adding, trackVars>>

(* checkIfUserFollowsActor for followUser: nobody follows himself, and who *)
(* follows already is told so, and his notification is queued once more.   *)
CheckFollow(c, u, a) ==
  /\ Made(c)
  /\ u # a
  /\ \/ /\ RowsOf(u, a) = {}
        /\ calls' = [calls EXCEPT ![c] = [NoCall EXCEPT !.at = "create",
                                                        !.user = u, !.actor = a]]
        /\ rivals' = IF FollowOf(u, a) THEN rivals \cup {<<u, a>>} ELSE rivals
        /\ UNCHANGED adding
     \/ \E f \in RowsOf(u, a) :
          /\ adding' = adding \cup {f.id}
          /\ UNCHANGED <<calls, rivals>>
  /\ UNCHANGED <<starVars, follows, nextFollow, trackVars>>

(* follower.create, and notification.add, which is not waited for. *)
CreateFollow(c) ==
  /\ calls[c].at = "create"
  /\ follows' = follows \cup {[id |-> nextFollow, user |-> calls[c].user,
                               actor |-> calls[c].actor]}
  /\ nextFollow' = nextFollow + 1
  /\ adding' = adding \cup {nextFollow}
  /\ Return(c)
  /\ UNCHANGED <<starVars, rivals, trackVars, made>>

(* The job is in Redis: NotificationQueue!Add. *)
NotificationAdded(f) ==
  /\ f \in adding
  /\ adding' = adding \ {f}
  /\ UNCHANGED <<starVars, follows, nextFollow, calls, rivals, trackVars, made>>

(* checkIfUserFollowsActor for unFollowUser: findFirst returns one row. *)
CheckUnfollow(c, u, a) ==
  /\ Made(c)
  /\ \E f \in RowsOf(u, a) :
       calls' = [calls EXCEPT ![c] = [NoCall EXCEPT !.at = "unfollow", !.user = u,
                                                    !.actor = a, !.row = f.id]]
  /\ UNCHANGED <<starVars, followVars, trackVars>>

(* follower.delete by id, which throws when another call was faster. *)
DeleteFollow(c) ==
  /\ calls[c].at = "unfollow"
  /\ follows' = {f \in follows : f.id # calls[c].row}
  /\ Return(c)
  /\ UNCHANGED <<starVars, nextFollow, adding, rivals, trackVars, made>>
-----------------------------------------------------------------------------
Publishing(u) == \E d \in Calls : calls[d].at = "publish" /\ calls[d].user = u

(* updateCurrentTrack: getUserCurrentTrack looks for the user's row. *)
GetUserCurrentTrack(c, u, song) ==
  /\ Made(c)
  /\ calls' = [calls EXCEPT ![c] = [NoCall EXCEPT !.at = "track", !.user = u,
                                                  !.row = tracks[u].row,
                                                  !.song = song]]
  /\ UNCHANGED <<starVars, followVars, trackVars>>

(* The row with this id, or a new one, now has the song; the call goes on  *)
(* to publish what the statement returned.                                 *)
Stored(c, row) ==
  LET u == calls[c].user
  IN  /\ tracks' = [tracks EXCEPT ![u] = [row |-> row, song |-> calls[c].song]]
      /\ calls' = [calls EXCEPT ![c].at = "publish"]
      /\ garbled' = IF Publishing(u) THEN garbled \cup {u} ELSE garbled \ {u}

(* ListenersAgree: createMany with skipDuplicates, whose row is published  *)
(* although it may have been skipped.                                      *)
WrongRefused(c) == /\ calls' = [calls EXCEPT ![c].at = "publish"]
                   /\ UNCHANGED <<tracks, garbled>>

(* The row read is gone, or one has been created (userId is @unique): the  *)
(* statement throws and the call is over.                                  *)
Refused(c) == Return(c) /\ UNCHANGED <<tracks, garbled>>

(* updateUserCurrentTrack: update by the id that was read, or create. *)
UpdateUserCurrentTrack(c) ==
  /\ calls[c].at = "track"
  /\ LET row == calls[c].row
     IN \/ /\ row = tracks[calls[c].user].row
           /\ row # 0
           /\ Stored(c, row)
           /\ UNCHANGED nextTrack
        \/ /\ row = tracks[calls[c].user].row
           /\ row = 0
           /\ Stored(c, nextTrack)
           /\ nextTrack' = nextTrack + 1
        \/ /\ row # tracks[calls[c].user].row
           /\ Refused(c)
           /\ UNCHANGED nextTrack
  /\ UNCHANGED <<starVars, followVars, published, made>>

(* pubSub.publish of the row that was returned. *)
PublishTrack(c) ==
  /\ calls[c].at = "publish"
  /\ published' = [published EXCEPT ![calls[c].user] = calls[c].song]
  /\ Return(c)
  /\ UNCHANGED <<starVars, followVars, tracks, nextTrack, garbled, made>>

(* removeCurrentTrack: delete by userId; nothing is published. *)
RemoveCurrentTrack(u) ==
  /\ made < MaxCalls
  /\ made' = made + 1
  /\ tracks[u].row # 0
  /\ tracks' = [tracks EXCEPT ![u] = NoTrack]
  /\ UNCHANGED <<starVars, followVars, nextTrack, published, garbled, calls>>
-----------------------------------------------------------------------------
Restart ==
  /\ adding # {} \/ \E c \in Calls : calls[c].at # "idle"
  /\ calls' = [c \in Calls |-> NoCall]
  /\ adding' = {}
  /\ garbled' = garbled \cup {u \in Users : Publishing(u)}
  /\ UNCHANGED <<starVars, follows, nextFollow, rivals,
                 tracks, nextTrack, published, made>>

Next == \/ \E c \in Calls : \/ AddNewStar(c) \/ UpdateStar(c)
                            \/ CreateFollow(c) \/ DeleteFollow(c)
                            \/ UpdateUserCurrentTrack(c) \/ PublishTrack(c)
        \/ \E c \in Calls, u \in Users : DeleteStar(c, u)
        \/ \E c \in Calls, u \in Users, a \in Users : \/ CheckFollow(c, u, a)
                                                      \/ CheckUnfollow(c, u, a)
        \/ \E c \in Calls, u \in Users, song \in Songs :
             GetUserCurrentTrack(c, u, song)
        \/ \E u \in Users : RemoveCurrentTrack(u)
        \/ \E f \in adding : NotificationAdded(f)
        \/ Restart

Spec == Init /\ [][Next]_vars
-----------------------------------------------------------------------------
(* A count is never higher than the stars given nor lower than the stars   *)
(* taken, whatever was lost; and it is off only when two calls on it have  *)
(* overlapped (user.service.ts:59-101).                                    *)
StarsAddUp ==
  \A u \in Starred :
    /\ stars[u] \in -deleted[u] .. added[u]
    /\ u \notin overlapped => stars[u] = added[u] - deleted[u]

(* A pair has a second row, which one unfollowUser leaves behind, only     *)
(* when two followUser calls have overlapped (follower.service.ts:62-100). *)
DuplicatesNeedRivals ==
  \A f, g \in follows :
    f.user = g.user /\ f.actor = g.actor /\ f # g => <<f.user, f.actor>> \in rivals

(* Whatever updates and removals run at once, the song last published of a *)
(* user is the one his row has, unless that one was stored while another   *)
(* was being published or a restart cut it off from its publication        *)
(* (spotify.service.ts:30-60, spotify.resolver.ts:46-58).                  *)
ListenersAgree ==
  \A u \in Users :
    tracks[u].row # 0 /\ ~Publishing(u) /\ u \notin garbled
      => published[u] = tracks[u].song
=============================================================================
