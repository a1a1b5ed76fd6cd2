---------------------------- MODULE StudioRooms ----------------------------
(***************************************************************************)
(* Rooms and memberships: the handlers of functions/api/rooms*,            *)
(* functions/api/creator/rooms* and functions/api/passes.ts over the       *)
(* tables rooms, room_memberships and room_posts, composed with the two    *)
(* pages that call them: the creator's workspace                           *)
(* (components/creator-workspace.tsx) and the members' room directory      *)
(* (components/managed-room-directory.tsx).                                *)
(*                                                                         *)
(* A call is a process that runs one SQL statement at a time; the session  *)
(* is read when the call is made (StudioAccounts).  All rooms belong to    *)
(* one creator: another creator's account is a member to them.             *)
(***************************************************************************)
EXTENDS Integers, FiniteSets

CONSTANTS
    Rooms,          \* ids that crypto.randomUUID may give
    Members,        \* accounts that do not own the rooms
    Creator,        \* the account that owns them
    Scripts,        \* accounts that call the API without a page as well
    CallSlots,      \* calls that may be in flight at once
    MaxCalls,       \* bound on the calls made
    InitialStates,  \* states of memberships that earlier calls left
    NoRoom          \* no room is selected or open

ASSUME PeopleAssumption == Creator \notin Members /\ Scripts \subseteq Members \cup {Creator}

People == Members \cup {Creator}
NoCall == [pc |-> "idle"]

VARIABLES
    rooms,          \* table rooms: id -> "none" or its status
    memberships,    \* table room_memberships: set of rows
    roomPosts,      \* table room_posts: id -> the number of its posts
    calls,          \* slot -> the call it runs
    directory,      \* member -> the state of the room directory page
    workspace,      \* the state of the creator's workspace page
    approvals,      \* history: <<room, member>> the creator approved
    callCount       \* history: calls made

roomTables == <<rooms, memberships, roomPosts>>
roomPages == <<directory, workspace>>
roomVars == <<roomTables, roomPages, calls, approvals, callCount>>

StateOf(r, m) == {x.state : x \in {x \in memberships : x.room = r /\ x.user = m}}
Membership(r, m, state, decidedBy) ==
    [room |-> r, user |-> m, state |-> state, decidedBy |-> decidedBy]

\* Rooms and memberships as earlier calls left them; the pages were just opened.
RoomsInit ==
    /\ rooms \in [Rooms -> {"none", "published"}]
    /\ \E rows \in SUBSET [room : Rooms, user : Members, state : InitialStates] :
          /\ \A x, y \in rows : x.room = y.room /\ x.user = y.user => x = y
          /\ \A x \in rows : rooms[x.room] = "published"
          /\ memberships = {Membership(x.room, x.user, x.state,
                                       IF x.state = "pending" THEN {} ELSE {Creator}) : x \in rows}
          /\ approvals = {<<x.room, x.user>> : x \in {x \in rows : x.state = "active"}}
    /\ roomPosts = [r \in Rooms |-> 0]
    /\ calls = [c \in CallSlots |-> NoCall]
    /\ directory = [m \in Members |->
          [listed |-> {}, shown |-> [r \in Rooms |-> "none"], open |-> NoRoom, posts |-> 0]]
    /\ workspace = [rooms |-> {}, selected |-> NoRoom, members |-> {}, busy |-> FALSE]
    /\ callCount = 0

-----------------------------------------------------------------------------
(* Calls.                                                                  *)

\* A call as it leaves a page; "admitted" says whether its sender has been an
\* active member of the room at some time since.
Call(page, kind, by, r, arg) ==
    [pc |-> "sent", page |-> page, kind |-> kind, by |-> by, room |-> r, arg |-> arg,
     ok |-> FALSE, data |-> {}, admitted |-> "active" \in StateOf(r, by)]

Makes(c, call) ==
    /\ callCount < MaxCalls /\ callCount' = callCount + 1
    /\ calls' = [calls EXCEPT ![c] = call]

Sends(c, call) == calls[c] = NoCall /\ Makes(c, call)

At(c, kind, pc) == calls[c].pc = pc /\ calls[c].kind = kind

GoesOn(c, pc) == calls' = [calls EXCEPT ![c].pc = pc]
Replies(c, ok, data) ==
    calls' = [calls EXCEPT ![c].pc = "answered", ![c].ok = ok, ![c].data = data]
Refuses(c) == Replies(c, FALSE, {})

\* A statement throws, or the answer is lost: the page takes its catch branch.
CallFails(c) ==
    /\ calls[c] # NoCall
    /\ Refuses(c)
    /\ UNCHANGED <<roomTables, roomPages, approvals, callCount>>

\* A client of its own; only the creator's page approves (nothing shown says otherwise).
ScriptCalls(c) ==
    /\ \E by \in Scripts, r \in {r \in Rooms : rooms[r] # "none"} :
          \/ \E kind \in {"access", "state", "posts", "post", "members"} :
                Sends(c, Call("script", kind, by, r, "none"))
          \/ \E m \in Members : Sends(c, Call("script", "decide", by, r, <<m, "removed">>))
    /\ UNCHANGED <<roomTables, roomPages, approvals>>

ScriptAnswered(c) ==
    /\ calls[c].pc = "answered" /\ calls[c].page = "script"
    /\ calls' = [calls EXCEPT ![c] = NoCall]
    /\ UNCHANGED <<roomTables, roomPages, approvals, callCount>>

-----------------------------------------------------------------------------
(* Handlers of members' calls.                                             *)

Published(c) == rooms[calls[c].room] = "published"
OwnRoom(c) == rooms[calls[c].room] # "none" /\ calls[c].by = Creator
Read == UNCHANGED <<roomTables, roomPages, approvals, callCount>>

\* POST access-requests: the room, then the membership, then the upsert.
AccessRoomRead(c) ==
    /\ At(c, "access", "sent")
    /\ IF Published(c) /\ ~OwnRoom(c) THEN GoesOn(c, "room") ELSE Refuses(c)
    /\ Read

AccessMembershipRead(c) ==
    /\ At(c, "access", "room")
    /\ LET state == StateOf(calls[c].room, calls[c].by)
       IN  CASE state = {"blocked"} -> Refuses(c)
             [] state = {"active"}  -> Replies(c, TRUE, state)
             [] OTHER               -> GoesOn(c, "membership")
    /\ Read

\* Plausible bug: ON CONFLICT only sets the state.
KeepDecision(r, m) ==
    Membership(r, m, "pending",
               UNION {x.decidedBy : x \in {x \in memberships : x.room = r /\ x.user = m}})

PendingAgain(r, m) == Membership(r, m, "pending", {})

AccessRequested(c) ==
    /\ At(c, "access", "membership")
    /\ LET r == calls[c].room
           m == calls[c].by
       IN  memberships' = {x \in memberships : ~(x.room = r /\ x.user = m)} \cup {PendingAgain(r, m)}
    /\ Replies(c, TRUE, {"pending"})
    /\ UNCHANGED <<rooms, roomPosts, roomPages, approvals, callCount>>

\* GET access-requests, GET passes and GET rooms read once.
StateRead(c) ==
    /\ At(c, "state", "sent")
    /\ Replies(c, TRUE, StateOf(calls[c].room, calls[c].by))
    /\ Read

PassesRead(c) ==
    /\ At(c, "passes", "sent")
    /\ Replies(c, TRUE, {<<x.room, x.state>> : x \in {x \in memberships : x.user = calls[c].by}})
    /\ Read

RoomsRead(c) ==
    /\ At(c, "rooms", "sent")
    /\ Replies(c, TRUE, {r \in Rooms : rooms[r] = "published"})
    /\ Read

\* Plausible bug: any membership opens the room.
AnyMembership(c) == StateOf(calls[c].room, calls[c].by) # {}

Enters(c) == StateOf(calls[c].room, calls[c].by) = {"active"}

\* GET posts: canReadRoom reads the room and then the membership, the posts come last.
PostsRoomRead(c) ==
    /\ At(c, "posts", "sent")
    /\ IF ~Published(c) THEN Refuses(c) ELSE GoesOn(c, IF OwnRoom(c) THEN "reader" ELSE "room")
    /\ Read

PostsMembershipRead(c) ==
    /\ At(c, "posts", "room")
    /\ IF Enters(c) THEN GoesOn(c, "reader") ELSE Refuses(c)
    /\ Read

PostsRead(c) ==
    /\ At(c, "posts", "reader")
    /\ Replies(c, TRUE, {roomPosts[calls[c].room]})
    /\ Read

-----------------------------------------------------------------------------
(* Handlers of the creator's calls.                                        *)

\* POST rooms: a creator's room is published at once.
RoomCreated(c) ==
    /\ At(c, "create", "sent")
    /\ \E r \in Rooms : rooms[r] = "none" /\ rooms' = [rooms EXCEPT ![r] = "published"]
    /\ Replies(c, TRUE, {})
    /\ UNCHANGED <<memberships, roomPosts, roomPages, approvals, callCount>>

\* GET creator/rooms
OwnRoomsRead(c) ==
    /\ At(c, "own", "sent")
    /\ Replies(c, TRUE, {r \in Rooms : rooms[r] # "none"})
    /\ Read

\* PATCH creator/rooms, PATCH and GET its members and POST posts read the room first.
RoomChecked(c) ==
    /\ calls[c].pc = "sent" /\ calls[c].kind \in {"edit", "decide", "members", "post"}
    /\ IF OwnRoom(c) /\ (calls[c].kind = "post" => Published(c)) THEN GoesOn(c, "own") ELSE Refuses(c)
    /\ Read

RoomEdited(c) ==
    /\ At(c, "edit", "own")
    /\ rooms' = [rooms EXCEPT ![calls[c].room] = calls[c].arg]
    /\ Replies(c, TRUE, {})
    /\ UNCHANGED <<memberships, roomPosts, roomPages, approvals, callCount>>

MembersRead(c) ==
    /\ At(c, "members", "own")
    /\ Replies(c, TRUE, {<<x.user, x.state>> : x \in {x \in memberships : x.room = calls[c].room}})
    /\ Read

RoomPosted(c) ==
    /\ At(c, "post", "own")
    /\ roomPosts' = [roomPosts EXCEPT ![calls[c].room] = @ + 1]
    /\ Replies(c, TRUE, {})
    /\ UNCHANGED <<rooms, memberships, roomPages, approvals, callCount>>

RowExists(r, m) == StateOf(r, m) # {}

\* PATCH members/[memberId]: whatever the row's state is by now.
MemberDecided(c) ==
    /\ At(c, "decide", "own")
    /\ LET r == calls[c].room
           m == calls[c].arg[1]
           state == calls[c].arg[2]
       IN  IF RowExists(r, m)
             THEN /\ memberships' = {x \in memberships : ~(x.room = r /\ x.user = m)}
                                    \cup {Membership(r, m, state, {calls[c].by})}
                  /\ approvals' = approvals \cup (IF state = "active" THEN {<<r, m>>} ELSE {})
                  /\ calls' = [d \in CallSlots |->
                        IF d = c THEN [calls[c] EXCEPT !.pc = "answered", !.ok = TRUE]
                        ELSE IF calls[d] # NoCall /\ calls[d].room = r /\ calls[d].by = m /\ state = "active"
                        THEN [calls[d] EXCEPT !.admitted = TRUE]
                        ELSE calls[d]]
             ELSE Refuses(c) /\ UNCHANGED <<memberships, approvals>>
    /\ UNCHANGED <<rooms, roomPosts, roomPages, callCount>>

=============================================================================
