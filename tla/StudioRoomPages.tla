-------------------------- MODULE StudioRoomPages --------------------------
(***************************************************************************)
(* The creator's workspace (components/creator-workspace.tsx) and the room *)
(* directory of each member (components/managed-room-directory.tsx) over   *)
(* the rooms API.  A handler runs up to its await; what it sets afterwards *)
(* is an action of its own, in whatever order the answers come.            *)
(***************************************************************************)
EXTENDS StudioRooms

Workspace(kind, r, arg) == Call("workspace", kind, Creator, r, arg)
Directory(kind, m, r) == Call("directory", kind, m, r, "none")

\* The handler awaits another call, or is done.
Awaits(c, call) == calls' = [calls EXCEPT ![c] = call]
Done(c) == Awaits(c, NoCall)

Answered(c, page, kind) == At(c, kind, "answered") /\ calls[c].page = page

-----------------------------------------------------------------------------
(* The workspace.                                                          *)

\* On mount and when the account changes.
Refresh(c) ==
    /\ Sends(c, Workspace("own", NoRoom, "free"))
    /\ UNCHANGED <<roomTables, roomPages, approvals>>

\* Buttons that set busy are disabled while it is set.
Submits(c, kind, r, arg) ==
    /\ ~workspace.busy
    /\ Sends(c, Workspace(kind, r, arg))
    /\ workspace' = [workspace EXCEPT !.busy = TRUE]
    /\ UNCHANGED <<roomTables, directory, approvals>>

SaveProfile(c) == Submits(c, "profile", NoRoom, "busy")
CreateRoom(c) == Submits(c, "create", NoRoom, "none")

UpdateRoomSettings(c) ==
    /\ workspace.selected # NoRoom
    /\ \E status \in {"published", "archived"} : Submits(c, "edit", workspace.selected, status)

CreateRoomPost(c) ==
    /\ workspace.selected # NoRoom
    /\ Submits(c, "post", workspace.selected, "none")

\* Approve and Block are beside the pending members of the list under the room's name.
UpdateMember(c) ==
    /\ workspace.selected # NoRoom
    /\ \E m \in Members, action \in {"active", "blocked"} :
          /\ <<m, "pending">> \in workspace.members
          /\ Submits(c, "decide", workspace.selected, <<m, action>>)

\* The members of a room are fetched when it is selected; the list stays until
\* the answer comes, and no answer is cancelled.
SelectRoom(c) ==
    /\ \E r \in workspace.rooms \ {workspace.selected} :
          /\ workspace' = [workspace EXCEPT !.selected = r]
          /\ Sends(c, Workspace("members", r, "none"))
    /\ UNCHANGED <<roomTables, directory, approvals>>

\* saveProfile refreshes the page before it clears busy.
ProfileAnswered(c) ==
    /\ Answered(c, "workspace", "profile")
    /\ IF calls[c].ok
         THEN Awaits(c, Workspace("own", NoRoom, "busy")) /\ UNCHANGED workspace
         ELSE Done(c) /\ workspace' = [workspace EXCEPT !.busy = FALSE]
    /\ UNCHANGED <<roomTables, directory, approvals, callCount>>

\* The selected room is kept when it is still there.
Selection(listed) ==
    IF workspace.selected \in listed THEN {workspace.selected}
    ELSE IF listed = {} THEN {NoRoom} ELSE listed

RefreshAnswered(c) ==
    /\ Answered(c, "workspace", "own")
    /\ LET busy == workspace.busy /\ calls[c].arg # "busy"
           listed == IF calls[c].ok THEN calls[c].data ELSE workspace.rooms
       IN  \E r \in IF calls[c].ok THEN Selection(listed) ELSE {workspace.selected} :
              /\ workspace' = [workspace EXCEPT !.rooms = listed, !.busy = busy, !.selected = r,
                                                !.members = IF r = NoRoom THEN {} ELSE @]
              /\ IF r \in {NoRoom, workspace.selected}
                   THEN Done(c)
                   ELSE Awaits(c, Workspace("members", r, "none"))
    /\ UNCHANGED <<roomTables, directory, approvals, callCount>>

MembersAnswered(c) ==
    /\ Answered(c, "workspace", "members")
    /\ workspace' = [workspace EXCEPT !.members = calls[c].data]
    /\ Done(c)
    /\ UNCHANGED <<roomTables, directory, approvals, callCount>>

\* Plausible bug: busy is cleared at the end of the try block.
ClearedOnSuccess(ok) == ~ok

\* finally: after an error as well.
StillBusy(ok) == FALSE

\* The list on the page is changed, whichever room it is of by now.  A created
\* room is not listed: event.currentTarget is null after the await, so that
\* reset() throws and the catch branch reports an error.
SubmissionAnswered(c) ==
    /\ calls[c].pc = "answered" /\ calls[c].page = "workspace"
    /\ calls[c].kind \in {"create", "edit", "post", "decide"}
    /\ LET decided == calls[c].ok /\ calls[c].kind = "decide"
       IN  workspace' = [workspace EXCEPT
              !.busy = StillBusy(calls[c].ok),
              !.members = IF decided THEN {IF x[1] = calls[c].arg[1] THEN calls[c].arg ELSE x : x \in @}
                          ELSE @]
    /\ Done(c)
    /\ UNCHANGED <<roomTables, directory, approvals, callCount>>

-----------------------------------------------------------------------------
(* The directory.                                                          *)

LoadRooms(m, c) ==
    /\ Sends(c, Directory("rooms", m, NoRoom))
    /\ UNCHANGED <<roomTables, roomPages, approvals>>

\* The rooms are set, then the passes are asked for.
RoomsAnswered(c) ==
    /\ Answered(c, "directory", "rooms")
    /\ IF calls[c].ok
         THEN /\ directory' = [directory EXCEPT ![calls[c].by].listed = calls[c].data]
              /\ Awaits(c, Directory("passes", calls[c].by, NoRoom))
         ELSE Done(c) /\ UNCHANGED directory
    /\ UNCHANGED <<roomTables, workspace, approvals, callCount>>

\* All memberships are replaced by those of the answer.
PassesAnswered(c) ==
    /\ Answered(c, "directory", "passes")
    /\ IF calls[c].ok
         THEN directory' = [directory EXCEPT ![calls[c].by].shown = [r \in Rooms |->
                 IF \E x \in calls[c].data : x[1] = r
                   THEN (CHOOSE x \in calls[c].data : x[1] = r)[2] ELSE "none"]]
         ELSE UNCHANGED directory
    /\ Done(c)
    /\ UNCHANGED <<roomTables, workspace, approvals, callCount>>

\* The button is there unless a membership is shown, and is not disabled by a call.
RequestAccess(m, c) ==
    /\ \E r \in directory[m].listed :
          /\ directory[m].shown[r] \in {"none", "removed"}
          /\ Sends(c, Directory("access", m, r))
    /\ UNCHANGED <<roomTables, roomPages, approvals>>

AccessAnswered(c) ==
    /\ Answered(c, "directory", "access")
    /\ IF calls[c].ok
         THEN \E state \in calls[c].data :
                directory' = [directory EXCEPT ![calls[c].by].shown[calls[c].room] = state]
         ELSE UNCHANGED directory
    /\ Done(c)
    /\ UNCHANGED <<roomTables, workspace, approvals, callCount>>

OpenRoom(m, c) ==
    /\ \E r \in directory[m].listed :
          /\ directory[m].shown[r] = "active"
          /\ Sends(c, Directory("posts", m, r))
    /\ UNCHANGED <<roomTables, roomPages, approvals>>

PostsAnswered(c) ==
    /\ Answered(c, "directory", "posts")
    /\ IF calls[c].ok
         THEN \E n \in calls[c].data :
                directory' = [directory EXCEPT ![calls[c].by].open = calls[c].room,
                                               ![calls[c].by].posts = n]
         ELSE UNCHANGED directory
    /\ Done(c)
    /\ UNCHANGED <<roomTables, workspace, approvals, callCount>>

-----------------------------------------------------------------------------
\* PATCH creator/profile belongs to StudioAccounts; here it only answers.
ProfilePatched(c) == At(c, "profile", "sent") /\ Replies(c, TRUE, {}) /\ Read

ServerStep(c) ==
    \/ AccessRoomRead(c) \/ AccessMembershipRead(c) \/ AccessRequested(c)
    \/ StateRead(c) \/ PassesRead(c) \/ RoomsRead(c)
    \/ PostsRoomRead(c) \/ PostsMembershipRead(c) \/ PostsRead(c)
    \/ RoomCreated(c) \/ OwnRoomsRead(c) \/ RoomChecked(c) \/ RoomEdited(c)
    \/ MembersRead(c) \/ RoomPosted(c) \/ MemberDecided(c) \/ ProfilePatched(c)

PageStep(c) ==
    \/ Refresh(c) \/ SaveProfile(c) \/ CreateRoom(c) \/ UpdateRoomSettings(c)
    \/ CreateRoomPost(c) \/ UpdateMember(c) \/ SelectRoom(c)
    \/ ProfileAnswered(c) \/ RefreshAnswered(c) \/ MembersAnswered(c) \/ SubmissionAnswered(c)
    \/ RoomsAnswered(c) \/ PassesAnswered(c) \/ AccessAnswered(c) \/ PostsAnswered(c)
    \/ \E m \in Members : LoadRooms(m, c) \/ RequestAccess(m, c) \/ OpenRoom(m, c)

RoomsNext ==
    \E c \in CallSlots : ServerStep(c) \/ PageStep(c) \/ CallFails(c) \/ ScriptCalls(c) \/ ScriptAnswered(c)

-----------------------------------------------------------------------------
(* Properties.                                                             *)

\* "Room membership is pending until its creator approves it"
\* (docs/PRODUCTION_OPERATIONS.md:38): a member is active only when the creator
\* approved it for that room, every other decision is the creator's too, and a
\* request that waits carries no decision, however requests and decisions overlap.
OnlyTheCreatorAdmits ==
    \A x \in memberships :
        /\ x.state = "active" => <<x.room, x.user>> \in approvals
        /\ x.decidedBy = IF x.state = "pending" THEN {} ELSE {Creator}

\* Posts are given to the creator, or to somebody who was an active member at some
\* time while the call ran (the membership is read before the posts).
ReadersWereAdmitted ==
    \A c \in CallSlots :
        At(c, "posts", "answered") /\ calls[c].ok => calls[c].by = Creator \/ calls[c].admitted

\* The workspace's buttons are disabled only while one of its calls runs: lost
\* answers and refreshes in between do not leave it busy.
BusyWorkspaceHasACall ==
    workspace.busy =>
        \E c \in CallSlots :
            /\ calls[c] # NoCall /\ calls[c].page = "workspace"
            /\ \/ calls[c].kind \in {"create", "edit", "post", "decide", "profile"}
               \/ calls[c].kind = "own" /\ calls[c].arg = "busy"

\* Creators "review pending access requests" (Z0STUDIO_HANDOFF.md:200): with no
\* client but the pages, a member becomes active in a room only from a request
\* that is pending there.
OnlyRequestsAreApproved ==
    [][\A r \in Rooms, m \in Members :
          "active" \in StateOf(r, m)' \ StateOf(r, m) => StateOf(r, m) = {"pending"}]_roomVars

=============================================================================
