---------------------------- MODULE StudioProofs ----------------------------
(***************************************************************************)
(* Proofs about the Z0Studio API with its pages (StudioAccounts,           *)
(* StudioRoomPages and StudioCommunity as MCStudio composes them), for     *)
(* every value of their constants.  The parts share no variable, so each   *)
(* has an inductive invariant of its own.                                  *)
(***************************************************************************)
EXTENDS MCStudio, FiniteSetTheorems, SequenceTheorems, TLAPS

AccountsSpec == AccountsInit /\ [][AccountsNext]_accountVars
RoomsSpec == RoomsInit /\ [][RoomsNext]_roomVars
CommunitySpec == CommunityInit /\ [][CommunityNext]_communityVars

\* A behaviour of the API is, for each of its parts, a behaviour of that part.
LEMMA EachPart == Spec => AccountsSpec /\ RoomsSpec /\ CommunitySpec
<1>1. Init => AccountsInit /\ RoomsInit /\ CommunityInit
  BY DEF Init
<1>2. [Next]_studioVars =>
         [AccountsNext]_accountVars /\ [RoomsNext]_roomVars /\ [CommunityNext]_communityVars
  BY DEF Next, studioVars
<1>3. QED
  BY <1>1, <1>2, PTL DEF Spec, AccountsSpec, RoomsSpec, CommunitySpec

-----------------------------------------------------------------------------
(* Rooms: the inductive invariant.                                         *)

CallFields == {"pc", "page", "kind", "by", "room", "arg", "ok", "data", "admitted"}
WorkspaceFields == {"rooms", "selected", "members", "busy"}

\* A call in a slot: the creator's handlers run for the creator, no decision asks
\* for a membership to wait again, and a call for posts remembers that its sender
\* was an active member and comes to the posts only for such a sender or the creator.
FitCall(call) ==
    \/ call = NoCall
    \/ /\ DOMAIN call = CallFields
       /\ call.pc = "own" => call.by = Creator
       /\ call.kind = "decide" => call.arg[2] \in {"active", "blocked", "removed"}
       /\ call.kind = "posts" =>
             /\ "active" \in StateOf(call.room, call.by) => call.admitted
             /\ call.pc = "reader" => call.by = Creator \/ call.admitted
             /\ call.pc = "answered" /\ call.ok => call.by = Creator \/ call.admitted

CallsFit == DOMAIN calls = CallSlots /\ \A c \in CallSlots : FitCall(calls[c])

\* A call the workspace is busy with.
Holds(call) ==
    /\ call # NoCall /\ call.page = "workspace"
    /\ \/ call.kind \in {"create", "edit", "post", "decide", "profile"}
       \/ call.kind = "own" /\ call.arg = "busy"

RoomsInv ==
    /\ CallsFit
    /\ \A x \in memberships : DOMAIN x = {"room", "user", "state", "decidedBy"}
    /\ DOMAIN workspace = WorkspaceFields
    /\ OnlyTheCreatorAdmits /\ BusyWorkspaceHasACall

-----------------------------------------------------------------------------
(* Rooms: the kinds of steps.                                              *)

\* A step of one call that touches no membership; the workspace becomes busy only
\* with a call, and the call it is busy with stays.
OneCall(c) ==
    \E new :
        /\ FitCall(new) /\ calls' = [calls EXCEPT ![c] = new]
        /\ DOMAIN workspace' = WorkspaceFields
        /\ \/ Holds(new)
           \/ workspace'.busy = FALSE
           \/ workspace'.busy = workspace.busy /\ ~Holds(calls[c])
        /\ UNCHANGED <<memberships, approvals>>

\* No call.
LEMMA NoCallFits == FitCall(NoCall) /\ ~Holds(NoCall) /\ NoCall.pc = "idle"
  BY DEF FitCall, Holds, NoCall

\* Such a step keeps the invariant.
LEMMA OneCallKeeps ==
    ASSUME RoomsInv, NEW c \in CallSlots, OneCall(c)
    PROVE  RoomsInv'
<1>1. PICK new :
        /\ FitCall(new) /\ calls' = [calls EXCEPT ![c] = new]
        /\ DOMAIN workspace' = WorkspaceFields
        /\ \/ Holds(new)
           \/ workspace'.busy = FALSE
           \/ workspace'.busy = workspace.busy /\ ~Holds(calls[c])
        /\ UNCHANGED <<memberships, approvals>>
  BY DEF OneCall
<1>2. /\ DOMAIN calls' = CallSlots /\ calls'[c] = new
      /\ \A d \in CallSlots \ {c} : calls'[d] = calls[d]
  BY <1>1 DEF RoomsInv, CallsFit
<1>3. CallsFit'
  <2>1. \A d \in CallSlots : FitCall(calls'[d])
    BY <1>1, <1>2 DEF RoomsInv, CallsFit
  <2>2. \A d \in CallSlots : FitCall(calls[d])'
    BY <1>1, <2>1 DEF FitCall, StateOf
  <2>3. QED
    BY <1>2, <2>2 DEF CallsFit
<1>4. OnlyTheCreatorAdmits'
  BY <1>1 DEF RoomsInv, OnlyTheCreatorAdmits
<1>5. BusyWorkspaceHasACall'
  <2>1. workspace'.busy => \E d \in CallSlots : Holds(calls'[d])
    <3>1. CASE Holds(new)
      BY <1>2, <3>1
    <3>2. CASE workspace'.busy = workspace.busy /\ ~Holds(calls[c])
      <4>1. workspace.busy => \E d \in CallSlots : Holds(calls[d])
        BY DEF RoomsInv, BusyWorkspaceHasACall, Holds
      <4>2. QED
        BY <1>2, <3>2, <4>1
    <3>3. QED
      BY <1>1, <3>1, <3>2
  <2>2. QED
    BY <2>1 DEF BusyWorkspaceHasACall, Holds
<1>6. QED
  BY <1>1, <1>3, <1>4, <1>5 DEF RoomsInv

\* A call as it leaves a page.
LEMMA FreshCall ==
    ASSUME NEW page, NEW kind, NEW by, NEW r, NEW arg,
           kind = "decide" => arg[2] \in {"active", "blocked", "removed"}
    PROVE  /\ FitCall(Call(page, kind, by, r, arg))
           /\ page = "workspace"
              /\ \/ kind \in {"create", "edit", "post", "decide", "profile"}
                 \/ kind = "own" /\ arg = "busy"
              => Holds(Call(page, kind, by, r, arg))
<1> DEFINE call == Call(page, kind, by, r, arg)
<1>1. /\ DOMAIN call = CallFields /\ call.pc = "sent" /\ call.page = page /\ call.kind = kind
      /\ call.by = by /\ call.room = r /\ call.arg = arg
      /\ call.admitted = ("active" \in StateOf(r, by))
  BY DEF Call, CallFields
<1> HIDE DEF call
<1>2. FitCall(call)
  BY <1>1 DEF FitCall
<1>3. call # NoCall
  BY <1>1, NoCallFits
<1>4. QED
  BY <1>1, <1>2, <1>3 DEF Holds, call

\* The call that was, but for its progress and its answer.
SameCall(old, new) ==
    /\ DOMAIN new = CallFields
    /\ new.page = old.page /\ new.kind = old.kind /\ new.by = old.by
    /\ new.room = old.room /\ new.arg = old.arg /\ new.admitted = old.admitted

\* A call of the API whose handler goes on or answers.
LEMMA OngoingCall ==
    ASSUME RoomsInv, NEW c \in CallSlots, calls[c] # NoCall,
           NEW new, SameCall(calls[c], new),
           new.pc = "own" => calls[c].by = Creator,
           calls[c].kind = "posts" =>
              /\ new.pc = "reader" => calls[c].by = Creator \/ calls[c].admitted
              /\ new.pc = "answered" /\ new.ok => calls[c].by = Creator \/ calls[c].admitted
    PROVE  FitCall(new) /\ (Holds(new) <=> Holds(calls[c]))
<1>1. FitCall(calls[c]) /\ DOMAIN calls[c] = CallFields
  BY DEF RoomsInv, CallsFit, FitCall
<1>2. FitCall(new)
  BY <1>1 DEF FitCall, SameCall
<1>3. new # NoCall
  BY DEF NoCall, CallFields, SameCall
<1>4. QED
  BY <1>2, <1>3 DEF Holds, SameCall

-----------------------------------------------------------------------------
(* Rooms: each action is of that kind, or changes a membership.            *)

\* The handler goes on.
LEMMA GoingOn ==
    ASSUME RoomsInv, NEW c \in CallSlots, calls[c] # NoCall, NEW pc, GoesOn(c, pc),
           pc # "answered", pc = "own" => calls[c].by = Creator,
           calls[c].kind = "posts" /\ pc = "reader" => calls[c].by = Creator \/ calls[c].admitted,
           UNCHANGED <<memberships, approvals, workspace>>
    PROVE  OneCall(c)
<1> DEFINE new == [calls[c] EXCEPT !.pc = pc]
<1>1. DOMAIN calls = CallSlots /\ DOMAIN calls[c] = CallFields
  BY DEF RoomsInv, CallsFit, FitCall
<1>2. calls' = [calls EXCEPT ![c] = new]
  BY DEF GoesOn
<1>3. SameCall(calls[c], new) /\ new.pc = pc
  BY <1>1 DEF SameCall, CallFields
<1> HIDE DEF new
<1>4. FitCall(new) /\ (Holds(new) <=> Holds(calls[c]))
  BY <1>3, OngoingCall
<1>5. QED
  BY <1>2, <1>4 DEF OneCall, RoomsInv

\* The handler answers.
LEMMA Replying ==
    ASSUME RoomsInv, NEW c \in CallSlots, calls[c] # NoCall, NEW ok, NEW data,
           Replies(c, ok, data),
           calls[c].kind = "posts" /\ ok => calls[c].by = Creator \/ calls[c].admitted,
           UNCHANGED <<memberships, approvals, workspace>>
    PROVE  OneCall(c)
<1> DEFINE new == [calls[c] EXCEPT !.pc = "answered", !.ok = ok, !.data = data]
<1>1. DOMAIN calls = CallSlots /\ DOMAIN calls[c] = CallFields
  BY DEF RoomsInv, CallsFit, FitCall
<1>2. calls' = [calls EXCEPT ![c] = new]
  BY <1>1 DEF Replies
<1>3. SameCall(calls[c], new) /\ new.pc = "answered" /\ new.ok = ok
  BY <1>1 DEF SameCall, CallFields
<1> HIDE DEF new
<1>4. FitCall(new) /\ (Holds(new) <=> Holds(calls[c]))
  BY <1>3, OngoingCall
<1>5. QED
  BY <1>2, <1>4 DEF OneCall, RoomsInv

\* A page sends a call.
LEMMA Sending ==
    ASSUME RoomsInv, NEW c \in CallSlots, NEW page, NEW kind, NEW by, NEW r, NEW arg,
           Sends(c, Call(page, kind, by, r, arg)),
           kind = "decide" => arg[2] \in {"active", "blocked", "removed"},
           DOMAIN workspace' = WorkspaceFields,
           workspace'.busy = workspace.busy \/ Holds(Call(page, kind, by, r, arg)),
           UNCHANGED <<memberships, approvals>>
    PROVE  OneCall(c)
<1> DEFINE new == Call(page, kind, by, r, arg)
<1>1. FitCall(new)
  BY FreshCall
<1>2. calls[c] = NoCall /\ calls' = [calls EXCEPT ![c] = new]
  BY DEF Sends, Makes
<1>3. workspace'.busy = workspace.busy \/ Holds(new)
  OBVIOUS
<1> HIDE DEF new
<1>4. QED
  BY <1>1, <1>2, <1>3, NoCallFits DEF OneCall

\* A handler of the API that only reads, or writes rooms or posts.
LEMMA HandlerSteps ==
    ASSUME RoomsInv, NEW c \in CallSlots,
           \/ AccessRoomRead(c) \/ AccessMembershipRead(c)
           \/ StateRead(c) \/ PassesRead(c) \/ RoomsRead(c)
           \/ PostsRoomRead(c) \/ PostsMembershipRead(c) \/ PostsRead(c)
           \/ RoomCreated(c) \/ OwnRoomsRead(c) \/ RoomChecked(c) \/ RoomEdited(c)
           \/ MembersRead(c) \/ RoomPosted(c) \/ ProfilePatched(c) \/ CallFails(c)
    PROVE  OneCall(c)
<1> USE DEF Read, roomTables, roomPages, At, Refuses
<1>0. /\ NoCall.pc = "idle"
      /\ calls[c] # NoCall /\ calls[c].kind = "posts" =>
            /\ "active" \in StateOf(calls[c].room, calls[c].by) => calls[c].admitted
            /\ calls[c].pc = "reader" => calls[c].by = Creator \/ calls[c].admitted
  BY NoCallFits DEF RoomsInv, CallsFit, FitCall
<1>1. CASE AccessRoomRead(c)
  BY <1>0, <1>1, GoingOn, Replying DEF AccessRoomRead
<1>2. CASE AccessMembershipRead(c)
  BY <1>0, <1>2, GoingOn, Replying DEF AccessMembershipRead
<1>3. CASE StateRead(c)
  BY <1>0, <1>3, Replying DEF StateRead
<1>4. CASE PassesRead(c)
  BY <1>0, <1>4, Replying DEF PassesRead
<1>5. CASE RoomsRead(c)
  BY <1>0, <1>5, Replying DEF RoomsRead
<1>6. CASE PostsRoomRead(c)
  <2>1. PICK pc \in {"reader", "room"} :
           IF Published(c) THEN GoesOn(c, pc) /\ (pc = "reader" => OwnRoom(c)) ELSE Refuses(c)
    BY <1>6 DEF PostsRoomRead
  <2>2. QED
    BY <1>0, <1>6, <2>1, GoingOn, Replying DEF PostsRoomRead, OwnRoom
<1>7. CASE PostsMembershipRead(c)
  BY <1>0, <1>7, GoingOn, Replying DEF PostsMembershipRead, Enters
<1>8. CASE PostsRead(c)
  BY <1>0, <1>8, Replying DEF PostsRead
<1>9. CASE RoomCreated(c)
  BY <1>0, <1>9, Replying DEF RoomCreated
<1>10. CASE OwnRoomsRead(c)
  BY <1>0, <1>10, Replying DEF OwnRoomsRead
<1>11. CASE RoomChecked(c)
  BY <1>0, <1>11, GoingOn, Replying DEF RoomChecked, OwnRoom
<1>12. CASE RoomEdited(c)
  BY <1>0, <1>12, Replying DEF RoomEdited
<1>13. CASE MembersRead(c)
  BY <1>0, <1>13, Replying DEF MembersRead
<1>14. CASE RoomPosted(c)
  BY <1>0, <1>14, Replying DEF RoomPosted
<1>15. CASE ProfilePatched(c)
  BY <1>0, <1>15, Replying DEF ProfilePatched
<1>16. CASE CallFails(c)
  BY <1>0, <1>16, Replying DEF CallFails
<1>17. QED
  BY <1>1, <1>2, <1>3, <1>4, <1>5, <1>6, <1>7, <1>8, <1>9, <1>10, <1>11, <1>12, <1>13,
     <1>14, <1>15, <1>16

\* A page, or a client of its own, sends a call.
LEMMA SendingSteps ==
    ASSUME RoomsInv, NEW c \in CallSlots,
           \/ Refresh(c) \/ SaveProfile(c) \/ CreateRoom(c) \/ UpdateRoomSettings(c)
           \/ CreateRoomPost(c) \/ UpdateMember(c) \/ SelectRoom(c) \/ ScriptCalls(c)
           \/ \E m \in Members : LoadRooms(m, c) \/ RequestAccess(m, c) \/ OpenRoom(m, c)
    PROVE  OneCall(c)
<1> USE DEF roomTables, roomPages, Workspace, Directory
<1>0. DOMAIN workspace = WorkspaceFields
  BY DEF RoomsInv
<1>1. ASSUME NEW kind, NEW r, NEW arg, Submits(c, kind, r, arg),
             kind = "decide" => arg[2] \in {"active", "blocked", "removed"},
             kind \in {"create", "edit", "post", "decide", "profile"}
      PROVE  OneCall(c)
  <2>1. /\ Sends(c, Call("workspace", kind, Creator, r, arg))
        /\ DOMAIN workspace' = WorkspaceFields
        /\ UNCHANGED <<memberships, approvals>>
    BY <1>0, <1>1 DEF Submits, WorkspaceFields
  <2>2. Holds(Call("workspace", kind, Creator, r, arg))
    BY <1>1, FreshCall
  <2>3. QED
    BY <1>1, <2>1, <2>2, Sending
<1>2. CASE SaveProfile(c) \/ CreateRoom(c) \/ UpdateRoomSettings(c) \/ CreateRoomPost(c)
  BY <1>1, <1>2 DEF SaveProfile, CreateRoom, UpdateRoomSettings, CreateRoomPost
<1>3. CASE UpdateMember(c)
  <2>1. PICK m \in Members, action \in {"active", "blocked"} :
           Submits(c, "decide", workspace.selected, <<m, action>>)
    BY <1>3 DEF UpdateMember
  <2>2. <<m, action>>[2] \in {"active", "blocked", "removed"}
    OBVIOUS
  <2>3. QED
    BY <1>1, <2>1, <2>2
<1>4. CASE SelectRoom(c)
  <2>1. PICK r : /\ workspace' = [workspace EXCEPT !.selected = r]
                 /\ Sends(c, Call("workspace", "members", Creator, r, "none"))
                 /\ UNCHANGED <<memberships, approvals>>
    BY <1>4 DEF SelectRoom
  <2>2. DOMAIN workspace' = WorkspaceFields /\ workspace'.busy = workspace.busy
    BY <1>0, <2>1 DEF WorkspaceFields
  <2>3. QED
    BY <2>1, <2>2, Sending
<1>5. CASE Refresh(c)
  BY <1>0, <1>5, Sending DEF Refresh
<1>6. ASSUME NEW m \in Members, LoadRooms(m, c) \/ RequestAccess(m, c) \/ OpenRoom(m, c)
      PROVE  OneCall(c)
  BY <1>0, <1>6, Sending DEF LoadRooms, RequestAccess, OpenRoom
<1>7. CASE ScriptCalls(c)
  <2>1. UNCHANGED <<memberships, approvals, workspace>>
    BY <1>7 DEF ScriptCalls
  <2>2. PICK by \in Scripts, r \in Rooms :
           \/ \E kind \in {"access", "state", "posts", "post", "members"} :
                 Sends(c, Call("script", kind, by, r, "none"))
           \/ \E m \in Members : Sends(c, Call("script", "decide", by, r, <<m, "removed">>))
    BY <1>7 DEF ScriptCalls
  <2>3. ASSUME NEW kind \in {"access", "state", "posts", "post", "members"},
               Sends(c, Call("script", kind, by, r, "none"))
        PROVE  OneCall(c)
    BY <1>0, <2>1, <2>3, Sending
  <2>4. ASSUME NEW m \in Members, Sends(c, Call("script", "decide", by, r, <<m, "removed">>))
        PROVE  OneCall(c)
    <3>1. <<m, "removed">>[2] \in {"active", "blocked", "removed"}
      OBVIOUS
    <3>2. QED
      BY <1>0, <2>1, <2>4, <3>1, Sending
  <2>5. QED
    BY <2>2, <2>3, <2>4
<1>8. QED
  BY <1>2, <1>3, <1>4, <1>5, <1>6, <1>7

\* A page hears an answer, and is done or awaits another call.
LEMMA Hearing ==
    ASSUME RoomsInv, NEW c \in CallSlots, NEW next, Awaits(c, next),
           FitCall(next),
           \/ DOMAIN workspace' = WorkspaceFields
              /\ \/ Holds(next) \/ workspace'.busy = FALSE
                 \/ workspace'.busy = workspace.busy /\ ~Holds(calls[c])
           \/ workspace' = workspace /\ ~Holds(calls[c]),
           UNCHANGED <<memberships, approvals>>
    PROVE  OneCall(c)
  BY DEF OneCall, Awaits, RoomsInv

\* Each handler of an answer is such a step.
LEMMA HearingSteps ==
    ASSUME RoomsInv, NEW c \in CallSlots,
           \/ ProfileAnswered(c) \/ RefreshAnswered(c) \/ MembersAnswered(c)
           \/ SubmissionAnswered(c) \/ ScriptAnswered(c)
           \/ RoomsAnswered(c) \/ PassesAnswered(c) \/ AccessAnswered(c) \/ PostsAnswered(c)
    PROVE  OneCall(c)
<1> USE DEF roomTables, roomPages, Workspace, Directory, Answered, At, Done
<1>0. DOMAIN workspace = WorkspaceFields /\ FitCall(NoCall)
  BY NoCallFits DEF RoomsInv
<1>1. CASE ProfileAnswered(c)
  <2>1. CASE Awaits(c, Call("workspace", "own", Creator, NoRoom, "busy")) /\ workspace' = workspace
    <3>1. FitCall(Call("workspace", "own", Creator, NoRoom, "busy"))
          /\ Holds(Call("workspace", "own", Creator, NoRoom, "busy"))
      BY FreshCall
    <3>2. QED
      BY <1>0, <1>1, <2>1, <3>1, Hearing DEF ProfileAnswered
  <2>2. CASE Awaits(c, NoCall) /\ workspace' = [workspace EXCEPT !.busy = FALSE]
    <3>1. DOMAIN workspace' = WorkspaceFields /\ workspace'.busy = FALSE
      BY <1>0, <2>2 DEF WorkspaceFields
    <3>2. QED
      BY <1>0, <1>1, <2>2, <3>1, Hearing DEF ProfileAnswered
  <2>3. QED
    BY <1>1, <2>1, <2>2 DEF ProfileAnswered
<1>2. CASE RefreshAnswered(c)
  <2> DEFINE busy == workspace.busy /\ calls[c].arg # "busy"
             listed == IF calls[c].ok THEN calls[c].data ELSE workspace.rooms
  <2>1. PICK r :
          /\ workspace' = [workspace EXCEPT !.rooms = listed, !.busy = busy, !.selected = r,
                                            !.members = IF r = NoRoom THEN {} ELSE @]
          /\ \/ Awaits(c, NoCall)
             \/ Awaits(c, Call("workspace", "members", Creator, r, "none"))
    BY <1>2 DEF RefreshAnswered
  <2>2. DOMAIN workspace' = WorkspaceFields /\ workspace'.busy = busy
    BY <1>0, <2>1 DEF WorkspaceFields
  <2>3. FitCall(Call("workspace", "members", Creator, r, "none"))
    BY FreshCall
  <2>4. calls[c].kind = "own" /\ UNCHANGED <<memberships, approvals>>
    BY <1>2 DEF RefreshAnswered
  <2>5. busy = FALSE \/ ~Holds(calls[c])
    BY <2>4 DEF Holds
  <2>6. QED
    BY <1>0, <2>1, <2>2, <2>3, <2>4, <2>5, Hearing
<1>3. CASE MembersAnswered(c)
  <2>1. DOMAIN workspace' = WorkspaceFields /\ workspace'.busy = workspace.busy
    BY <1>0, <1>3 DEF MembersAnswered, WorkspaceFields
  <2>2. QED
    BY <1>0, <1>3, <2>1, Hearing DEF MembersAnswered, Holds
<1>4. CASE SubmissionAnswered(c)
  <2>1. DOMAIN workspace' = WorkspaceFields /\ workspace'.busy = FALSE
    BY <1>0, <1>4 DEF SubmissionAnswered, WorkspaceFields, StillBusy
  <2>2. QED
    BY <1>0, <1>4, <2>1, Hearing DEF SubmissionAnswered
<1>5. CASE ScriptAnswered(c)
  BY <1>0, <1>5, Hearing DEF ScriptAnswered, Awaits, Holds
<1>6. CASE RoomsAnswered(c)
  <2>1. ~Holds(calls[c]) /\ UNCHANGED <<memberships, approvals, workspace>>
    BY <1>6 DEF RoomsAnswered, Holds
  <2>2. \/ Awaits(c, NoCall)
        \/ Awaits(c, Call("directory", "passes", calls[c].by, NoRoom, "none"))
    BY <1>6 DEF RoomsAnswered
  <2>3. FitCall(Call("directory", "passes", calls[c].by, NoRoom, "none"))
    BY FreshCall
  <2>4. QED
    BY <1>0, <2>1, <2>2, <2>3, Hearing
<1>7. CASE PassesAnswered(c) \/ AccessAnswered(c) \/ PostsAnswered(c)
  <2>1. ~Holds(calls[c]) /\ UNCHANGED <<memberships, approvals, workspace>>
    BY <1>7 DEF PassesAnswered, AccessAnswered, PostsAnswered, Holds
  <2>2. Awaits(c, NoCall)
    BY <1>7 DEF PassesAnswered, AccessAnswered, PostsAnswered
  <2>3. QED
    BY <1>0, <2>1, <2>2, Hearing
<1>8. QED
  BY <1>1, <1>2, <1>3, <1>4, <1>5, <1>6, <1>7

-----------------------------------------------------------------------------
(* Rooms: the writes of memberships.                                       *)

\* The state of a membership after its row was replaced.
LEMMA RowReplaced ==
    ASSUME NEW r, NEW m, NEW state, NEW decidedBy,
           memberships' = {x \in memberships : ~(x.room = r /\ x.user = m)}
                          \cup {Membership(r, m, state, decidedBy)}
    PROVE  /\ StateOf(r, m)' = {state}
           /\ \A s, n : s # r \/ n # m => StateOf(s, n)' = StateOf(s, n)
<1> DEFINE row == Membership(r, m, state, decidedBy)
<1>1. row.room = r /\ row.user = m /\ row.state = state
  BY DEF Membership
<1>2. memberships' = {x \in memberships : ~(x.room = r /\ x.user = m)} \cup {row}
  OBVIOUS
<1> HIDE DEF row
<1>3. StateOf(r, m)' = {state}
  BY <1>1, <1>2 DEF StateOf
<1>4. ASSUME NEW s, NEW n, s # r \/ n # m
      PROVE  StateOf(s, n)' = StateOf(s, n)
  <2>1. {x \in memberships' : x.room = s /\ x.user = n}
          = {x \in memberships : x.room = s /\ x.user = n}
    BY <1>1, <1>2, <1>4
  <2>2. QED
    BY <2>1 DEF StateOf
<1>5. QED
  BY <1>3, <1>4

\* A request replaces the row by one that waits; no membership becomes active.
LEMMA AccessRequestedKeeps ==
    ASSUME RoomsInv, NEW c \in CallSlots, AccessRequested(c)
    PROVE  RoomsInv'
<1>0. PICK r, m : r = calls[c].room /\ m = calls[c].by
  OBVIOUS
<1> DEFINE row == Membership(r, m, "pending", {})
           new == [calls[c] EXCEPT !.pc = "answered", !.ok = TRUE, !.data = {"pending"}]
<1>1. /\ calls[c] # NoCall /\ calls[c].kind = "access"
      /\ memberships' = {x \in memberships : ~(x.room = r /\ x.user = m)} \cup {row}
      /\ UNCHANGED <<approvals, workspace>>
  BY <1>0, NoCallFits DEF AccessRequested, At, PendingAgain, roomPages
<1>2. DOMAIN calls = CallSlots /\ DOMAIN calls[c] = CallFields /\ FitCall(calls[c])
  BY <1>1 DEF RoomsInv, CallsFit, FitCall
<1>3. calls' = [calls EXCEPT ![c] = new]
  BY <1>2 DEF AccessRequested, Replies
<1>4. SameCall(calls[c], new) /\ new.pc = "answered"
  BY <1>2 DEF SameCall, CallFields
<1>5. DOMAIN row = {"room", "user", "state", "decidedBy"} /\ row.state = "pending"
      /\ row.decidedBy = {}
  BY DEF Membership
<1>6. \A s, n : "active" \in StateOf(s, n)' => "active" \in StateOf(s, n)
  <2>1. StateOf(r, m)' = {"pending"} /\ \A s, n : s # r \/ n # m => StateOf(s, n)' = StateOf(s, n)
    BY <1>1, RowReplaced
  <2>2. QED
    BY <2>1
<1> HIDE DEF row, new
<1>7. FitCall(new) /\ (Holds(new) <=> Holds(calls[c]))
  BY <1>1, <1>4, OngoingCall
<1>8. CallsFit'
  <2>1. \A d \in CallSlots : FitCall(calls'[d])
    BY <1>3, <1>7 DEF RoomsInv, CallsFit
  <2>2. \A d \in CallSlots : FitCall(calls[d])'
    BY <1>6, <2>1 DEF FitCall
  <2>3. QED
    BY <1>2, <1>3, <2>2 DEF CallsFit
<1>9. (\A x \in memberships : DOMAIN x = {"room", "user", "state", "decidedBy"})'
  BY <1>1, <1>5 DEF RoomsInv
<1>10. OnlyTheCreatorAdmits'
  BY <1>1, <1>5 DEF RoomsInv, OnlyTheCreatorAdmits
<1>11. BusyWorkspaceHasACall'
  <2>1. workspace.busy => \E d \in CallSlots : Holds(calls[d])
    BY DEF RoomsInv, BusyWorkspaceHasACall, Holds
  <2>2. workspace.busy => \E d \in CallSlots : Holds(calls'[d])
    BY <1>2, <1>3, <1>7, <2>1
  <2>3. QED
    BY <1>1, <2>2 DEF BusyWorkspaceHasACall, Holds
<1>12. QED
  BY <1>1, <1>8, <1>9, <1>10, <1>11 DEF RoomsInv

\* A decision is the creator's, and an approval is told to the member's calls.
LEMMA MemberDecidedKeeps ==
    ASSUME RoomsInv, NEW c \in CallSlots, MemberDecided(c)
    PROVE  RoomsInv'
<1>0. PICK r, m, state, by :
         r = calls[c].room /\ m = calls[c].arg[1] /\ state = calls[c].arg[2] /\ by = calls[c].by
  OBVIOUS
<1> DEFINE row == Membership(r, m, state, {by})
<1>1. calls[c] # NoCall /\ calls[c].kind = "decide" /\ calls[c].pc = "own" /\ workspace' = workspace
  BY NoCallFits DEF MemberDecided, At, roomPages
<1>2. DOMAIN calls = CallSlots /\ DOMAIN calls[c] = CallFields /\ FitCall(calls[c])
  BY <1>1 DEF RoomsInv, CallsFit, FitCall
<1>3. by = Creator /\ state \in {"active", "blocked", "removed"}
  BY <1>0, <1>1, <1>2 DEF FitCall
<1>4. CASE ~RowExists(r, m)
  <2>1. Replies(c, FALSE, {}) /\ UNCHANGED <<memberships, approvals>>
    BY <1>0, <1>4 DEF MemberDecided, Refuses
  <2>2. QED
    BY <1>1, <2>1, Replying, OneCallKeeps
<1>5. CASE RowExists(r, m)
  <2>1. /\ memberships' = {x \in memberships : ~(x.room = r /\ x.user = m)} \cup {row}
        /\ approvals' = approvals \cup (IF state = "active" THEN {<<r, m>>} ELSE {})
        /\ calls' = [d \in CallSlots |->
              IF d = c THEN [calls[c] EXCEPT !.pc = "answered", !.ok = TRUE]
              ELSE IF calls[d] # NoCall /\ calls[d].room = r /\ calls[d].by = m /\ state = "active"
              THEN [calls[d] EXCEPT !.admitted = TRUE]
              ELSE calls[d]]
    BY <1>0, <1>5 DEF MemberDecided
  <2>2. /\ DOMAIN row = {"room", "user", "state", "decidedBy"} /\ row.state = state
        /\ row.decidedBy = {Creator} /\ row.room = r /\ row.user = m
    BY <1>3 DEF Membership
  <2>3. /\ StateOf(r, m)' = {state}
        /\ \A s, n : s # r \/ n # m => StateOf(s, n)' = StateOf(s, n)
    BY <2>1, RowReplaced
  <2> HIDE DEF row
  <2>4. /\ SameCall(calls[c], calls'[c]) /\ calls'[c].pc = "answered"
        /\ \A d \in CallSlots \ {c} :
              \/ calls'[d] = calls[d]
                 /\ (calls[d] = NoCall \/ calls[d].room # r \/ calls[d].by # m \/ state # "active")
              \/ calls[d] # NoCall /\ calls'[d] = [calls[d] EXCEPT !.admitted = TRUE]
    BY <1>2, <2>1 DEF SameCall, CallFields
  <2>5. FitCall(calls'[c]) /\ (Holds(calls'[c]) <=> Holds(calls[c])) /\ calls'[c].kind = "decide"
    BY <1>1, <2>4, OngoingCall DEF SameCall
  <2>6. FitCall(calls[c])'
    BY <2>5 DEF FitCall
  <2>7. ASSUME NEW d \in CallSlots \ {c}
        PROVE  FitCall(calls[d])' /\ (Holds(calls'[d]) <=> Holds(calls[d]))
    <3>0. FitCall(calls[d])
      BY DEF RoomsInv, CallsFit
    <3>1. CASE calls'[d] = calls[d]
               /\ (calls[d] = NoCall \/ calls[d].room # r \/ calls[d].by # m \/ state # "active")
      BY <2>3, <3>0, <3>1 DEF FitCall
    <3>2. CASE calls[d] # NoCall /\ calls'[d] = [calls[d] EXCEPT !.admitted = TRUE]
      <4>1. DOMAIN calls[d] = CallFields
        BY <3>0, <3>2 DEF FitCall
      <4>2. /\ DOMAIN calls'[d] = CallFields /\ calls'[d].admitted = TRUE
            /\ calls'[d].pc = calls[d].pc /\ calls'[d].page = calls[d].page
            /\ calls'[d].kind = calls[d].kind /\ calls'[d].by = calls[d].by
            /\ calls'[d].arg = calls[d].arg
        BY <3>2, <4>1 DEF CallFields
      <4>3. FitCall(calls[d])'
        BY <3>0, <3>2, <4>2 DEF FitCall
      <4>4. calls'[d] # NoCall
        BY <4>2 DEF NoCall, CallFields
      <4>5. QED
        BY <3>2, <4>2, <4>3, <4>4 DEF Holds
    <3>3. QED
      BY <2>4, <3>1, <3>2
  <2>8. CallsFit'
    BY <2>1, <2>6, <2>7 DEF CallsFit
  <2>9. (\A x \in memberships : DOMAIN x = {"room", "user", "state", "decidedBy"})'
    BY <2>1, <2>2 DEF RoomsInv
  <2>10. OnlyTheCreatorAdmits'
    <3>1. approvals \subseteq approvals' /\ (state = "active" => <<r, m>> \in approvals')
      BY <2>1
    <3>2. QED
      BY <1>3, <2>1, <2>2, <3>1 DEF RoomsInv, OnlyTheCreatorAdmits
  <2>11. BusyWorkspaceHasACall'
    <3>1. workspace.busy => \E d \in CallSlots : Holds(calls[d])
      BY DEF RoomsInv, BusyWorkspaceHasACall, Holds
    <3>2. workspace.busy => \E d \in CallSlots : Holds(calls'[d])
      BY <2>5, <2>7, <3>1
    <3>3. QED
      BY <1>1, <3>2 DEF BusyWorkspaceHasACall, Holds
  <2>12. QED
    BY <1>1, <2>8, <2>9, <2>10, <2>11 DEF RoomsInv
<1>6. QED
  BY <1>4, <1>5

-----------------------------------------------------------------------------
(* Rooms: the theorem.                                                     *)

\* Rooms and memberships that earlier calls left satisfy the invariant.
LEMMA RoomsInitInv == RoomsInit => RoomsInv
<1> SUFFICES ASSUME RoomsInit PROVE RoomsInv
  OBVIOUS
<1>1. CallsFit
  BY NoCallFits DEF RoomsInit, CallsFit
<1>2. DOMAIN workspace = WorkspaceFields /\ BusyWorkspaceHasACall
  BY DEF RoomsInit, WorkspaceFields, BusyWorkspaceHasACall
<1>3. PICK rows \in SUBSET [room : Rooms, user : Members, state : InitialStates] :
        /\ memberships = {Membership(x.room, x.user, x.state,
                                     IF x.state = "pending" THEN {} ELSE {Creator}) : x \in rows}
        /\ approvals = {<<x.room, x.user>> : x \in {x \in rows : x.state = "active"}}
  BY DEF RoomsInit
<1>4. ASSUME NEW y \in memberships
      PROVE  /\ DOMAIN y = {"room", "user", "state", "decidedBy"}
             /\ y.state = "active" => <<y.room, y.user>> \in approvals
             /\ y.decidedBy = IF y.state = "pending" THEN {} ELSE {Creator}
  <2>1. PICK x \in rows : y = Membership(x.room, x.user, x.state,
                                         IF x.state = "pending" THEN {} ELSE {Creator})
    BY <1>3
  <2>2. /\ DOMAIN y = {"room", "user", "state", "decidedBy"}
        /\ y.room = x.room /\ y.user = x.user /\ y.state = x.state
        /\ y.decidedBy = IF x.state = "pending" THEN {} ELSE {Creator}
    BY <2>1 DEF Membership
  <2>3. QED
    BY <1>3, <2>2
<1>5. QED
  BY <1>1, <1>2, <1>4 DEF RoomsInv, OnlyTheCreatorAdmits

\* Every step keeps the invariant.
LEMMA RoomsNextInv == RoomsInv /\ [RoomsNext]_roomVars => RoomsInv'
<1> SUFFICES ASSUME RoomsInv, [RoomsNext]_roomVars PROVE RoomsInv'
  OBVIOUS
<1>1. CASE UNCHANGED roomVars
  BY <1>1 DEF roomVars, roomTables, roomPages, RoomsInv, CallsFit, FitCall, StateOf,
              OnlyTheCreatorAdmits, BusyWorkspaceHasACall
<1>2. ASSUME NEW c \in CallSlots,
             ServerStep(c) \/ PageStep(c) \/ CallFails(c) \/ ScriptCalls(c) \/ ScriptAnswered(c)
      PROVE  RoomsInv'
  <2>1. CASE AccessRequested(c) \/ MemberDecided(c)
    BY <2>1, AccessRequestedKeeps, MemberDecidedKeeps
  <2>2. CASE ~(AccessRequested(c) \/ MemberDecided(c))
    <3>1. OneCall(c)
      BY <1>2, <2>2, HandlerSteps, SendingSteps, HearingSteps DEF ServerStep, PageStep
    <3>2. QED
      BY <3>1, OneCallKeeps
  <2>3. QED
    BY <2>1, <2>2
<1>3. QED
  BY <1>1, <1>2 DEF RoomsNext

\* The invariant holds of every reachable state of the rooms.
LEMMA RoomsInvariant == Spec => []RoomsInv
  BY EachPart, RoomsInitInv, RoomsNextInv, PTL DEF RoomsSpec

\* However requests and decisions overlap, a member is active only where the creator
\* approved, and a request that waits carries no decision.
THEOREM AdmitCorrect == Spec => []OnlyTheCreatorAdmits
<1>1. RoomsInv => OnlyTheCreatorAdmits
  BY DEF RoomsInv
<1>2. QED
  BY <1>1, RoomsInvariant, PTL

\* A call that answers with posts ran for the creator or for somebody who was an
\* active member while it ran.
THEOREM ReadersCorrect == Spec => []ReadersWereAdmitted
<1>1. RoomsInv => ReadersWereAdmitted
  BY NoCallFits DEF RoomsInv, CallsFit, FitCall, ReadersWereAdmitted, At
<1>2. QED
  BY <1>1, RoomsInvariant, PTL

\* The workspace is busy only while one of the calls it set busy for runs.
THEOREM WorkspaceCorrect == Spec => []BusyWorkspaceHasACall
<1>1. RoomsInv => BusyWorkspaceHasACall
  BY DEF RoomsInv
<1>2. QED
  BY <1>1, RoomsInvariant, PTL

-----------------------------------------------------------------------------
(* Accounts: the inductive invariant.                                      *)

RequestFields ==
    {"kind", "stage", "browser", "token", "email", "handle", "role", "account", "at",
     "setCookie", "signedIn"}
AnswerFields == {"stage", "kind", "setCookie", "browser", "account", "signedIn"}

\* A request in a slot: its cookies are of sessions made, it is an account's only if
\* its sender was signed in, and until it is looked up a live session of its cookie
\* says that the sender was.
FitRequest(r) ==
    \/ r = Idle
    \/ /\ \/ r.stage = "answered" /\ DOMAIN r = AnswerFields
          \/ r.stage # "answered" /\ DOMAIN r = RequestFields /\ r.token \in 0..tokenCount
             /\ r.at \in Nat
       /\ r.setCookie \in 0..tokenCount
       /\ r.kind \in {"me", "profile"} /\ r.account # {} => r.signedIn
       /\ r.stage = "sent" /\ (\E x \in sessions : x.token = r.token /\ x.expires > now)
             => r.signedIn

RequestsFit == DOMAIN authRequests = AuthSlots /\ \A s \in AuthSlots : FitRequest(authRequests[s])

\* Cookies and sessions carry the numbers of sessions made.
TokensGiven ==
    /\ now \in Nat /\ tokenCount \in Nat
    /\ DOMAIN cookie = Browsers /\ \A b \in Browsers : cookie[b] \in 0..tokenCount
    /\ \A x \in sessions : x.token \in 1..tokenCount /\ x.expires \in Nat

SessionsInv == RequestsFit /\ TokensGiven

\* The accounts.
UsersInv ==
    /\ \A u \in users : DOMAIN u = {"id", "email", "handle", "role"}
    /\ OneAccountPerAddress

\* The window a time falls in, and the limit of a scope.
StartOf(t) == (t \div Window) * Window
LimitOf(scope) == IF scope = "account-register" THEN RegisterLimit ELSE LoginLimit

RowsOf(scope, key, window) == {l \in limits : l.scope = scope /\ l.key = key /\ l.window = window}

\* The count of a row is no more than the rows of its window, each admitted request
\* has its row, and no other admitted request of the window has its count.
LimitersInv ==
    /\ now \in Nat
    /\ IsFiniteSet(limits)
    /\ \A l \in limits : l.count \in 1..Cardinality(RowsOf(l.scope, l.key, l.window))
    /\ \A a \in admitted :
          /\ a.at \in Nat /\ a.count \in 1..LimitOf(a.scope)
          /\ \E l \in RowsOf(a.scope, a.key, StartOf(a.at)) : l.count = a.count
    /\ \A a, b \in admitted :
          /\ a.scope = b.scope /\ a.key = b.key
          /\ StartOf(a.at) = StartOf(b.at) /\ a.count = b.count
          => a = b

-----------------------------------------------------------------------------
(* Accounts: who is signed in.                                             *)

\* Time passes and sessions are made and deleted, but none comes alive again.
NoneRevives ==
    /\ now' \in Nat /\ now' >= now /\ tokenCount' \in Nat /\ tokenCount' >= tokenCount
    /\ \A x \in sessions' : x \in sessions \/ x.token > tokenCount

\* Sessions leave and time passes: what a request remembers stays true.
LEMMA StillFits ==
    ASSUME TokensGiven, NoneRevives, NEW r, FitRequest(r)
    PROVE  FitRequest(r)'
<1>1. CASE r = Idle
  BY <1>1 DEF FitRequest
<1>2. CASE r # Idle
  <2>1. /\ r.token \in 0..tokenCount => r.token \in 0..tokenCount'
        /\ r.setCookie \in 0..tokenCount => r.setCookie \in 0..tokenCount'
    BY DEF TokensGiven, NoneRevives
  <2>2. ASSUME r.stage = "sent", NEW x \in sessions', x.token = r.token, x.expires > now'
        PROVE  r.signedIn
    <3>1. r.token \in 0..tokenCount
      BY <1>2, <2>2 DEF FitRequest
    <3>2. x \in sessions /\ x.expires > now
      BY <2>2, <3>1 DEF NoneRevives, TokensGiven
    <3>3. QED
      BY <1>2, <2>2, <3>2 DEF FitRequest
  <2>3. QED
    BY <1>2, <2>1, <2>2 DEF FitRequest
<1>3. QED
  BY <1>1, <1>2

\* A step of one slot leaves the other requests as they fit.
LEMMA SlotKeeps ==
    ASSUME SessionsInv, NoneRevives, NEW s \in AuthSlots, NEW new, FitRequest(new)',
           Becomes(s, new)
    PROVE  RequestsFit'
<1>1. /\ DOMAIN authRequests' = AuthSlots /\ authRequests'[s] = new
      /\ \A d \in AuthSlots \ {s} : authRequests'[d] = authRequests[d]
  BY DEF SessionsInv, RequestsFit, Becomes
<1>2. FitRequest(authRequests[s])'
  BY <1>1 DEF FitRequest
<1>3. ASSUME NEW d \in AuthSlots \ {s}
      PROVE  FitRequest(authRequests[d])'
  <2>1. PICK r : r = authRequests[d]
    OBVIOUS
  <2>2. FitRequest(r)'
    BY <2>1, StillFits DEF SessionsInv, RequestsFit
  <2>3. QED
    BY <1>1, <2>1, <2>2 DEF FitRequest
<1>4. QED
  BY <1>1, <1>2, <1>3 DEF RequestsFit

\* So does a step of none.
LEMMA NoSlotKeeps ==
    ASSUME SessionsInv, NoneRevives, authRequests' = authRequests
    PROVE  RequestsFit'
<1>1. ASSUME NEW d \in AuthSlots
      PROVE  FitRequest(authRequests[d])'
  <2>1. PICK r : r = authRequests[d]
    OBVIOUS
  <2>2. FitRequest(r)'
    BY <2>1, StillFits DEF SessionsInv, RequestsFit
  <2>3. QED
    BY <2>1, <2>2 DEF FitRequest
<1>2. QED
  BY <1>1 DEF SessionsInv, RequestsFit

\* What is known of a request that runs.
LEMMA RunningRequest ==
    ASSUME SessionsInv, NEW s \in AuthSlots,
           authRequests[s] # Idle, authRequests[s].stage # "answered"
    PROVE  /\ DOMAIN authRequests[s] = RequestFields
           /\ authRequests[s].token \in 0..tokenCount /\ authRequests[s].at \in Nat
           /\ authRequests[s].setCookie \in 0..tokenCount
           /\ authRequests[s].kind \in {"me", "profile"} /\ authRequests[s].account # {}
                 => authRequests[s].signedIn
  BY DEF SessionsInv, RequestsFit, FitRequest, Idle

\* An answered request fits.
LEMMA AnswerKeeps ==
    ASSUME SessionsInv, NoneRevives, NEW s \in AuthSlots,
           authRequests[s] # Idle, authRequests[s].stage # "answered",
           NEW token, token \in 0..tokenCount', Answer(s, token)
    PROVE  RequestsFit'
<1>1. PICK new : new = [stage |-> "answered", kind |-> authRequests[s].kind, setCookie |-> token,
                        browser |-> authRequests[s].browser, account |-> authRequests[s].account,
                        signedIn |-> authRequests[s].signedIn]
  OBVIOUS
<1>2. Becomes(s, new)
  BY <1>1 DEF Answer
<1>3. new.stage = "answered" /\ DOMAIN new = AnswerFields /\ new.setCookie = token
      /\ new.kind = authRequests[s].kind /\ new.account = authRequests[s].account
      /\ new.signedIn = authRequests[s].signedIn
  BY <1>1 DEF AnswerFields
<1>4. FitRequest(new)'
  BY <1>3, RunningRequest DEF FitRequest
<1>5. QED
  BY <1>2, <1>4, SlotKeeps

\* So does one that goes on.
LEMMA OngoingKeeps ==
    ASSUME SessionsInv, NoneRevives, NEW s \in AuthSlots,
           authRequests[s] # Idle, authRequests[s].stage # "answered",
           NEW new, DOMAIN new = RequestFields, new.stage \notin {"sent", "answered"},
           new.token = authRequests[s].token, new.setCookie = authRequests[s].setCookie,
           new.at \in Nat,
           new.kind \in {"me", "profile"} /\ new.account # {} => new.signedIn,
           Becomes(s, new)
    PROVE  RequestsFit'
<1>1. FitRequest(new)'
  BY RunningRequest DEF FitRequest, NoneRevives, SessionsInv, TokensGiven
<1>2. QED
  BY <1>1, SlotKeeps

\* So does one whose account was not looked at.
LEMMA StageKeeps ==
    ASSUME SessionsInv, NoneRevives, NEW s \in AuthSlots,
           authRequests[s] # Idle, authRequests[s].stage # "answered",
           NEW stage, stage \notin {"sent", "answered"}, NEW at \in Nat,
           \/ Becomes(s, [authRequests[s] EXCEPT !.stage = stage])
           \/ Becomes(s, [authRequests[s] EXCEPT !.stage = stage, !.at = at])
    PROVE  RequestsFit'
<1>1. PICK new : /\ \/ new = [authRequests[s] EXCEPT !.stage = stage]
                    \/ new = [authRequests[s] EXCEPT !.stage = stage, !.at = at]
                 /\ Becomes(s, new)
  OBVIOUS
<1>2. /\ DOMAIN new = RequestFields /\ new.stage = stage /\ new.at \in Nat
      /\ new.token = authRequests[s].token /\ new.setCookie = authRequests[s].setCookie
      /\ new.kind = authRequests[s].kind /\ new.account = authRequests[s].account
      /\ new.signedIn = authRequests[s].signedIn
  BY <1>1, RunningRequest DEF RequestFields
<1>3. QED
  BY <1>1, <1>2, RunningRequest, OngoingKeeps

\* A handler that makes no session.
LEMMA HandlerKeepsSessions ==
    ASSUME SessionsInv, NEW s \in AuthSlots,
           \/ Throws(s) \/ RegisterCounted(s) \/ RegisterChecked(s) \/ RegisterStored(s)
           \/ LoginCounted(s) \/ LoginChecked(s) \/ LoggedOut(s)
           \/ Authenticated(s) \/ AccountShown(s) \/ ProfileSaved(s)
    PROVE  SessionsInv'
<1> USE DEF tableVars, accountHistory, Stage
<1>1. UNCHANGED <<now, cookie, tokenCount>> /\ sessions' \subseteq sessions
  BY DEF Throws, RegisterCounted, RegisterChecked, RegisterStored, LoginCounted, LoginChecked,
         LoggedOut, Authenticated, AccountShown, ProfileSaved, AllowFixedWindowRequest
<1>2. NoneRevives /\ TokensGiven'
  BY <1>1 DEF NoneRevives, SessionsInv, TokensGiven
<1>3. authRequests[s] # Idle /\ authRequests[s].stage # "answered"
  <2>1. CASE Throws(s)
    BY <2>1 DEF Throws
  <2>2. CASE ~Throws(s)
    <3>1. authRequests[s].stage \notin {"idle", "answered"}
      BY <2>2 DEF RegisterCounted, RegisterChecked, RegisterStored, LoginCounted, LoginChecked,
                  LoggedOut, Authenticated, AccountShown, ProfileSaved
    <3>2. QED
      BY <3>1 DEF Idle
  <2>3. QED
    BY <2>1, <2>2
<1>4. authRequests[s].setCookie \in 0..tokenCount' /\ NoToken \in 0..tokenCount'
  BY <1>1, <1>3, RunningRequest DEF SessionsInv, TokensGiven, NoToken
<1>5. RequestsFit'
  <2>1. CASE Throws(s) \/ LoggedOut(s) \/ AccountShown(s) \/ ProfileSaved(s)
    BY <1>2, <1>3, <1>4, <2>1, AnswerKeeps DEF Throws, LoggedOut, AccountShown, ProfileSaved
  <2>2. ASSUME NEW scope, NEW key, NEW limit, AllowFixedWindowRequest(s, scope, key, limit)
        PROVE  RequestsFit'
    <3>1. \/ Becomes(s, [authRequests[s] EXCEPT !.stage = "allowed"])
          \/ Answer(s, authRequests[s].setCookie)
      BY <2>2 DEF AllowFixedWindowRequest
    <3>2. QED
      BY <1>2, <1>3, <1>4, <3>1, StageKeeps, AnswerKeeps
  <2>3. CASE RegisterCounted(s) \/ LoginCounted(s)
    BY <2>2, <2>3 DEF RegisterCounted, LoginCounted
  <2>4. CASE RegisterChecked(s)
    BY <1>2, <1>3, <1>4, <2>4, StageKeeps, AnswerKeeps DEF RegisterChecked, SessionsInv, TokensGiven
  <2>5. CASE RegisterStored(s)
    <3>1. PICK at, new :
             /\ at \in (authRequests[s].at)..now
             /\ \E account : new = [authRequests[s] EXCEPT !.stage = "stored", !.account = account,
                                                           !.at = at]
             /\ Becomes(s, new)
      BY <2>5 DEF RegisterStored
    <3>2. at \in Nat
      BY <1>3, <3>1, RunningRequest DEF SessionsInv, TokensGiven
    <3>3. /\ DOMAIN new = RequestFields /\ new.stage = "stored" /\ new.kind = "register"
          /\ new.at = at
          /\ new.token = authRequests[s].token /\ new.setCookie = authRequests[s].setCookie
      BY <1>3, <2>5, <3>1, RunningRequest DEF RequestFields, RegisterStored
    <3>4. QED
      BY <1>2, <1>3, <3>1, <3>2, <3>3, OngoingKeeps
  <2>6. CASE LoginChecked(s)
    <3>1. CASE Answer(s, authRequests[s].setCookie)
      BY <1>2, <1>3, <1>4, <3>1, AnswerKeeps
    <3>2. CASE ~Answer(s, authRequests[s].setCookie)
      <4>1. PICK new : \E account : new = [authRequests[s] EXCEPT !.stage = "stored", !.account = account]
                       /\ Becomes(s, new)
        BY <2>6, <3>2 DEF LoginChecked
      <4>2. /\ DOMAIN new = RequestFields /\ new.stage = "stored" /\ new.kind = "login"
            /\ new.at \in Nat /\ new.token = authRequests[s].token /\ new.setCookie = authRequests[s].setCookie
        BY <1>3, <2>6, <4>1, RunningRequest DEF RequestFields, LoginChecked
      <4>3. QED
        BY <1>2, <1>3, <4>1, <4>2, OngoingKeeps
    <3>3. QED
      BY <3>1, <3>2
  <2>7. CASE Authenticated(s)
    <3>1. CASE SessionAccount(s) = {}
      BY <1>2, <1>3, <1>4, <2>7, <3>1, AnswerKeeps DEF Authenticated
    <3>2. CASE SessionAccount(s) # {}
      <4>1. PICK new : \E account, role :
               /\ new = [authRequests[s] EXCEPT !.stage = "account", !.account = account,
                                                !.role = role]
               /\ Becomes(s, new)
        BY <2>7, <3>2 DEF Authenticated
      <4>2. /\ DOMAIN new = RequestFields /\ new.stage = "account"
            /\ new.at \in Nat /\ new.token = authRequests[s].token /\ new.setCookie = authRequests[s].setCookie
            /\ new.signedIn = authRequests[s].signedIn
        BY <1>3, <4>1, RunningRequest DEF RequestFields
      <4>3. \E x \in sessions : x.token = authRequests[s].token /\ x.expires > now
        BY <3>2 DEF SessionAccount, LiveSession
      <4>4. authRequests[s].signedIn
        BY <1>3, <2>7, <4>3 DEF Authenticated, SessionsInv, RequestsFit, FitRequest, Idle
      <4>5. QED
        BY <1>2, <1>3, <4>1, <4>2, <4>4, OngoingKeeps
    <3>3. QED
      BY <3>1, <3>2
  <2>8. QED
    BY <2>1, <2>3, <2>4, <2>5, <2>6, <2>7
<1>6. QED
  BY <1>2, <1>5 DEF SessionsInv

\* A session is made with a number no cookie has had.
LEMMA CreateSessionKeeps ==
    ASSUME SessionsInv, NEW s \in AuthSlots, CreateSession(s)
    PROVE  SessionsInv'
<1>0. PICK start : start = IF authRequests[s].kind = "register" THEN authRequests[s].at ELSE now
  OBVIOUS
<1>1. PICK x : /\ x.token = tokenCount + 1 /\ x.expires = start + SessionLife
               /\ sessions' = sessions \cup {x}
  <2>1. PICK y : y = [token |-> tokenCount + 1, user |-> authRequests[s].account,
                      expires |-> start + SessionLife]
    OBVIOUS
  <2>2. sessions' = sessions \cup {y}
    BY <1>0, <2>1 DEF CreateSession
  <2>3. y.token = tokenCount + 1 /\ y.expires = start + SessionLife
    BY <2>1
  <2>4. QED
    BY <2>2, <2>3
<1>2. UNCHANGED <<now, cookie>> /\ tokenCount' = tokenCount + 1 /\ Answer(s, tokenCount + 1)
  BY DEF CreateSession
<1>3. NoneRevives
  BY <1>1, <1>2 DEF NoneRevives, SessionsInv, TokensGiven
<1>4. start + SessionLife \in Nat
  <2>1. authRequests[s].at \in Nat
    BY RunningRequest DEF CreateSession, Idle
  <2>2. QED
    BY <1>0, <2>1, LimitAssumption DEF SessionsInv, TokensGiven
<1>5. TokensGiven'
  BY <1>1, <1>2, <1>4 DEF SessionsInv, TokensGiven
<1>6. RequestsFit'
  <2>1. PICK token : token = tokenCount + 1
    OBVIOUS
  <2>2. token \in 0..tokenCount'
    BY <1>2, <2>1 DEF SessionsInv, TokensGiven
  <2>3. QED
    BY <1>2, <1>3, <2>1, <2>2, AnswerKeeps DEF CreateSession, Idle
<1>7. QED
  BY <1>5, <1>6 DEF SessionsInv

\* A request is sent with the browser's cookie, and remembers whether it is signed in.
LEMMA SendKeeps ==
    ASSUME SessionsInv, NEW s \in AuthSlots, Send(s)
    PROVE  SessionsInv'
<1> USE DEF tableVars, accountHistory
<1>1. PICK b \in Browsers, kind \in {"register", "login", "logout", "me", "profile"},
           email \in Emails, handle \in Handles, role \in {"member", "creator"} :
         /\ kind \notin {"register", "login"} => email = CHOOSE e \in Emails : TRUE
         /\ kind # "register" => handle = CHOOSE h \in Handles : TRUE
         /\ kind \notin {"register", "profile"} => role = "member"
         /\ authRequests' = [authRequests EXCEPT ![s] =
            [kind |-> kind, stage |-> "sent", browser |-> b, token |-> cookie[b],
             email |-> email, handle |-> handle, role |-> role, account |-> {}, at |-> 0,
             setCookie |-> cookie[b],
             signedIn |-> \E x \in sessions : x.token = cookie[b] /\ x.expires > now]]
  BY ZenonT(30) DEF Send
<1>2. PICK new : new =
            [kind |-> kind, stage |-> "sent", browser |-> b, token |-> cookie[b],
             email |-> email, handle |-> handle, role |-> role, account |-> {}, at |-> 0,
             setCookie |-> cookie[b],
             signedIn |-> \E x \in sessions : x.token = cookie[b] /\ x.expires > now]
  OBVIOUS
<1>3. UNCHANGED <<now, sessions, cookie, tokenCount>>
  BY DEF Send
<1>4. NoneRevives /\ TokensGiven'
  BY <1>3 DEF NoneRevives, SessionsInv, TokensGiven
<1>5. /\ DOMAIN new = RequestFields /\ new.stage = "sent" /\ new.account = {}
      /\ new.token = cookie[b] /\ new.setCookie = cookie[b] /\ new.at \in Nat
      /\ (\E x \in sessions : x.token = cookie[b] /\ x.expires > now) => new.signedIn
  BY <1>2 DEF RequestFields
<1>6. FitRequest(new)'
  BY <1>3, <1>5 DEF FitRequest, SessionsInv, TokensGiven
<1>7. Becomes(s, new)
  BY <1>1, <1>2 DEF Becomes
<1>8. QED
  BY <1>4, <1>6, <1>7, SlotKeeps DEF SessionsInv

\* An answer sets the browser's cookie, or does not arrive.
LEMMA ReceiveKeeps ==
    ASSUME SessionsInv, NEW s \in AuthSlots, Receive(s)
    PROVE  SessionsInv'
<1> USE DEF tableVars, accountHistory
<1>1. UNCHANGED <<now, sessions, tokenCount>> /\ Becomes(s, Idle)
  BY DEF Receive
<1>2. authRequests[s].setCookie \in 0..tokenCount
  BY DEF Receive, SessionsInv, RequestsFit, FitRequest, Idle
<1>3. NoneRevives
  BY <1>1 DEF NoneRevives, SessionsInv, TokensGiven
<1>4. /\ DOMAIN cookie' = Browsers
      /\ \A b \in Browsers : cookie'[b] \in {cookie[b], authRequests[s].setCookie}
  BY DEF Receive, SessionsInv, TokensGiven
<1>5. TokensGiven'
  BY <1>1, <1>2, <1>4 DEF SessionsInv, TokensGiven
<1>6. FitRequest(Idle)'
  BY DEF FitRequest
<1>7. QED
  BY <1>1, <1>3, <1>5, <1>6, SlotKeeps DEF SessionsInv

-----------------------------------------------------------------------------
(* Accounts: the table users.                                              *)

\* Registrations insert what the constraints admit; a profile changes no address.
LEMMA UsersKept ==
    ASSUME UsersInv, [AccountsNext]_accountVars
    PROVE  UsersInv'
<1> USE DEF tableVars, accountHistory
<1>1. ASSUME NEW s \in AuthSlots, RegisterStored(s)
      PROVE  UsersInv'
  <2>1. PICK v : /\ v = [id |-> Cardinality(users) + 1, email |-> authRequests[s].email,
                         handle |-> authRequests[s].handle, role |-> authRequests[s].role]
                 /\ users' = users \cup {v}
    BY <1>1 DEF RegisterStored
  <2>2. DOMAIN v = {"id", "email", "handle", "role"}
        /\ v.email = authRequests[s].email /\ v.handle = authRequests[s].handle
    BY <2>1
  <2>3. \A u \in users : u.email # v.email /\ u.handle # v.handle
    BY <1>1, <2>2 DEF RegisterStored, Unique, Taken
  <2>4. QED
    BY <2>1, <2>2, <2>3 DEF UsersInv, OneAccountPerAddress
<1>2. ASSUME NEW s \in AuthSlots, ProfileSaved(s)
      PROVE  UsersInv'
  <2> DEFINE saved(u) == IF authRequests[s].account = {u.id}
                           THEN [u EXCEPT !.role = authRequests[s].role] ELSE u
  <2>1. users' = {saved(u) : u \in users}
    BY <1>2 DEF ProfileSaved
  <2>2. \A u \in users : /\ DOMAIN saved(u) = {"id", "email", "handle", "role"}
                         /\ saved(u).email = u.email /\ saved(u).handle = u.handle
    BY DEF UsersInv
  <2> HIDE DEF saved
  <2>3. QED
    BY <2>1, <2>2 DEF UsersInv, OneAccountPerAddress
<1>3. CASE \A s \in AuthSlots : ~RegisterStored(s) /\ ~ProfileSaved(s)
  <2>1. users' = users
    BY <1>3 DEF AccountsNext, accountVars, Tick, Send, Receive, Throws, CreateSession,
                RegisterCounted, RegisterChecked, LoginCounted, LoginChecked, LoggedOut,
                Authenticated, AccountShown, AllowFixedWindowRequest
  <2>2. QED
    BY <2>1 DEF UsersInv, OneAccountPerAddress
<1>4. QED
  BY <1>1, <1>2, <1>3

-----------------------------------------------------------------------------
(* Accounts: the rate limits.                                              *)

\* The windows of two times that are less than a window apart.
LEMMA Windows ==
    ASSUME NEW a \in Nat, NEW b \in Nat
    PROVE  /\ StartOf(a) \in Nat /\ StartOf(a) <= a /\ a < StartOf(a) + Window
           /\ b \in StartOf(a)..(StartOf(a) + Window - 1) => StartOf(b) = StartOf(a)
           /\ b \in a..(a + Window - 1) => StartOf(b) \in {StartOf(a), StartOf(a) + Window}
<1>0. Window \in Nat /\ Window > 0
  BY LimitAssumption
<1> DEFINE p == a \div Window
           q == b \div Window
<1>1. p \in Nat /\ p * Window <= a /\ a < p * Window + Window
  BY <1>0
<1>2. q \in Nat /\ q * Window <= b /\ b < q * Window + Window
  BY <1>0
<1>3. StartOf(a) = p * Window /\ StartOf(b) = q * Window
  BY DEF StartOf
<1> HIDE DEF p, q
<1>4. p * Window \in Nat /\ q * Window \in Nat
  BY <1>0, <1>1, <1>2
<1>5. q < p => q * Window + Window <= p * Window
  <2>1. \A x \in Nat : (q + 1 + x) * Window = q * Window + Window + x * Window
    BY <1>0, <1>2
  <2>2. \A x \in Nat : x * Window \in Nat
    BY <1>0
  <2>3. ASSUME q < p PROVE q * Window + Window <= p * Window
    <3>1. p - q - 1 \in Nat /\ p = q + 1 + (p - q - 1)
      BY <1>1, <1>2, <2>3
    <3>2. QED
      BY <1>0, <1>4, <2>1, <2>2, <3>1
  <2>4. QED
    BY <2>3
<1>6. p + 1 < q => p * Window + Window + Window <= q * Window
  <2>1. \A x \in Nat : (p + 2 + x) * Window = p * Window + Window + Window + x * Window
    BY <1>0, <1>1
  <2>2. \A x \in Nat : x * Window \in Nat
    BY <1>0
  <2>3. ASSUME p + 1 < q PROVE p * Window + Window + Window <= q * Window
    <3>1. q - p - 2 \in Nat /\ q = p + 2 + (q - p - 2)
      BY <1>1, <1>2, <2>3
    <3>2. QED
      BY <1>0, <1>4, <2>1, <2>2, <3>1
  <2>4. QED
    BY <2>3
<1>7. q = p + 1 => q * Window = p * Window + Window
  BY <1>0, <1>1
<1>8. q = p \/ q < p \/ q = p + 1 \/ p + 1 < q
  BY <1>1, <1>2
<1>9. QED
  BY <1>0, <1>1, <1>2, <1>3, <1>4, <1>5, <1>6, <1>7, <1>8

\* A set whose elements have counts of their own up to a limit has no more elements.
LEMMA CountedOnce ==
    ASSUME NEW S, NEW limit \in Nat, \A a \in S : a.count \in 1..limit,
           \A a, b \in S : a.count = b.count => a = b
    PROVE  IsFiniteSet(S) /\ Cardinality(S) <= limit
<1> DEFINE f == [a \in S |-> a.count]
<1>1. f \in Injection(S, 1..limit)
  BY DEF Injection, IsInjective
<1>2. IsFiniteSet(1..limit) /\ Cardinality(1..limit) = limit
  BY FS_Interval
<1>3. QED
  BY <1>1, <1>2, FS_Injection

\* A limiter's upsert counts above every row of the window.
LEMMA UpsertKeepsLimiters ==
    ASSUME LimitersInv, NEW s, NEW scope, NEW key,
           AllowFixedWindowRequest(s, scope, key, LimitOf(scope))
    PROVE  LimitersInv'
<1> DEFINE rows == RowsOf(scope, key, StartOf(now))
           count == 1 + Cardinality(rows)
<1>1. PICK row : row = [scope |-> scope, key |-> key, window |-> StartOf(now), count |-> count]
  OBVIOUS
<1>2. PICK pass : pass = [scope |-> scope, key |-> key, at |-> now, count |-> count]
  OBVIOUS
<1>3. /\ limits' = limits \cup {row} /\ now' = now
      /\ \/ admitted' = admitted \cup {pass} /\ count <= LimitOf(scope)
         \/ admitted' = admitted
  BY <1>1, <1>2 DEF AllowFixedWindowRequest, Allowed, RowsOf, StartOf
<1>4. /\ row.scope = scope /\ row.key = key /\ row.window = StartOf(now) /\ row.count = count
      /\ pass.scope = scope /\ pass.key = key /\ pass.at = now /\ pass.count = count
  BY <1>1, <1>2
<1>5. IsFiniteSet(rows) /\ Cardinality(rows) \in Nat
  BY FS_Subset, FS_CardinalityType DEF LimitersInv, RowsOf
<1>6. \A l \in rows : l.count \in 1..Cardinality(rows)
  BY DEF LimitersInv, RowsOf
<1>7. count \in Nat /\ count >= 1 /\ \A l \in rows : l.count < count
  BY <1>5, <1>6
<1> HIDE DEF count
<1>8. row \notin limits
  BY <1>4, <1>7 DEF RowsOf
<1>9. IsFiniteSet(limits')
  BY <1>3, FS_AddElement DEF LimitersInv
<1>10. ASSUME NEW l \in limits'
       PROVE  l.count \in 1..Cardinality(RowsOf(l.scope, l.key, l.window)')
  <2>0. PICK sc, k, w : sc = l.scope /\ k = l.key /\ w = l.window
    OBVIOUS
  <2>1. IsFiniteSet(RowsOf(sc, k, w)') /\ IsFiniteSet(RowsOf(sc, k, w))
    BY <1>9, FS_Subset DEF RowsOf, LimitersInv
  <2>2. CASE l \in limits
    <3>1. Cardinality(RowsOf(sc, k, w)) <= Cardinality(RowsOf(sc, k, w)')
      BY <1>3, <2>1, FS_Subset DEF RowsOf
    <3>2. l.count \in 1..Cardinality(RowsOf(sc, k, w))
      BY <2>0, <2>2 DEF LimitersInv
    <3>3. Cardinality(RowsOf(sc, k, w)) \in Nat /\ Cardinality(RowsOf(sc, k, w)') \in Nat
      BY <2>1, FS_CardinalityType
    <3>4. QED
      BY <2>0, <3>1, <3>2, <3>3
  <2>3. CASE l = row
    <3>1. RowsOf(sc, k, w)' = rows \cup {row}
      BY <1>3, <1>4, <2>0, <2>3 DEF RowsOf
    <3>2. Cardinality(rows \cup {row}) = Cardinality(rows) + 1
      BY <1>5, <1>8, FS_AddElement DEF RowsOf
    <3>3. l.count = 1 + Cardinality(rows)
      BY <1>4, <2>3 DEF count
    <3>4. QED
      BY <1>5, <2>0, <3>1, <3>2, <3>3
  <2>4. QED
    BY <1>3, <2>2, <2>3
<1>11. ASSUME NEW a \in admitted'
       PROVE  /\ a.at \in Nat /\ a.count \in 1..LimitOf(a.scope)
              /\ \E l \in limits' : /\ l.scope = a.scope /\ l.key = a.key
                                    /\ l.window = StartOf(a.at) /\ l.count = a.count
  <2>1. CASE a \in admitted
    BY <1>3, <2>1 DEF LimitersInv, RowsOf
  <2>2. CASE a = pass /\ count <= LimitOf(scope)
    <3>1. LimitOf(scope) \in Nat
      BY LimitAssumption DEF LimitOf
    <3>2. QED
      BY <1>3, <1>4, <1>7, <2>2, <3>1 DEF LimitersInv
  <2>3. QED
    BY <1>3, <2>1, <2>2
<1>12. ASSUME NEW a \in admitted
       PROVE  ~(/\ a.scope = scope /\ a.key = key
                /\ StartOf(a.at) = StartOf(now) /\ a.count = count)
  <2>1. PICK l \in RowsOf(a.scope, a.key, StartOf(a.at)) : l.count = a.count
    BY DEF LimitersInv
  <2>2. QED
    BY <1>7, <2>1 DEF RowsOf
<1>13. \A a, b \in admitted' :
          /\ a.scope = b.scope /\ a.key = b.key
          /\ StartOf(a.at) = StartOf(b.at) /\ a.count = b.count
          => a = b
  BY <1>3, <1>4, <1>12 DEF LimitersInv
<1>14. QED
  BY <1>3, <1>9, <1>10, <1>11, <1>13 DEF LimitersInv, RowsOf

\* Every step keeps the limiters' invariant.
LEMMA LimitersKept ==
    ASSUME LimitersInv, [AccountsNext]_accountVars
    PROVE  LimitersInv'
<1> USE DEF tableVars, accountHistory
<1>1. ASSUME NEW s \in AuthSlots, RegisterCounted(s) \/ LoginCounted(s)
      PROVE  LimitersInv'
  <2>1. \/ AllowFixedWindowRequest(s, "account-register", <<authRequests[s].browser>>,
                                   LimitOf("account-register"))
        \/ AllowFixedWindowRequest(s, "account-login",
                                   <<authRequests[s].browser, authRequests[s].email>>,
                                   LimitOf("account-login"))
    BY <1>1 DEF RegisterCounted, LoginCounted, LimitOf
  <2>2. PICK scope, key : AllowFixedWindowRequest(s, scope, key, LimitOf(scope))
    BY <2>1
  <2>3. QED
    BY <2>2, UpsertKeepsLimiters
<1>2. CASE \A s \in AuthSlots : ~RegisterCounted(s) /\ ~LoginCounted(s)
  <2>1. UNCHANGED <<limits, admitted>> /\ now' \in {now, now + 1}
    BY <1>2 DEF AccountsNext, accountVars, Tick, Send, Receive, Throws, CreateSession,
                RegisterChecked, RegisterStored, LoginChecked, LoggedOut, Authenticated,
                AccountShown, ProfileSaved
  <2>2. QED
    BY <2>1 DEF LimitersInv, RowsOf
<1>3. QED
  BY <1>1, <1>2

\* In a window that starts at a time no more requests of a scope and a key pass than
\* the limit says.
LEMMA WindowBound ==
    ASSUME LimitersInv, NEW scope, NEW key, NEW start,
           NEW S, S \subseteq {b \in admitted : /\ b.scope = scope /\ b.key = key
                                                /\ StartOf(b.at) = start}
    PROVE  IsFiniteSet(S) /\ Cardinality(S) \in Nat /\ Cardinality(S) <= LimitOf(scope)
<1>1. LimitOf(scope) \in Nat
  BY LimitAssumption DEF LimitOf
<1>2. \A a \in S : a.count \in 1..LimitOf(scope)
  BY DEF LimitersInv
<1>3. \A a, b \in S : a.count = b.count => a = b
  BY DEF LimitersInv
<1>4. QED
  BY <1>1, <1>2, <1>3, CountedOnce, FS_CardinalityType

\* The limiters' invariant implies what is said of them.
LEMMA LimitersSuffice == LimitersInv => LimitersHold
<1> SUFFICES ASSUME LimitersInv, NEW a \in admitted
             PROVE  LET limit == IF a.scope = "account-register" THEN RegisterLimit ELSE LoginLimit
                        Of(times) == {b \in admitted : b.scope = a.scope /\ b.key = a.key /\ b.at \in times}
                        start == (a.at \div Window) * Window
                    IN  /\ Cardinality(Of(start..(start + Window - 1))) <= limit
                        /\ Cardinality(Of(a.at..(a.at + Window - 1))) <= 2 * limit
  BY DEF LimitersHold
<1> DEFINE limit == LimitOf(a.scope)
           Of(times) == {b \in admitted : b.scope = a.scope /\ b.key = a.key /\ b.at \in times}
           start == StartOf(a.at)
           In(first) == {b \in admitted : /\ b.scope = a.scope /\ b.key = a.key
                                          /\ StartOf(b.at) = first}
<1>1. a.at \in Nat /\ \A b \in admitted : b.at \in Nat
  BY DEF LimitersInv
<1>2. Of(start..(start + Window - 1)) \subseteq In(start)
  BY <1>1, Windows
<1>3. Of(a.at..(a.at + Window - 1)) \subseteq In(start) \cup In(start + Window)
  BY <1>1, Windows
<1>4. /\ IsFiniteSet(In(start)) /\ Cardinality(In(start)) \in Nat /\ Cardinality(In(start)) <= limit
  BY WindowBound
<1>5. /\ IsFiniteSet(In(start + Window)) /\ Cardinality(In(start + Window)) \in Nat
      /\ Cardinality(In(start + Window)) <= limit
  BY WindowBound
<1>6. limit \in Nat
  BY LimitAssumption DEF LimitOf
<1> HIDE DEF Of, In, limit, start
<1>7. Cardinality(Of(start..(start + Window - 1))) <= limit
  <2>1. /\ IsFiniteSet(Of(start..(start + Window - 1)))
        /\ Cardinality(Of(start..(start + Window - 1))) <= Cardinality(In(start))
    BY <1>2, <1>4, FS_Subset
  <2>2. QED
    BY <1>4, <1>6, <2>1, FS_CardinalityType
<1>8. /\ IsFiniteSet(In(start) \cup In(start + Window))
      /\ Cardinality(In(start) \cup In(start + Window)) <= 2 * limit
  <2>1. /\ IsFiniteSet(In(start) \cup In(start + Window))
        /\ Cardinality(In(start) \cup In(start + Window))
              = Cardinality(In(start)) + Cardinality(In(start + Window))
                - Cardinality(In(start) \cap In(start + Window))
    BY <1>4, <1>5, FS_Union
  <2>2. Cardinality(In(start) \cap In(start + Window)) \in Nat
    BY <1>4, FS_Subset, FS_CardinalityType
  <2>3. QED
    BY <1>4, <1>5, <1>6, <2>1, <2>2
<1>9. Cardinality(Of(a.at..(a.at + Window - 1))) <= 2 * limit
  <2>1. /\ IsFiniteSet(Of(a.at..(a.at + Window - 1)))
        /\ Cardinality(Of(a.at..(a.at + Window - 1)))
              <= Cardinality(In(start) \cup In(start + Window))
    BY <1>3, <1>8, FS_Subset
  <2>2. QED
    BY <1>6, <1>8, <2>1, FS_CardinalityType
<1>10. QED
  BY <1>7, <1>9 DEF Of, limit, start, StartOf, LimitOf

-----------------------------------------------------------------------------
(* Accounts: the theorems.                                                 *)

\* At first there is no account, no session and no request.
LEMMA AccountsInitInv == AccountsInit => SessionsInv /\ UsersInv /\ LimitersInv
<1> SUFFICES ASSUME AccountsInit PROVE SessionsInv /\ UsersInv /\ LimitersInv
  OBVIOUS
<1>1. SessionsInv
  BY DEF AccountsInit, SessionsInv, RequestsFit, FitRequest, TokensGiven, NoToken
<1>2. UsersInv
  BY DEF AccountsInit, UsersInv, OneAccountPerAddress
<1>3. LimitersInv
  BY FS_EmptySet DEF AccountsInit, LimitersInv
<1>4. QED
  BY <1>1, <1>2, <1>3

\* Every step keeps who is signed in.
LEMMA SessionsKept ==
    ASSUME SessionsInv, [AccountsNext]_accountVars
    PROVE  SessionsInv'
<1> USE DEF tableVars, accountHistory
<1>1. CASE Tick \/ UNCHANGED accountVars
  <2>1. UNCHANGED <<sessions, cookie, authRequests, tokenCount>> /\ now' \in {now, now + 1}
    BY <1>1 DEF Tick, accountVars
  <2>2. NoneRevives /\ TokensGiven'
    BY <2>1 DEF NoneRevives, SessionsInv, TokensGiven
  <2>3. QED
    BY <2>1, <2>2, NoSlotKeeps DEF SessionsInv
<1>2. ASSUME NEW s \in AuthSlots,
             \/ Send(s) \/ Receive(s) \/ Throws(s) \/ CreateSession(s)
             \/ RegisterCounted(s) \/ RegisterChecked(s) \/ RegisterStored(s)
             \/ LoginCounted(s) \/ LoginChecked(s) \/ LoggedOut(s)
             \/ Authenticated(s) \/ AccountShown(s) \/ ProfileSaved(s)
      PROVE  SessionsInv'
  BY <1>2, SendKeeps, ReceiveKeeps, CreateSessionKeeps, HandlerKeepsSessions
<1>3. QED
  BY <1>1, <1>2 DEF AccountsNext

\* However registrations interleave, no two accounts share an email or a handle.
THEOREM AddressCorrect == Spec => []OneAccountPerAddress
<1>1. UsersInv => OneAccountPerAddress
  BY DEF UsersInv
<1>2. QED
  BY <1>1, EachPart, AccountsInitInv, UsersKept, PTL DEF AccountsSpec

\* In no window do more requests of a client pass than the limit, and in no stretch
\* of a window's length more than twice the limit, however requests overlap.
THEOREM LimitersCorrect == Spec => []LimitersHold
  BY EachPart, AccountsInitInv, LimitersKept, LimitersSuffice, PTL DEF AccountsSpec

\* A request whose cookie had no live session when it was sent is never an account's.
THEOREM SignedOutCorrect == Spec => []SignedOutStaysOut
<1>1. SessionsInv => SignedOutStaysOut
  BY DEF SessionsInv, RequestsFit, FitRequest, SignedOutStaysOut, Idle
<1>2. QED
  BY <1>1, EachPart, AccountsInitInv, SessionsKept, PTL DEF AccountsSpec

-----------------------------------------------------------------------------
(* Community: the inductive invariant.                                     *)

TalkFields == {"pc", "kind", "by", "tab", "arg", "at", "heard", "status", "data"}
TalkShape ==
    /\ DOMAIN talk = TalkSlots
    /\ \A c \in TalkSlots : talk[c] = Silent \/ DOMAIN talk[c] = TalkFields

\* The posts of an account, and its calls that were counted and not yet inserted,
\* with a time in the minute from start.
PostsIn(a, start) == {p \in publicPosts : p.author = a /\ p.at \in start..(start + Minute)}
CountedIn(a, start) ==
    {c \in TalkSlots : talk[c].pc = "counted" /\ talk[c].by = a
                       /\ talk[c].at \in start..(start + Minute)}

\* Posts are numbered; those of a minute and those about to be inserted are no more
\* than the bound together.
PostsInv ==
    /\ time \in Nat
    /\ \A c \in TalkSlots : talk[c].pc = "counted" => talk[c].at \in Nat
    /\ IsFiniteSet(publicPosts)
    /\ \A p \in publicPosts : p.id \in 1..Cardinality(publicPosts)
    /\ \A a : \A start \in Int :
          Cardinality(PostsIn(a, start)) + Cardinality(CountedIn(a, start))
             <= PostLimit + Cardinality(TalkSlots) - 1

\* A call that its tab will hear, of a kind.
Heard(c, kind) == talk[c] # Silent /\ talk[c].kind = kind /\ talk[c].heard

\* The drafts of a browser are numbered, and only drafts are in its storage.
BrowserInv(a) ==
    /\ DOMAIN stored[a] = {"drafts", "following"} /\ stored[a].drafts \subseteq drafted[a]
    /\ IsFiniteSet(drafted[a])
    /\ \A d \in drafted[a] : d.id \in 1..Cardinality(drafted[a])

\* What is missing of the drafts seen was pushed out by the limit or overtaken.
OnlyMisses(shown, drafts) ==
    /\ shown \subseteq drafts
    /\ \A d \in drafts \ shown : PushedOut(d, drafts) \/ Overtaken(d, drafts)

\* The feed shows the drafts its tab has seen unless it shows the shared feed.
TabInv(p) ==
    /\ DOMAIN feedPage[p] = {"shared", "posts", "loaded"} /\ seen[p] \subseteq drafted[p[1]]
    /\ ~feedPage[p].shared => OnlyMisses(feedPage[p].posts, seen[p])

\* A tab hears at most one answer that makes its feed a shared one, and none about a
\* post before.
DraftsInv ==
    /\ DOMAIN feedPage = Tabs /\ DOMAIN seen = Tabs
    /\ DOMAIN stored = Authors /\ DOMAIN drafted = Authors
    /\ \A a \in Authors : BrowserInv(a)
    /\ \A p \in Tabs : TabInv(p)
    /\ \A c \in TalkSlots : Heard(c, "feed") =>
          /\ Page(c) \in Tabs /\ ~feedPage[Page(c)].shared
          /\ \A d \in TalkSlots : Heard(d, "feed") /\ Page(d) = Page(c) => d = c
    /\ \A c \in TalkSlots : Heard(c, "publish") => Page(c) \in Tabs /\ feedPage[Page(c)].shared

IsSequence(s) == s \in Seq({s[i] : i \in DOMAIN s})

\* Only the moderator resolves.
ReportsInv ==
    /\ IsSequence(reports)
    /\ \A i \in DOMAIN reports :
          /\ DOMAIN reports[i] = {"status", "resolvedBy"}
          /\ reports[i].resolvedBy \in {{}, {Moderator}}
          /\ reports[i].status = "resolved" => reports[i].resolvedBy = {Moderator}

CommunityInv == TalkShape /\ PostsInv /\ DraftsInv /\ ReportsInv

-----------------------------------------------------------------------------
(* Community: the kinds of steps.                                          *)

\* A slot's call ends, goes on without being counted, or is one for neither the feed
\* nor a post.
Evolves(c) ==
    \/ talk'[c] = Silent
    \/ talk'[c] = talk[c]
    \/ /\ DOMAIN talk'[c] = TalkFields /\ talk'[c].pc # "counted"
       /\ \/ /\ talk[c] # Silent
             /\ talk'[c].kind = talk[c].kind /\ talk'[c].by = talk[c].by
             /\ talk'[c].tab = talk[c].tab /\ talk'[c].heard = talk[c].heard
          \/ talk'[c].kind \notin {"feed", "publish"}

Calm == DOMAIN talk' = TalkSlots /\ \A c \in TalkSlots : Evolves(c)

\* The ways a slot does so.
LEMMA CalmWays ==
    ASSUME TalkShape, NEW c \in TalkSlots,
           \/ talk' = talk
           \/ Ends(c)
           \/ talk[c] # Silent /\ \E status, data : Responds(c, status, data)
           \/ \E kind, p, arg : Talks(c, kind, p, arg) /\ kind \notin {"feed", "publish"}
    PROVE  Calm
<1>1. CASE talk' = talk
  BY <1>1 DEF Calm, Evolves, TalkShape
<1>2. CASE Ends(c)
  BY <1>2 DEF Calm, Evolves, TalkShape, Ends
<1>3. ASSUME talk[c] # Silent, NEW status, NEW data, Responds(c, status, data)
      PROVE  Calm
  <2>1. DOMAIN talk[c] = TalkFields
    BY <1>3 DEF TalkShape
  <2>2. /\ DOMAIN talk' = TalkSlots /\ \A d \in TalkSlots \ {c} : talk'[d] = talk[d]
        /\ talk'[c] = [talk[c] EXCEPT !.pc = "answered", !.status = status, !.data = data]
    BY <1>3 DEF TalkShape, Responds
  <2>3. /\ DOMAIN talk'[c] = TalkFields /\ talk'[c].pc = "answered"
        /\ talk'[c].kind = talk[c].kind /\ talk'[c].by = talk[c].by
        /\ talk'[c].tab = talk[c].tab /\ talk'[c].heard = talk[c].heard
    BY <2>1, <2>2 DEF TalkFields
  <2>4. Evolves(c)
    BY <1>3, <2>3 DEF Evolves
  <2>5. \A d \in TalkSlots : Evolves(d)
    BY <2>2, <2>4 DEF Evolves
  <2>6. QED
    BY <2>2, <2>5 DEF Calm
<1>4. ASSUME NEW kind, NEW p, NEW arg, Talks(c, kind, p, arg), kind \notin {"feed", "publish"}
      PROVE  Calm
  <2>1. PICK new : new = Sent(kind, p, arg)
    OBVIOUS
  <2>2. DOMAIN new = TalkFields /\ new.pc = "sent" /\ new.kind = kind
    BY <2>1 DEF Sent, TalkFields
  <2>3. /\ DOMAIN talk' = TalkSlots /\ \A d \in TalkSlots \ {c} : talk'[d] = talk[d]
        /\ talk'[c] = new
    BY <1>4, <2>1 DEF TalkShape, Talks
  <2>4. Evolves(c)
    BY <1>4, <2>2, <2>3 DEF Evolves
  <2>5. \A d \in TalkSlots : Evolves(d)
    BY <2>3, <2>4 DEF Evolves
  <2>6. QED
    BY <2>3, <2>5 DEF Calm
<1>5. QED
  BY <1>1, <1>2, <1>3, <1>4

\* Most actions are calm, and those of the feed and of reports aside they leave the
\* tables and pages of both alone.
LEMMA CalmSteps ==
    ASSUME TalkShape,
           \/ TimePasses \/ UNCHANGED communityVars
           \/ \E c \in TalkSlots :
                 \/ TalkFails(c) \/ FeedRead(c) \/ PostInserted(c)
                 \/ FollowsRead(c) \/ FollowWritten(c) \/ ReportInserted(c) \/ QueueRead(c)
                 \/ ReportActedOn(c)
                 \/ FeedAnswered(c) \/ PublishAnswered(c) \/ FollowsAnswered(c) \/ ToggleAnswered(c)
                 \/ ReportSent(c) \/ LoadQueue(c) \/ QueueAnswered(c) \/ UpdateReport(c)
                 \/ ReportUpdated(c)
                 \/ \E p \in Tabs : MountProfiles(p, c) \/ ToggleShared(p, c)
                 \/ \E a \in Authors : SubmitReport(a, c)
           \/ \E p \in Tabs : SaveDraft(p) \/ ToggleLocal(p)
    PROVE  Calm
<1>1. CASE TimePasses \/ UNCHANGED communityVars
  BY <1>1 DEF TimePasses, communityVars, Calm, Evolves, TalkShape
<1>2. ASSUME NEW p \in Tabs, SaveDraft(p) \/ ToggleLocal(p)
      PROVE  Calm
  BY <1>2 DEF SaveDraft, ToggleLocal, Calm, Evolves, TalkShape
<1>3. ASSUME NEW c \in TalkSlots
      PROVE  (talk[c].pc # "idle" => talk[c] # Silent)
  BY DEF Silent
<1>4. ASSUME NEW c \in TalkSlots,
             \/ TalkFails(c) \/ FeedRead(c) \/ PostInserted(c)
             \/ FollowsRead(c) \/ FollowWritten(c) \/ ReportInserted(c) \/ QueueRead(c)
             \/ ReportActedOn(c)
      PROVE  Calm
  <2>1. talk[c] # Silent /\ \E status, data : Responds(c, status, data)
    <3>1. CASE TalkFails(c) \/ FeedRead(c) \/ PostInserted(c)
      BY <1>3, <3>1 DEF TalkFails, FeedRead, PostInserted, Talking
    <3>2. CASE FollowsRead(c)
      BY <1>3, <3>2 DEF FollowsRead, Talking
    <3>3. CASE FollowWritten(c) \/ ReportInserted(c) \/ QueueRead(c)
      BY <1>3, <3>3 DEF FollowWritten, ReportInserted, QueueRead, Talking
    <3>4. CASE ReportActedOn(c)
      BY <1>3, <3>4 DEF ReportActedOn, Talking
    <3>5. QED
      BY <1>4, <3>1, <3>2, <3>3, <3>4
  <2>2. QED
    BY <2>1, CalmWays
<1>5. ASSUME NEW c \in TalkSlots,
             \/ FeedAnswered(c) \/ PublishAnswered(c) \/ FollowsAnswered(c) \/ ToggleAnswered(c)
             \/ ReportSent(c) \/ QueueAnswered(c) \/ ReportUpdated(c)
      PROVE  Calm
  <2>1. Ends(c)
    BY <1>5 DEF FeedAnswered, PublishAnswered, FollowsAnswered, ToggleAnswered, ReportSent,
                QueueAnswered, ReportUpdated
  <2>2. QED
    BY <2>1, CalmWays
<1>6. ASSUME NEW c \in TalkSlots,
             \/ LoadQueue(c) \/ UpdateReport(c)
             \/ \E p \in Tabs : MountProfiles(p, c) \/ ToggleShared(p, c)
             \/ \E a \in Authors : SubmitReport(a, c)
      PROVE  Calm
  <2>1. \E kind, p, arg : Talks(c, kind, p, arg) /\ kind \notin {"feed", "publish"}
    <3>1. CASE LoadQueue(c)
      BY <3>1 DEF LoadQueue
    <3>2. CASE UpdateReport(c)
      BY <3>2 DEF UpdateReport
    <3>3. ASSUME NEW p \in Tabs, ToggleShared(p, c)
          PROVE  \E kind, q, arg : Talks(c, kind, q, arg) /\ kind \notin {"feed", "publish"}
      <4>1. \E kind \in {"unfollow", "follow"}, h \in Profiles : Talks(c, kind, p, h)
        BY <3>3 DEF ToggleShared
      <4>2. QED
        BY <4>1
    <3>4. ASSUME NEW p \in Tabs, MountProfiles(p, c)
          PROVE  \E kind, q, arg : Talks(c, kind, q, arg) /\ kind \notin {"feed", "publish"}
      BY <3>4 DEF MountProfiles
    <3>5. ASSUME NEW a \in Authors, SubmitReport(a, c)
          PROVE  \E kind, p, arg : Talks(c, kind, p, arg) /\ kind \notin {"feed", "publish"}
      BY <3>5 DEF SubmitReport
    <3>6. QED
      BY <1>6, <3>1, <3>2, <3>3, <3>4, <3>5
  <2>2. QED
    BY <2>1, CalmWays
<1>7. QED
  BY <1>1, <1>2, <1>4, <1>5, <1>6

-----------------------------------------------------------------------------
(* Community: posts per minute.                                            *)

\* No call becomes a counted one.
NoneCounted ==
    /\ time' \in Nat /\ time' >= time
    /\ \A c \in TalkSlots : talk'[c].pc = "counted" =>
          talk[c].pc = "counted" /\ talk'[c].by = talk[c].by /\ talk'[c].at = talk[c].at

\* A calm step counts none.
LEMMA CalmCountsNone ==
    ASSUME Calm, time \in Nat, time' \in {time, time + 1}
    PROVE  NoneCounted
  BY DEF Calm, Evolves, NoneCounted, Silent

\* The sets that are counted are finite.
LEMMA CountsFinite ==
    ASSUME PostsInv, NEW a, NEW start \in Int
    PROVE  /\ IsFiniteSet(PostsIn(a, start)) /\ Cardinality(PostsIn(a, start)) \in Nat
           /\ IsFiniteSet(CountedIn(a, start)) /\ Cardinality(CountedIn(a, start)) \in Nat
           /\ Cardinality(CountedIn(a, start)) <= Cardinality(TalkSlots)
           /\ Cardinality(TalkSlots) \in Nat
  BY FS_Subset, FS_CardinalityType, CommunityAssumption DEF PostsInv, PostsIn, CountedIn

\* A step that inserts no post and counts none keeps the bound.
LEMMA NoneCountedKeeps ==
    ASSUME PostsInv, NoneCounted, publicPosts' = publicPosts
    PROVE  PostsInv'
<1>1. ASSUME NEW a, NEW start \in Int
      PROVE  Cardinality(PostsIn(a, start)') + Cardinality(CountedIn(a, start)')
                <= PostLimit + Cardinality(TalkSlots) - 1
  <2>1. PostsIn(a, start)' = PostsIn(a, start)
    BY DEF PostsIn
  <2>2. CountedIn(a, start)' \subseteq CountedIn(a, start)
    BY DEF NoneCounted, CountedIn
  <2>3. /\ Cardinality(CountedIn(a, start)') <= Cardinality(CountedIn(a, start))
        /\ Cardinality(CountedIn(a, start)') \in Nat
    BY <2>2, CountsFinite, FS_Subset, FS_CardinalityType
  <2>4. Cardinality(PostsIn(a, start)) + Cardinality(CountedIn(a, start))
           <= PostLimit + Cardinality(TalkSlots) - 1
    BY DEF PostsInv
  <2>5. QED
    BY <2>1, <2>3, <2>4, CountsFinite, CommunityAssumption
<1>2. QED
  BY <1>1 DEF PostsInv, NoneCounted

\* A call is counted only when its account has fewer posts than the limit since a
\* minute ago; besides it, only the other calls may be counted.
LEMMA PostCountedKeeps ==
    ASSUME TalkShape, PostsInv, NEW c \in TalkSlots, PostCounted(c)
    PROVE  TalkShape' /\ PostsInv'
<1> DEFINE recent == {p \in publicPosts : p.author = talk[c].by /\ p.at >= time - Minute}
<1>1. /\ talk[c].pc = "sent" /\ talk[c] # Silent /\ DOMAIN talk[c] = TalkFields
      /\ UNCHANGED <<time, publicPosts>>
  BY DEF PostCounted, Talking, Silent, TalkShape, Stays
<1>2. CASE Cardinality(recent) >= PostLimit
  <2>1. \E status, data : Responds(c, status, data)
    BY <1>2 DEF PostCounted, AtLimit
  <2>2. Calm
    BY <1>1, <2>1, CalmWays
  <2>3. TalkShape'
    BY <2>2 DEF Calm, Evolves, TalkShape
  <2>4. NoneCounted
    BY <1>1, <2>2, CalmCountsNone DEF PostsInv
  <2>5. QED
    BY <1>1, <2>3, <2>4, NoneCountedKeeps
<1>3. CASE ~(Cardinality(recent) >= PostLimit)
  <2>1. talk' = [talk EXCEPT ![c].pc = "counted", ![c].at = time]
    BY <1>3 DEF PostCounted, AtLimit
  <2>2. /\ DOMAIN talk' = TalkSlots /\ \A d \in TalkSlots \ {c} : talk'[d] = talk[d]
        /\ DOMAIN talk'[c] = TalkFields /\ talk'[c].at = time /\ talk'[c].by = talk[c].by
    BY <1>1, <2>1 DEF TalkShape, TalkFields
  <2>3. TalkShape'
    BY <2>2 DEF TalkShape
  <2>4. ASSUME NEW a, NEW start \in Int
        PROVE  Cardinality(PostsIn(a, start)') + Cardinality(CountedIn(a, start)')
                  <= PostLimit + Cardinality(TalkSlots) - 1
    <3>1. PostsIn(a, start)' = PostsIn(a, start)
      BY <1>1 DEF PostsIn
    <3>2. CountedIn(a, start)' \subseteq TalkSlots
      BY DEF CountedIn
    <3>3. /\ Cardinality(CountedIn(a, start)') \in Nat
          /\ Cardinality(CountedIn(a, start)') <= Cardinality(TalkSlots)
      BY <3>2, FS_Subset, FS_CardinalityType, CommunityAssumption
    <3>4. CASE talk[c].by = a /\ time \in start..(start + Minute)
      <4>1. PostsIn(a, start) \subseteq recent
        <5>1. \A p \in PostsIn(a, start) : p.at >= time - Minute
          BY <3>4, CommunityAssumption DEF PostsIn, PostsInv
        <5>2. QED
          BY <3>4, <5>1 DEF PostsIn
      <4>2. IsFiniteSet(recent) /\ Cardinality(recent) \in Nat
        BY FS_Subset, FS_CardinalityType DEF PostsInv
      <4>3. Cardinality(PostsIn(a, start)) <= Cardinality(recent)
        BY <4>1, <4>2, FS_Subset
      <4>4. Cardinality(PostsIn(a, start)) <= PostLimit - 1
        BY <1>3, <4>2, <4>3, CountsFinite, CommunityAssumption
      <4>5. QED
        BY <3>1, <3>3, <4>4, CountsFinite, CommunityAssumption
    <3>5. CASE ~(talk[c].by = a /\ time \in start..(start + Minute))
      <4>1. CountedIn(a, start)' \subseteq CountedIn(a, start)
        BY <2>2, <3>5 DEF CountedIn
      <4>2. Cardinality(CountedIn(a, start)') <= Cardinality(CountedIn(a, start))
        BY <4>1, CountsFinite, FS_Subset
      <4>3. Cardinality(PostsIn(a, start)) + Cardinality(CountedIn(a, start))
               <= PostLimit + Cardinality(TalkSlots) - 1
        BY DEF PostsInv
      <4>4. QED
        BY <3>1, <3>3, <4>2, <4>3, CountsFinite, CommunityAssumption
    <3>6. QED
      BY <3>4, <3>5
  <2>5. \A d \in TalkSlots : talk'[d].pc = "counted" => talk'[d].at \in Nat
    BY <2>2 DEF PostsInv
  <2>6. PostsInv'
    BY <1>1, <2>4, <2>5 DEF PostsInv
  <2>7. QED
    BY <2>3, <2>6
<1>4. QED
  BY <1>2, <1>3

\* An inserted post takes the place of its counted call.
LEMMA PostInsertedKeeps ==
    ASSUME TalkShape, PostsInv, NEW c \in TalkSlots, PostInserted(c)
    PROVE  PostsInv'
<1>1. /\ talk[c].pc = "counted" /\ talk[c] # Silent /\ time' = time
      /\ \E status, data : Responds(c, status, data)
  BY DEF PostInserted, Talking, Silent, Stays
<1>2. Calm
  BY <1>1, CalmWays
<1>3. NoneCounted
  BY <1>1, <1>2, CalmCountsNone DEF PostsInv
<1>4. talk'[c].pc # "counted"
  BY <1>1 DEF Responds, TalkShape, TalkFields
<1>5. PICK new : /\ new = [id |-> Cardinality(publicPosts) + 1, author |-> talk[c].by,
                           at |-> talk[c].at]
                 /\ publicPosts' = publicPosts \cup {new}
  BY DEF PostInserted
<1>6. /\ new.id = Cardinality(publicPosts) + 1 /\ new.author = talk[c].by
      /\ new.at = talk[c].at
  BY <1>5
<1>7. Cardinality(publicPosts) \in Nat
  BY FS_CardinalityType DEF PostsInv
<1>8. new \notin publicPosts
  BY <1>6, <1>7 DEF PostsInv
<1>9. /\ IsFiniteSet(publicPosts') /\ Cardinality(publicPosts') = Cardinality(publicPosts) + 1
  BY <1>5, <1>8, FS_AddElement DEF PostsInv
<1>10. \A p \in publicPosts' : p.id \in 1..Cardinality(publicPosts')
  BY <1>5, <1>6, <1>7, <1>9 DEF PostsInv
<1>11. ASSUME NEW a, NEW start \in Int
       PROVE  Cardinality(PostsIn(a, start)') + Cardinality(CountedIn(a, start)')
                 <= PostLimit + Cardinality(TalkSlots) - 1
  <2>0. CountedIn(a, start)' \subseteq CountedIn(a, start) \ {c}
    BY <1>3, <1>4 DEF NoneCounted, CountedIn
  <2>1. Cardinality(PostsIn(a, start)) + Cardinality(CountedIn(a, start))
           <= PostLimit + Cardinality(TalkSlots) - 1
    BY DEF PostsInv
  <2>2. CASE talk[c].by = a /\ talk[c].at \in start..(start + Minute)
    <3>1. PostsIn(a, start)' = PostsIn(a, start) \cup {new}
      BY <1>5, <1>6, <2>2 DEF PostsIn
    <3>2. Cardinality(PostsIn(a, start)') = Cardinality(PostsIn(a, start)) + 1
      <4>1. new \notin PostsIn(a, start) /\ IsFiniteSet(PostsIn(a, start))
        BY <1>8, CountsFinite DEF PostsIn
      <4>2. QED
        BY <3>1, <4>1, FS_AddElement
    <3>3. c \in CountedIn(a, start)
      BY <1>1, <2>2 DEF CountedIn
    <3>4. /\ IsFiniteSet(CountedIn(a, start) \ {c})
          /\ Cardinality(CountedIn(a, start) \ {c}) = Cardinality(CountedIn(a, start)) - 1
      BY <3>3, CountsFinite, FS_RemoveElement
    <3>5. /\ Cardinality(CountedIn(a, start)') \in Nat
          /\ Cardinality(CountedIn(a, start)') <= Cardinality(CountedIn(a, start)) - 1
      BY <2>0, <3>4, FS_Subset, FS_CardinalityType
    <3>6. QED
      BY <2>1, <3>2, <3>5, CountsFinite, CommunityAssumption
  <2>3. CASE ~(talk[c].by = a /\ talk[c].at \in start..(start + Minute))
    <3>1. PostsIn(a, start)' = PostsIn(a, start)
      BY <1>5, <1>6, <2>3 DEF PostsIn
    <3>2. /\ Cardinality(CountedIn(a, start)') \in Nat
          /\ Cardinality(CountedIn(a, start)') <= Cardinality(CountedIn(a, start))
      BY <2>0, CountsFinite, FS_Subset, FS_CardinalityType
    <3>3. QED
      BY <2>1, <3>1, <3>2, CountsFinite, CommunityAssumption
  <2>4. QED
    BY <2>2, <2>3
<1>12. QED
  BY <1>1, <1>3, <1>9, <1>10, <1>11 DEF PostsInv, NoneCounted

-----------------------------------------------------------------------------
(* Community: drafts.                                                      *)

\* The feeds' pages and the drafts stay, and no new call is heard by a page.
DraftsQuiet ==
    /\ UNCHANGED <<feedPage, drafted, seen>>
    /\ DOMAIN stored' = Authors
    /\ \A a \in Authors : DOMAIN stored'[a] = {"drafts", "following"}
                          /\ stored'[a].drafts = stored[a].drafts

\* A calm step adds no call that a feed's page hears.
LEMMA CalmHeard ==
    ASSUME Calm, NEW c \in TalkSlots, NEW kind \in {"feed", "publish"}, Heard(c, kind)'
    PROVE  Heard(c, kind) /\ Page(c)' = Page(c)
  BY DEF Calm, Evolves, Heard, Page

\* The rest of DraftsInv, for a calm step, from the pages of those whose calls are heard.
LEMMA HeardKeeps ==
    ASSUME DraftsInv, Calm, DOMAIN feedPage' = Tabs, DOMAIN seen' = Tabs,
           DOMAIN stored' = Authors, DOMAIN drafted' = Authors,
           \A a \in Authors : BrowserInv(a)', \A p \in Tabs : TabInv(p)',
           \A c \in TalkSlots, kind \in {"feed", "publish"} :
              Heard(c, kind)' => feedPage'[Page(c)].shared = feedPage[Page(c)].shared
    PROVE  DraftsInv'
<1>1. ASSUME NEW c \in TalkSlots, Heard(c, "feed")'
      PROVE  /\ Page(c)' \in Tabs /\ ~feedPage'[Page(c)'].shared
             /\ \A d \in TalkSlots : Heard(d, "feed")' /\ Page(d)' = Page(c)' => d = c
  <2>1. Heard(c, "feed") /\ Page(c)' = Page(c)
    BY <1>1, CalmHeard
  <2>2. \A d \in TalkSlots : Heard(d, "feed")' => Heard(d, "feed") /\ Page(d)' = Page(d)
    BY CalmHeard
  <2>3. feedPage'[Page(c)].shared = feedPage[Page(c)].shared
    BY <1>1
  <2>4. QED
    BY <2>1, <2>2, <2>3 DEF DraftsInv
<1>2. ASSUME NEW c \in TalkSlots, Heard(c, "publish")'
      PROVE  Page(c)' \in Tabs /\ feedPage'[Page(c)'].shared
  <2>1. Heard(c, "publish") /\ Page(c)' = Page(c)
    BY <1>2, CalmHeard
  <2>2. feedPage'[Page(c)].shared = feedPage[Page(c)].shared
    BY <1>2
  <2>3. QED
    BY <2>1, <2>2 DEF DraftsInv
<1>3. QED
  BY <1>1, <1>2 DEF DraftsInv

\* Pages and drafts that stay are as they were.
LEMMA SamePages ==
    ASSUME DraftsInv, DraftsQuiet
    PROVE  (\A a \in Authors : BrowserInv(a)') /\ (\A p \in Tabs : TabInv(p)')
<1>1. ASSUME NEW a \in Authors
      PROVE  BrowserInv(a)'
  <2>1. BrowserInv(a)
    BY DEF DraftsInv
  <2>2. drafted'[a] = drafted[a] /\ stored'[a].drafts = stored[a].drafts
        /\ DOMAIN stored'[a] = {"drafts", "following"}
    BY DEF DraftsQuiet
  <2>3. QED
    BY <2>1, <2>2 DEF BrowserInv
<1>2. ASSUME NEW p \in Tabs
      PROVE  TabInv(p)'
  <2>1. TabInv(p)
    BY DEF DraftsInv
  <2>2. QED
    BY <2>1 DEF TabInv, DraftsQuiet
<1>3. QED
  BY <1>1, <1>2

\* A quiet step keeps the drafts.
LEMMA DraftsQuietKeeps ==
    ASSUME DraftsInv, Calm, DraftsQuiet
    PROVE  DraftsInv'
<1>1. /\ DOMAIN feedPage' = Tabs /\ DOMAIN seen' = Tabs
      /\ DOMAIN stored' = Authors /\ DOMAIN drafted' = Authors
  BY DEF DraftsInv, DraftsQuiet
<1>2. feedPage' = feedPage
  BY DEF DraftsQuiet
<1>3. QED
  BY <1>1, <1>2, SamePages, HeardKeeps

\* One more draft: of those seen, the list misses only what was pushed out or overtaken.
LEMMA UpdateMisses ==
    ASSUME NEW posts, NEW drafts, NEW post, OnlyMisses(posts, drafts), IsFiniteSet(drafts),
           post.id \in Nat, \A d \in drafts : d.id \in Nat /\ d.id < post.id
    PROVE  /\ post \in updatePublicFeedHistory(posts, post)
           /\ OnlyMisses(updatePublicFeedHistory(posts, post), drafts \cup {post})
<1> DEFINE all == drafts \cup {post}
           next == updatePublicFeedHistory(posts, post)
<1>1. /\ next = {post} \cup Newest(DraftLimit - 1, Others(posts, post))
      /\ Newest(DraftLimit - 1, Others(posts, post)) \subseteq drafts
  BY DEF updatePublicFeedHistory, Newest, Others, OnlyMisses
<1>2. IsFiniteSet(all) /\ DraftLimit \in Nat
  BY FS_AddElement, CommunityAssumption
<1>3. ASSUME NEW d \in all \ next
      PROVE  PushedOut(d, all) \/ Overtaken(d, all)
  <2> DEFINE above == {e \in all : e.id > d.id}
  <2>1. d \in drafts /\ d.id \in Nat /\ d.id < post.id
    BY <1>1, <1>3
  <2>2. IsFiniteSet(above) /\ Cardinality(above) \in Nat
    BY <1>2, FS_Subset, FS_CardinalityType
  <2>3. CASE Overtaken(d, drafts)
    BY <2>3 DEF Overtaken
  <2>4. CASE PushedOut(d, drafts)
    <3>1. {e \in drafts : e.id > d.id} \subseteq above
      OBVIOUS
    <3>2. /\ Cardinality({e \in drafts : e.id > d.id}) <= Cardinality(above)
          /\ Cardinality({e \in drafts : e.id > d.id}) \in Nat
      BY <2>2, <3>1, FS_Subset, FS_CardinalityType
    <3>3. QED
      BY <1>2, <2>2, <2>4, <3>2 DEF PushedOut
  <2>5. CASE d \in posts /\ d \notin Others(posts, post)
    BY <2>1, <2>5 DEF Others, Overtaken
  <2>6. CASE d \in Others(posts, post)
    <3> DEFINE rest == {r \in Others(posts, post) : r.id > d.id}
    <3>1. rest \subseteq drafts
      BY DEF Others, OnlyMisses
    <3>2. IsFiniteSet(rest) /\ Cardinality(rest) \in Nat
      BY <3>1, FS_Subset, FS_CardinalityType
    <3>3. ~(Cardinality(rest) < DraftLimit - 1)
      BY <1>1, <1>3, <2>6 DEF Newest
    <3>4. post \notin rest
      BY <3>1
    <3>5. Cardinality(rest \cup {post}) = Cardinality(rest) + 1
      BY <3>2, <3>4, FS_AddElement
    <3>6. rest \cup {post} \subseteq above
      BY <2>1, <3>1
    <3>7. Cardinality(rest \cup {post}) <= Cardinality(above)
      BY <2>2, <3>6, FS_Subset
    <3>8. Cardinality(above) >= DraftLimit
      BY <1>2, <2>2, <3>2, <3>3, <3>5, <3>7
    <3>9. QED
      BY <3>8 DEF PushedOut
  <2>7. QED
    BY <2>1, <2>3, <2>4, <2>5, <2>6 DEF OnlyMisses
<1>4. QED
  BY <1>1, <1>3 DEF OnlyMisses

\* What a save does: the draft is new, it is shown and stored, and what the tab had seen
\* is stored with it unless it was pushed out or overtaken.
SavedBy(p, post, next) ==
    /\ ~feedPage[p].shared
    /\ post.id = Cardinality(drafted[p[1]]) + 1 /\ post \notin drafted[p[1]] /\ post \in next
    /\ OnlyMisses(next, seen[p] \cup {post})
    /\ feedPage' = [feedPage EXCEPT ![p].posts = next]
    /\ \A a \in Authors \ {p[1]} : stored'[a] = stored[a] /\ drafted'[a] = drafted[a]
    /\ DOMAIN stored' = Authors /\ DOMAIN drafted' = Authors
    /\ DOMAIN stored'[p[1]] = {"drafts", "following"} /\ stored'[p[1]].drafts = next
    /\ drafted'[p[1]] = drafted[p[1]] \cup {post}
    /\ DOMAIN seen' = Tabs /\ seen'[p] = seen[p] \cup {post} /\ seen'[p] # seen[p]
    /\ \A q \in Tabs \ {p} : seen'[q] = seen[q]

LEMMA SaveDraftSaves ==
    ASSUME DraftsInv, NEW p \in Tabs, SaveDraft(p)
    PROVE  \E post, next : SavedBy(p, post, next)
<1>1. PICK a \in Authors : a = p[1]
  BY DEF Tabs
<1>2. PICK post : post = [id |-> Cardinality(drafted[a]) + 1, author |-> LocalMember, at |-> time]
  OBVIOUS
<1>3. PICK next : next = updatePublicFeedHistory(feedPage[p].posts, post)
  OBVIOUS
<1>4. /\ ~feedPage[p].shared
      /\ feedPage' = [feedPage EXCEPT ![p].posts = next]
      /\ stored' = [stored EXCEPT ![a].drafts = next]
      /\ drafted' = [drafted EXCEPT ![a] = @ \cup {post}]
      /\ seen' = [seen EXCEPT ![p] = @ \cup {post}]
  BY <1>1, <1>2, <1>3 DEF SaveDraft
<1>5. BrowserInv(a) /\ TabInv(p)
  BY DEF DraftsInv
<1>6. Cardinality(drafted[a]) \in Nat
  BY <1>5, FS_CardinalityType DEF BrowserInv
<1>7. post.id = Cardinality(drafted[a]) + 1
  BY <1>2
<1>8. /\ \A d \in drafted[a] : d.id \in Nat /\ d.id < post.id
      /\ post \notin drafted[a]
  BY <1>5, <1>6, <1>7 DEF BrowserInv
<1>9. /\ seen[p] \subseteq drafted[a] /\ IsFiniteSet(seen[p]) /\ OnlyMisses(feedPage[p].posts, seen[p])
  BY <1>1, <1>4, <1>5, FS_Subset DEF BrowserInv, TabInv
<1>10. post \in next /\ OnlyMisses(next, seen[p] \cup {post})
  BY <1>3, <1>6, <1>7, <1>8, <1>9, UpdateMisses
<1>11. /\ DOMAIN stored' = Authors /\ DOMAIN drafted' = Authors /\ DOMAIN seen' = Tabs
       /\ \A b \in Authors \ {a} : stored'[b] = stored[b] /\ drafted'[b] = drafted[b]
       /\ \A q \in Tabs \ {p} : seen'[q] = seen[q]
       /\ drafted'[a] = drafted[a] \cup {post} /\ seen'[p] = seen[p] \cup {post}
  BY <1>4 DEF DraftsInv
<1>12. DOMAIN stored'[a] = {"drafts", "following"} /\ stored'[a].drafts = next
  BY <1>4, <1>5 DEF DraftsInv, BrowserInv
<1>13. seen'[p] # seen[p]
  BY <1>8, <1>9, <1>11
<1>14. SavedBy(p, post, next)
  BY <1>1, <1>4, <1>7, <1>8, <1>10, <1>11, <1>12, <1>13 DEF SavedBy
<1>15. QED
  BY <1>14

\* A save keeps the drafts.
LEMMA SaveDraftKeeps ==
    ASSUME TalkShape, DraftsInv, NEW p \in Tabs, SaveDraft(p), Calm
    PROVE  DraftsInv'
<1>1. PICK post, next : SavedBy(p, post, next)
  BY SaveDraftSaves
<1>2. PICK a \in Authors : a = p[1]
  BY DEF Tabs
<1>3. /\ DOMAIN feedPage' = Tabs /\ \A q \in Tabs \ {p} : feedPage'[q] = feedPage[q]
      /\ DOMAIN feedPage'[p] = {"shared", "posts", "loaded"}
      /\ feedPage'[p].shared = feedPage[p].shared /\ feedPage'[p].posts = next
  BY <1>1 DEF DraftsInv, TabInv, SavedBy
<1>4. /\ seen[p] \subseteq drafted[a] /\ BrowserInv(a)
  BY <1>2 DEF DraftsInv, TabInv
<1>5. /\ IsFiniteSet(drafted[a]) /\ Cardinality(drafted[a]) \in Nat
      /\ IsFiniteSet(drafted'[a]) /\ Cardinality(drafted'[a]) = Cardinality(drafted[a]) + 1
  BY <1>1, <1>2, <1>4, FS_AddElement, FS_CardinalityType DEF BrowserInv, SavedBy
<1>6. ASSUME NEW b \in Authors
      PROVE  BrowserInv(b)'
  <2>1. CASE b = a
    <3>1. stored'[a].drafts \subseteq drafted'[a]
      BY <1>1, <1>2, <1>4 DEF SavedBy, OnlyMisses
    <3>2. \A d \in drafted'[a] : d.id \in 1..Cardinality(drafted'[a])
      BY <1>1, <1>2, <1>4, <1>5 DEF SavedBy, BrowserInv
    <3>3. QED
      BY <1>1, <1>2, <1>5, <2>1, <3>1, <3>2 DEF SavedBy, BrowserInv
  <2>2. CASE b # a
    <3>1. BrowserInv(b) /\ stored'[b] = stored[b] /\ drafted'[b] = drafted[b]
      BY <1>1, <1>2, <2>2 DEF DraftsInv, SavedBy
    <3>2. QED
      BY <3>1 DEF BrowserInv
  <2>3. QED
    BY <2>1, <2>2
<1>7. ASSUME NEW q \in Tabs
      PROVE  TabInv(q)'
  <2>1. q[1] \in Authors /\ TabInv(q)
    BY DEF Tabs, DraftsInv
  <2>2. drafted[q[1]] \subseteq drafted'[q[1]]
    BY <1>1, <1>2, <2>1 DEF SavedBy
  <2>3. CASE q = p
    <3>1. seen'[p] \subseteq drafted'[p[1]]
      BY <1>1, <1>2, <1>4 DEF SavedBy
    <3>2. OnlyMisses(feedPage'[p].posts, seen'[p])
      BY <1>1, <1>3 DEF SavedBy
    <3>3. QED
      BY <1>3, <2>3, <3>1, <3>2 DEF TabInv
  <2>4. CASE q # p
    <3>1. seen'[q] = seen[q] /\ feedPage'[q] = feedPage[q]
      BY <1>1, <1>3, <2>4 DEF SavedBy
    <3>2. QED
      BY <2>1, <2>2, <3>1 DEF TabInv
  <2>5. QED
    BY <2>3, <2>4
<1>8. ASSUME NEW c \in TalkSlots, NEW kind \in {"feed", "publish"}, Heard(c, kind)'
      PROVE  feedPage'[Page(c)].shared = feedPage[Page(c)].shared
  <2>1. Page(c) \in Tabs
    BY <1>8, CalmHeard DEF DraftsInv
  <2>2. QED
    BY <1>3, <2>1
<1>9. DOMAIN stored' = Authors /\ DOMAIN drafted' = Authors /\ DOMAIN seen' = Tabs
  BY <1>1 DEF SavedBy
<1>10. QED
  BY <1>3, <1>6, <1>7, <1>8, <1>9, HeardKeeps

\* A page that is mounted shows the drafts, and hears only its own question.
LEMMA MountFeedKeeps ==
    ASSUME TalkShape, PostsInv, DraftsInv, NEW p \in Tabs, NEW c \in TalkSlots, MountFeed(p, c)
    PROVE  TalkShape' /\ NoneCounted /\ DraftsInv'
<1>0. PICK a \in Authors : a = p[1] /\ p = <<p[1], p[2]>>
  BY DEF Tabs
<1>1. PICK new : new = Sent("feed", p, 0)
  OBVIOUS
<1>2. /\ DOMAIN new = TalkFields /\ new.pc = "sent" /\ new.kind = "feed"
      /\ new.by = p[1] /\ new.tab = p[2] /\ new # Silent /\ new.heard
  <2>1. /\ DOMAIN new = TalkFields /\ new.pc = "sent" /\ new.kind = "feed" /\ new.heard
        /\ new.by = p[1] /\ new.tab = p[2]
    BY <1>1 DEF Sent, TalkFields
  <2>2. QED
    BY <2>1 DEF Silent
<1>3. talk'[c] = new /\ DOMAIN talk' = TalkSlots /\ Page(c)' = p
  BY <1>0, <1>1, <1>2 DEF MountFeed, Page
<1>4. ASSUME NEW d \in TalkSlots, d # c
      PROVE  /\ talk'[d] = Silent \/ DOMAIN talk'[d] = TalkFields
             /\ talk'[d].pc = talk[d].pc /\ talk'[d].by = talk[d].by /\ talk'[d].at = talk[d].at
             /\ talk'[d].kind = talk[d].kind /\ Page(d)' = Page(d)
             /\ \A kind \in {"feed", "publish"} :
                   Heard(d, kind)' => Heard(d, kind) /\ Page(d) # p
  <2>1. CASE talk[d] # Silent /\ Page(d) = p /\ talk[d].kind \in {"feed", "publish"}
    <3>1. talk'[d] = [talk[d] EXCEPT !.heard = FALSE] /\ DOMAIN talk[d] = TalkFields
      BY <1>4, <2>1 DEF MountFeed, TalkShape
    <3>2. /\ DOMAIN talk'[d] = TalkFields /\ talk'[d].pc = talk[d].pc
          /\ talk'[d].by = talk[d].by /\ talk'[d].at = talk[d].at /\ talk'[d].kind = talk[d].kind
          /\ talk'[d].tab = talk[d].tab /\ ~talk'[d].heard
      BY <3>1 DEF TalkFields
    <3>3. QED
      BY <3>2 DEF Heard, Page
  <2>2. CASE ~(talk[d] # Silent /\ Page(d) = p /\ talk[d].kind \in {"feed", "publish"})
    <3>1. talk'[d] = talk[d]
      BY <1>4, <2>2 DEF MountFeed
    <3>2. QED
      BY <2>2, <3>1 DEF Heard, TalkShape, Page
  <2>3. QED
    BY <2>1, <2>2
<1>5. TalkShape'
  BY <1>2, <1>3, <1>4 DEF TalkShape
<1>6. NoneCounted
  BY <1>2, <1>3, <1>4 DEF NoneCounted, PostsInv, MountFeed
<1>7. /\ DOMAIN feedPage' = Tabs /\ DOMAIN seen' = Tabs /\ UNCHANGED <<stored, drafted>>
      /\ \A q \in Tabs \ {p} : feedPage'[q] = feedPage[q] /\ seen'[q] = seen[q]
      /\ feedPage'[p] = [shared |-> FALSE, posts |-> stored[a].drafts, loaded |-> TRUE]
      /\ seen'[p] = stored[a].drafts
  BY <1>0 DEF MountFeed, DraftsInv
<1>8. /\ DOMAIN feedPage'[p] = {"shared", "posts", "loaded"}
      /\ ~feedPage'[p].shared /\ feedPage'[p].posts = stored[a].drafts
  BY <1>7
<1>9. ASSUME NEW q \in Tabs
      PROVE  TabInv(q)'
  <2>1. TabInv(q)
    BY DEF DraftsInv
  <2>2. CASE q = p
    <3>1. seen'[p] \subseteq drafted'[p[1]]
      BY <1>0, <1>7 DEF DraftsInv, BrowserInv
    <3>2. QED
      BY <1>7, <1>8, <2>2, <3>1 DEF TabInv, OnlyMisses
  <2>3. CASE q # p
    BY <1>7, <2>1, <2>3 DEF TabInv
  <2>4. QED
    BY <2>2, <2>3
<1>10. ASSUME NEW d \in TalkSlots, Heard(d, "feed")'
       PROVE  /\ Page(d)' \in Tabs /\ ~feedPage'[Page(d)'].shared
              /\ \A e \in TalkSlots : Heard(e, "feed")' /\ Page(e)' = Page(d)' => e = d
  <2>1. CASE d = c
    BY <1>3, <1>4, <1>8, <2>1
  <2>2. CASE d # c
    <3>1. Heard(d, "feed") /\ Page(d)' = Page(d) /\ Page(d) # p
      BY <1>4, <1>10, <2>2
    <3>2. /\ Page(d) \in Tabs /\ ~feedPage[Page(d)].shared
          /\ \A e \in TalkSlots : Heard(e, "feed") /\ Page(e) = Page(d) => e = d
      BY <3>1 DEF DraftsInv
    <3>3. QED
      BY <1>3, <1>4, <1>7, <3>1, <3>2
  <2>3. QED
    BY <2>1, <2>2
<1>11. ASSUME NEW d \in TalkSlots, Heard(d, "publish")'
       PROVE  Page(d)' \in Tabs /\ feedPage'[Page(d)'].shared
  <2>1. d # c
    BY <1>2, <1>3, <1>11 DEF Heard
  <2>2. Heard(d, "publish") /\ Page(d)' = Page(d) /\ Page(d) # p
    BY <1>4, <1>11, <2>1
  <2>3. QED
    BY <1>7, <2>2 DEF DraftsInv
<1>12. \A b \in Authors : BrowserInv(b)'
  BY <1>7 DEF DraftsInv, BrowserInv
<1>13. DOMAIN stored' = Authors /\ DOMAIN drafted' = Authors
  BY <1>7 DEF DraftsInv
<1>14. DraftsInv'
  BY <1>7, <1>9, <1>10, <1>11, <1>12, <1>13 DEF DraftsInv
<1>15. QED
  BY <1>5, <1>6, <1>14

\* A post is sent only from a page that shows the shared feed.
LEMMA PublishKeeps ==
    ASSUME TalkShape, PostsInv, DraftsInv, NEW p \in Tabs, NEW c \in TalkSlots, Publish(p, c)
    PROVE  TalkShape' /\ NoneCounted /\ DraftsInv'
<1>1. PICK new : new = Sent("publish", p, 0)
  OBVIOUS
<1>2. /\ DOMAIN new = TalkFields /\ new.pc = "sent" /\ new.kind = "publish"
      /\ new.by = p[1] /\ new.tab = p[2] /\ p = <<p[1], p[2]>>
  BY <1>1 DEF Sent, TalkFields, Tabs
<1>3. /\ DOMAIN talk' = TalkSlots /\ \A d \in TalkSlots \ {c} : talk'[d] = talk[d]
      /\ talk'[c] = new
  BY <1>1 DEF Publish, Talks, TalkShape
<1>4. feedPage[p].shared /\ UNCHANGED <<feedPage, stored, drafted, seen, time>>
  BY DEF Publish, communityPages
<1>5. TalkShape'
  BY <1>2, <1>3 DEF TalkShape
<1>6. NoneCounted
  BY <1>2, <1>3, <1>4 DEF NoneCounted, PostsInv
<1>7. DraftsQuiet
  BY <1>4 DEF DraftsQuiet, DraftsInv, BrowserInv
<1>8. ASSUME NEW d \in TalkSlots, Heard(d, "feed")'
      PROVE  d # c /\ Heard(d, "feed") /\ Page(d)' = Page(d)
  BY <1>2, <1>3, <1>8 DEF Heard, Page
<1>9. ASSUME NEW d \in TalkSlots, Heard(d, "feed")'
      PROVE  /\ Page(d)' \in Tabs /\ ~feedPage'[Page(d)'].shared
             /\ \A e \in TalkSlots : Heard(e, "feed")' /\ Page(e)' = Page(d)' => e = d
  BY <1>4, <1>8, <1>9 DEF DraftsInv
<1>10. ASSUME NEW d \in TalkSlots, Heard(d, "publish")'
       PROVE  Page(d)' \in Tabs /\ feedPage'[Page(d)'].shared
  <2>1. CASE d = c
    <3>1. Page(c)' = p
      BY <1>2, <1>3 DEF Page
    <3>2. QED
      BY <1>4, <2>1, <3>1
  <2>2. CASE d # c
    <3>1. Heard(d, "publish") /\ Page(d)' = Page(d)
      BY <1>3, <1>10, <2>2 DEF Heard, Page
    <3>2. QED
      BY <1>4, <3>1 DEF DraftsInv
  <2>3. QED
    BY <2>1, <2>2
<1>11. /\ DOMAIN feedPage' = Tabs /\ DOMAIN seen' = Tabs
       /\ DOMAIN stored' = Authors /\ DOMAIN drafted' = Authors
  BY <1>4 DEF DraftsInv
<1>12. DraftsInv'
  BY <1>7, <1>9, <1>10, <1>11, SamePages DEF DraftsInv
<1>13. QED
  BY <1>5, <1>6, <1>12

\* The answer to the page's question: no other answer to it is to come, and no post
\* of the page is on its way.
LEMMA FeedAnsweredKeeps ==
    ASSUME TalkShape, DraftsInv, NEW c \in TalkSlots, FeedAnswered(c), Calm
    PROVE  DraftsInv'
<1>1. talk[c].pc = "answered" /\ talk[c].kind = "feed" /\ talk[c] # Silent
  BY DEF FeedAnswered, Talking, Silent
<1>2. UNCHANGED <<stored, drafted, seen>> /\ talk' = [talk EXCEPT ![c] = Silent]
  BY DEF FeedAnswered, Ends
<1>3. talk'[c] = Silent /\ \A d \in TalkSlots \ {c} : talk'[d] = talk[d]
  BY <1>2 DEF TalkShape
<1>4. CASE ~talk[c].heard
  <2>1. feedPage' = feedPage
    BY <1>4 DEF FeedAnswered
  <2>2. DraftsQuiet
    BY <1>2, <2>1 DEF DraftsQuiet, DraftsInv, BrowserInv
  <2>3. QED
    BY <2>2, DraftsQuietKeeps
<1>5. CASE talk[c].heard
  <2>1. Heard(c, "feed")
    BY <1>1, <1>5 DEF Heard
  <2>2. PICK p \in Tabs : p = Page(c)
    BY <2>1 DEF DraftsInv
  <2>3. /\ ~feedPage[p].shared /\ DOMAIN feedPage[p] = {"shared", "posts", "loaded"}
        /\ \A d \in TalkSlots : Heard(d, "feed") /\ Page(d) = p => d = c
    BY <2>1, <2>2 DEF DraftsInv, TabInv
  <2>4. feedPage' = [feedPage EXCEPT ![p].shared = IsShared(talk[c].status, talk[c].data),
                         ![p].posts = PostsAfter(talk[c].status, talk[c].data, @)]
    BY <1>5, <2>2 DEF FeedAnswered
  <2>5. /\ DOMAIN feedPage' = Tabs /\ \A q \in Tabs \ {p} : feedPage'[q] = feedPage[q]
    BY <2>4 DEF DraftsInv
  <2>6. /\ DOMAIN feedPage'[p] = {"shared", "posts", "loaded"}
        /\ feedPage'[p].shared = IsShared(talk[c].status, talk[c].data)
        /\ ~IsShared(talk[c].status, talk[c].data) => feedPage'[p].posts = feedPage[p].posts
    BY <2>3, <2>4 DEF PostsAfter, DraftsInv
  <2>7. ASSUME NEW q \in Tabs
        PROVE  TabInv(q)'
    <3>1. TabInv(q)
      BY DEF DraftsInv
    <3>2. CASE q = p
      BY <1>2, <2>3, <2>6, <3>1, <3>2 DEF TabInv
    <3>3. CASE q # p
      BY <1>2, <2>5, <3>1, <3>3 DEF TabInv
    <3>4. QED
      BY <3>2, <3>3
  <2>8. ASSUME NEW d \in TalkSlots, NEW kind \in {"feed", "publish"}, Heard(d, kind)'
        PROVE  feedPage'[Page(d)].shared = feedPage[Page(d)].shared
    <3>1. Heard(d, kind) /\ d # c
      BY <1>3, <2>8, CalmHeard DEF Heard
    <3>2. Page(d) \in Tabs /\ Page(d) # p
      BY <2>3, <3>1 DEF DraftsInv
    <3>3. QED
      BY <2>5, <3>2
  <2>9. /\ DOMAIN stored' = Authors /\ DOMAIN drafted' = Authors /\ DOMAIN seen' = Tabs
        /\ \A a \in Authors : BrowserInv(a)'
    BY <1>2 DEF DraftsInv, BrowserInv
  <2>10. QED
    BY <2>5, <2>7, <2>8, <2>9, HeardKeeps
<1>6. QED
  BY <1>4, <1>5

\* The answer to a post changes only a page that shows the shared feed.
LEMMA PublishAnsweredKeeps ==
    ASSUME TalkShape, DraftsInv, NEW c \in TalkSlots, PublishAnswered(c), Calm
    PROVE  DraftsInv'
<1>1. talk[c].pc = "answered" /\ talk[c].kind = "publish" /\ talk[c] # Silent
  BY DEF PublishAnswered, Talking, Silent
<1>2. UNCHANGED <<stored, drafted, seen>>
  BY DEF PublishAnswered
<1>3. /\ DOMAIN stored' = Authors /\ DOMAIN drafted' = Authors /\ DOMAIN seen' = Tabs
      /\ \A a \in Authors : BrowserInv(a)'
  BY <1>2 DEF DraftsInv, BrowserInv
<1>4. CASE ~(talk[c].status = 201 /\ talk[c].heard)
  <2>1. feedPage' = feedPage
    BY <1>4 DEF PublishAnswered
  <2>2. DraftsQuiet
    BY <1>2, <2>1 DEF DraftsQuiet, DraftsInv, BrowserInv
  <2>3. QED
    BY <2>2, DraftsQuietKeeps
<1>5. CASE talk[c].status = 201 /\ talk[c].heard
  <2>1. Heard(c, "publish")
    BY <1>1, <1>5 DEF Heard
  <2>2. PICK p \in Tabs : p = Page(c)
    BY <2>1 DEF DraftsInv
  <2>3. feedPage[p].shared /\ DOMAIN feedPage[p] = {"shared", "posts", "loaded"}
    BY <2>1, <2>2 DEF DraftsInv, TabInv
  <2>4. PICK next : feedPage' = [feedPage EXCEPT ![p].posts = next]
    BY <1>5, <2>2 DEF PublishAnswered
  <2>5. /\ DOMAIN feedPage' = Tabs /\ \A q \in Tabs \ {p} : feedPage'[q] = feedPage[q]
        /\ DOMAIN feedPage'[p] = {"shared", "posts", "loaded"}
        /\ feedPage'[p].shared = feedPage[p].shared
    BY <2>3, <2>4 DEF DraftsInv
  <2>6. ASSUME NEW q \in Tabs
        PROVE  TabInv(q)'
    <3>1. TabInv(q)
      BY DEF DraftsInv
    <3>2. CASE q = p
      BY <1>2, <2>3, <2>5, <3>1, <3>2 DEF TabInv
    <3>3. CASE q # p
      BY <1>2, <2>5, <3>1, <3>3 DEF TabInv
    <3>4. QED
      BY <3>2, <3>3
  <2>7. \A q \in Tabs : feedPage'[q].shared = feedPage[q].shared
    BY <2>5
  <2>8. ASSUME NEW d \in TalkSlots, NEW kind \in {"feed", "publish"}, Heard(d, kind)'
        PROVE  feedPage'[Page(d)].shared = feedPage[Page(d)].shared
    <3>1. Heard(d, kind)
      BY <2>8, CalmHeard
    <3>2. QED
      BY <2>7, <3>1 DEF DraftsInv
  <2>9. QED
    BY <1>3, <2>5, <2>6, <2>8, HeardKeeps
<1>6. QED
  BY <1>4, <1>5

\* A counted post is heard as before.
LEMMA PostCountedDrafts ==
    ASSUME TalkShape, DraftsInv, NEW c \in TalkSlots, PostCounted(c)
    PROVE  DraftsInv'
<1>1. talk[c].pc = "sent" /\ talk[c] # Silent /\ DOMAIN talk[c] = TalkFields
  BY DEF PostCounted, Talking, Silent, TalkShape
<1>2. UNCHANGED <<feedPage, stored, drafted, seen>>
  BY DEF PostCounted, communityPages
<1>3. DraftsQuiet
  BY <1>2 DEF DraftsQuiet, DraftsInv, BrowserInv
<1>4. CASE talk' = [talk EXCEPT ![c].pc = "counted", ![c].at = time]
  <2>1. /\ \A d \in TalkSlots \ {c} : talk'[d] = talk[d]
        /\ talk'[c].by = talk[c].by /\ talk'[c].kind = talk[c].kind
        /\ talk'[c].tab = talk[c].tab /\ talk'[c].heard = talk[c].heard
    BY <1>1, <1>4 DEF TalkShape, TalkFields
  <2>2. ASSUME NEW d \in TalkSlots, NEW kind, Heard(d, kind)'
        PROVE  Heard(d, kind) /\ Page(d)' = Page(d)
    BY <1>1, <2>1, <2>2 DEF Heard, Page
  <2>3. \A d \in TalkSlots : Heard(d, "feed")' =>
          /\ Page(d)' \in Tabs /\ ~feedPage'[Page(d)'].shared
          /\ \A e \in TalkSlots : Heard(e, "feed")' /\ Page(e)' = Page(d)' => e = d
    BY <1>2, <2>2 DEF DraftsInv
  <2>4. \A d \in TalkSlots : Heard(d, "publish")' =>
          Page(d)' \in Tabs /\ feedPage'[Page(d)'].shared
    BY <1>2, <2>2 DEF DraftsInv
  <2>5. /\ DOMAIN feedPage' = Tabs /\ DOMAIN seen' = Tabs
        /\ DOMAIN stored' = Authors /\ DOMAIN drafted' = Authors
    BY <1>2 DEF DraftsInv
  <2>6. QED
    BY <1>3, <2>3, <2>4, <2>5, SamePages DEF DraftsInv
<1>5. CASE \E status, data : Responds(c, status, data)
  <2>1. Calm
    BY <1>1, <1>5, CalmWays
  <2>2. QED
    BY <1>3, <2>1, DraftsQuietKeeps
<1>6. QED
  BY <1>4, <1>5 DEF PostCounted

-----------------------------------------------------------------------------
(* Community: reports.                                                     *)

\* What ReportsInv says of one report.
Honest(report) ==
    /\ DOMAIN report = {"status", "resolvedBy"}
    /\ report.resolvedBy \in {{}, {Moderator}}
    /\ report.status = "resolved" => report.resolvedBy = {Moderator}

\* A report is inserted open, after the others.
LEMMA ReportInsertedKeeps ==
    ASSUME ReportsInv, NEW c \in TalkSlots, ReportInserted(c)
    PROVE  ReportsInv' /\ \A i \in DOMAIN reports : i \in DOMAIN reports' /\ reports'[i] = reports[i]
<1>1. PICK new : new = [status |-> "open", resolvedBy |-> {}]
  OBVIOUS
<1>2. new.status = "open" /\ Honest(new)
  BY <1>1 DEF Honest
<1>3. reports' = Append(reports, new)
  BY <1>1 DEF ReportInserted
<1> DEFINE Known == {reports[i] : i \in DOMAIN reports}
<1>4. reports \in Seq(Known \cup {new}) /\ new \in Known \cup {new}
  <2>1. reports \in Seq(Known)
    BY DEF ReportsInv, IsSequence
  <2>2. reports = [i \in DOMAIN reports |-> reports[i]] /\ DOMAIN reports = 1..Len(reports)
        /\ Len(reports) \in Nat
    BY <2>1, LenProperties
  <2>3. \A i \in 1..Len(reports) : reports[i] \in Known \cup {new}
    BY <2>2
  <2>4. QED
    BY <2>1, <2>2, <2>3, SeqDef
<1>5. /\ DOMAIN reports = 1..Len(reports) /\ Len(reports) \in Nat
      /\ reports' \in Seq(Known \cup {new})
      /\ Len(reports') = Len(reports) + 1 /\ DOMAIN reports' = 1..Len(reports')
      /\ \A i \in DOMAIN reports : reports'[i] = reports[i]
      /\ reports'[Len(reports) + 1] = new
  BY <1>3, <1>4, AppendProperties, LenProperties
<1> HIDE DEF Known
<1>6. \A i \in DOMAIN reports' :
         \/ i \in DOMAIN reports /\ reports'[i] = reports[i]
         \/ i = Len(reports) + 1 /\ reports'[i] = new
  BY <1>5
<1>7. IsSequence(reports)'
  <2>1. reports' = [i \in 1..Len(reports') |-> reports'[i]] /\ Len(reports') \in Nat
    BY <1>5
  <2>2. \A i \in 1..Len(reports') : reports'[i] \in {reports'[j] : j \in DOMAIN reports'}
    BY <1>5
  <2>3. reports' \in Seq({reports'[j] : j \in DOMAIN reports'})
    BY <2>1, <2>2, SeqDef
  <2>4. QED
    BY <2>3 DEF IsSequence
<1>8. \A i \in DOMAIN reports' : Honest(reports'[i])
  BY <1>2, <1>6 DEF ReportsInv, Honest
<1>9. ReportsInv'
  BY <1>7, <1>8 DEF ReportsInv, Honest
<1>10. \A i \in DOMAIN reports : i \in DOMAIN reports'
  BY <1>5
<1>11. QED
  BY <1>5, <1>9, <1>10

\* An action on a report is the moderator's, and a resolution is kept.
LEMMA ReportActedOnKeeps ==
    ASSUME ReportsInv, NEW c \in TalkSlots, ReportActedOn(c)
    PROVE  /\ ReportsInv'
           /\ \A i \in DOMAIN reports :
                 reports[i].resolvedBy # {} => reports'[i].resolvedBy = reports[i].resolvedBy
           /\ DOMAIN reports' = DOMAIN reports
<1>1. CASE UNCHANGED reports
  BY <1>1 DEF ReportsInv, IsSequence
<1>2. CASE ~ UNCHANGED reports
  <2>1. PICK i \in DOMAIN reports, status \in {talk[c].arg[2]} :
          reports' = [reports EXCEPT ![i] = ActedOn(@, status, Moderator)]
    BY <1>2 DEF ReportActedOn
  <2>2. PICK new : new = ActedOn(reports[i], status, Moderator)
    OBVIOUS
  <2>3. /\ DOMAIN reports' = DOMAIN reports /\ reports'[i] = new
        /\ \A j \in DOMAIN reports \ {i} : reports'[j] = reports[j]
    BY <2>1, <2>2
  <2>4. Honest(reports[i])
    BY DEF ReportsInv, Honest
  <2>5. Honest(new) /\ (reports[i].resolvedBy # {} => new.resolvedBy = reports[i].resolvedBy)
    BY <2>2, <2>4 DEF Honest, ActedOn
  <2>6. IsSequence(reports)'
    <3>1. reports \in Seq({reports[j] : j \in DOMAIN reports})
      BY DEF ReportsInv, IsSequence
    <3>2. PICK n \in Nat : DOMAIN reports = 1..n
      BY <3>1, LenProperties
    <3>3. reports' = [j \in 1..n |-> reports'[j]]
      BY <2>1, <3>2
    <3>4. \A j \in 1..n : reports'[j] \in {reports'[k] : k \in DOMAIN reports'}
      BY <2>3, <3>2
    <3>5. reports' \in Seq({reports'[k] : k \in DOMAIN reports'})
      BY <3>3, <3>4, SeqDef
    <3>6. QED
      BY <3>5 DEF IsSequence
  <2>7. \A j \in DOMAIN reports' : Honest(reports'[j])
    BY <2>3, <2>5 DEF ReportsInv, Honest
  <2>8. ReportsInv'
    BY <2>6, <2>7 DEF ReportsInv, Honest
  <2>9. QED
    BY <2>3, <2>5, <2>8
<1>3. QED
  BY <1>1, <1>2

\* Every other step leaves the reports alone.
LEMMA ReportsStay ==
    ASSUME [CommunityNext]_communityVars,
           \A c \in TalkSlots : ~ReportInserted(c) /\ ~ReportActedOn(c)
    PROVE  reports' = reports
<1>1. CASE UNCHANGED communityVars
  BY <1>1 DEF communityVars, communityTables
<1>2. CASE TimePasses
  BY <1>2 DEF TimePasses, communityTables
<1>3. ASSUME NEW p \in Tabs, SaveDraft(p) \/ ToggleLocal(p)
      PROVE  reports' = reports
  BY <1>3 DEF SaveDraft, ToggleLocal, communityTables
<1>4. ASSUME NEW c \in TalkSlots,
             \/ TalkFails(c) \/ FeedRead(c) \/ PostCounted(c) \/ PostInserted(c)
             \/ FollowWritten(c) \/ QueueRead(c)
      PROVE  reports' = reports
  BY <1>4 DEF TalkFails, FeedRead, PostCounted, PostInserted, FollowWritten, QueueRead
<1>5. ASSUME NEW c \in TalkSlots, FollowsRead(c)
      PROVE  reports' = reports
  BY <1>5 DEF FollowsRead
<1>6. ASSUME NEW c \in TalkSlots,
             \/ FeedAnswered(c) \/ PublishAnswered(c) \/ FollowsAnswered(c) \/ ToggleAnswered(c)
             \/ ReportSent(c) \/ QueueAnswered(c) \/ ReportUpdated(c)
      PROVE  reports' = reports
  BY <1>6 DEF FeedAnswered, PublishAnswered, FollowsAnswered, ToggleAnswered, ReportSent,
              QueueAnswered, ReportUpdated
<1>7. ASSUME NEW c \in TalkSlots, LoadQueue(c) \/ UpdateReport(c)
      PROVE  reports' = reports
  BY <1>7 DEF LoadQueue, UpdateReport, communityTables
<1>8. ASSUME NEW c \in TalkSlots,
             \/ \E p \in Tabs : \/ MountFeed(p, c) \/ Publish(p, c) \/ MountProfiles(p, c)
                                \/ ToggleShared(p, c)
             \/ \E a \in Authors : SubmitReport(a, c)
      PROVE  reports' = reports
  BY <1>8 DEF MountFeed, Publish, MountProfiles, ToggleShared, SubmitReport, communityTables
<1>9. QED
  BY <1>1, <1>2, <1>3, <1>4, <1>5, <1>6, <1>7, <1>8 DEF CommunityNext

-----------------------------------------------------------------------------
(* Community: the invariant.                                               *)

\* Except for the one that inserts a post, a step leaves the posts alone and the clock
\* goes on by at most one.
LEMMA PostsStay ==
    ASSUME [CommunityNext]_communityVars, \A c \in TalkSlots : ~PostInserted(c)
    PROVE  publicPosts' = publicPosts /\ time' \in {time, time + 1}
<1>1. CASE UNCHANGED communityVars
  BY <1>1 DEF communityVars, communityTables
<1>2. CASE TimePasses
  BY <1>2 DEF TimePasses, communityTables
<1>3. ASSUME NEW p \in Tabs, SaveDraft(p) \/ ToggleLocal(p)
      PROVE  publicPosts' = publicPosts /\ time' = time
  BY <1>3 DEF SaveDraft, ToggleLocal, communityTables
<1>4. ASSUME NEW c \in TalkSlots,
             \/ TalkFails(c) \/ FeedRead(c) \/ PostCounted(c) \/ ReportInserted(c)
             \/ FollowWritten(c) \/ QueueRead(c)
      PROVE  publicPosts' = publicPosts /\ time' = time
  BY <1>4 DEF TalkFails, FeedRead, PostCounted, ReportInserted, FollowWritten, QueueRead, Stays
<1>5. ASSUME NEW c \in TalkSlots, FollowsRead(c) \/ ReportActedOn(c)
      PROVE  publicPosts' = publicPosts /\ time' = time
  BY <1>5 DEF FollowsRead, ReportActedOn, Stays
<1>6. ASSUME NEW c \in TalkSlots,
             \/ FeedAnswered(c) \/ PublishAnswered(c) \/ FollowsAnswered(c) \/ ToggleAnswered(c)
             \/ ReportSent(c) \/ QueueAnswered(c) \/ ReportUpdated(c)
      PROVE  publicPosts' = publicPosts /\ time' = time
  BY <1>6 DEF FeedAnswered, PublishAnswered, FollowsAnswered, ToggleAnswered, ReportSent,
              QueueAnswered, ReportUpdated, Stays
<1>7. ASSUME NEW c \in TalkSlots, LoadQueue(c) \/ UpdateReport(c)
      PROVE  publicPosts' = publicPosts /\ time' = time
  BY <1>7 DEF LoadQueue, UpdateReport, communityTables
<1>8. ASSUME NEW c \in TalkSlots,
             \/ \E p \in Tabs : \/ MountFeed(p, c) \/ Publish(p, c) \/ MountProfiles(p, c)
                                \/ ToggleShared(p, c)
             \/ \E a \in Authors : SubmitReport(a, c)
      PROVE  publicPosts' = publicPosts /\ time' = time
  BY <1>8 DEF MountFeed, Publish, MountProfiles, ToggleShared, SubmitReport, communityTables
<1>9. QED
  BY <1>1, <1>2, <1>3, <1>4, <1>5, <1>6, <1>7, <1>8 DEF CommunityNext

\* The steps that DraftsQuiet describes.
LEMMA QuietSteps ==
    ASSUME DraftsInv,
           \/ TimePasses \/ UNCHANGED communityVars
           \/ \E c \in TalkSlots :
                 \/ TalkFails(c) \/ FeedRead(c) \/ PostInserted(c)
                 \/ FollowsRead(c) \/ FollowWritten(c) \/ ReportInserted(c) \/ QueueRead(c)
                 \/ ReportActedOn(c) \/ FollowsAnswered(c) \/ ToggleAnswered(c)
                 \/ ReportSent(c) \/ LoadQueue(c) \/ QueueAnswered(c) \/ UpdateReport(c)
                 \/ ReportUpdated(c)
                 \/ \E p \in Tabs : MountProfiles(p, c) \/ ToggleShared(p, c)
                 \/ \E a \in Authors : SubmitReport(a, c)
           \/ \E p \in Tabs : ToggleLocal(p)
    PROVE  DraftsQuiet
<1>1. CASE UNCHANGED <<feedPage, stored, drafted, seen>>
  BY <1>1 DEF DraftsQuiet, DraftsInv, BrowserInv
<1>2. CASE UNCHANGED communityVars \/ TimePasses
  BY <1>1, <1>2 DEF communityVars, TimePasses, communityPages
<1>3. ASSUME NEW p \in Tabs, ToggleLocal(p)
      PROVE  DraftsQuiet
  <2>1. PICK next : stored' = [stored EXCEPT ![p[1]].following = next]
    BY <1>3 DEF ToggleLocal
  <2>2. UNCHANGED <<feedPage, drafted, seen>>
    BY <1>3 DEF ToggleLocal
  <2>3. DOMAIN stored = Authors /\ \A b \in Authors : DOMAIN stored[b] = {"drafts", "following"}
    BY DEF DraftsInv, BrowserInv
  <2>4. DOMAIN stored' = Authors /\ \A b \in Authors \ {p[1]} : stored'[b] = stored[b]
    BY <2>1, <2>3
  <2>5. p[1] \in Authors
    BY DEF Tabs
  <2>6. /\ DOMAIN stored'[p[1]] = {"drafts", "following"}
        /\ stored'[p[1]].drafts = stored[p[1]].drafts
    BY <2>1, <2>3, <2>5
  <2>7. QED
    BY <2>2, <2>3, <2>4, <2>6 DEF DraftsQuiet
<1>4. ASSUME NEW c \in TalkSlots,
             \/ TalkFails(c) \/ FeedRead(c) \/ PostInserted(c) \/ ReportInserted(c)
             \/ FollowWritten(c) \/ QueueRead(c)
      PROVE  DraftsQuiet
  BY <1>1, <1>4 DEF TalkFails, FeedRead, PostInserted, ReportInserted, FollowWritten, QueueRead,
                    communityPages
<1>5. ASSUME NEW c \in TalkSlots, FollowsRead(c) \/ ReportActedOn(c)
      PROVE  DraftsQuiet
  BY <1>1, <1>5 DEF FollowsRead, ReportActedOn, communityPages
<1>6. ASSUME NEW c \in TalkSlots,
             \/ FollowsAnswered(c) \/ ToggleAnswered(c)
             \/ ReportSent(c) \/ QueueAnswered(c) \/ ReportUpdated(c)
      PROVE  DraftsQuiet
  BY <1>1, <1>6 DEF FollowsAnswered, ToggleAnswered, ReportSent, QueueAnswered, ReportUpdated,
                    communityPages
<1>7. ASSUME NEW c \in TalkSlots, LoadQueue(c) \/ UpdateReport(c)
      PROVE  DraftsQuiet
  BY <1>1, <1>7 DEF LoadQueue, UpdateReport, communityPages
<1>8. ASSUME NEW c \in TalkSlots,
             \/ \E p \in Tabs : MountProfiles(p, c) \/ ToggleShared(p, c)
             \/ \E a \in Authors : SubmitReport(a, c)
      PROVE  DraftsQuiet
  BY <1>1, <1>8 DEF MountProfiles, ToggleShared, SubmitReport, communityPages
<1>9. QED
  BY <1>2, <1>3, <1>4, <1>5, <1>6, <1>7, <1>8

\* It holds at first.
LEMMA CommunityInitInv == CommunityInit => CommunityInv
<1> SUFFICES ASSUME CommunityInit PROVE CommunityInv
  OBVIOUS
<1>1. /\ DOMAIN talk = TalkSlots /\ \A c \in TalkSlots : talk[c] = Silent
  BY DEF CommunityInit
<1>2. TalkShape
  BY <1>1 DEF TalkShape
<1>3. PostsInv
  <2>1. ASSUME NEW a, NEW start \in Int
        PROVE  PostsIn(a, start) = {} /\ CountedIn(a, start) = {}
    BY <1>1 DEF PostsIn, CountedIn, CommunityInit, Silent
  <2>2. Cardinality({}) = 0 /\ IsFiniteSet({})
    BY FS_EmptySet
  <2>3. PostLimit + Cardinality(TalkSlots) - 1 >= 0
    BY CommunityAssumption, FS_CardinalityType
  <2>4. \A c \in TalkSlots : talk[c].pc # "counted"
    BY <1>1 DEF Silent
  <2>5. time = 0 /\ publicPosts = {}
    BY DEF CommunityInit
  <2>6. \A a : \A start \in Int :
          Cardinality(PostsIn(a, start)) + Cardinality(CountedIn(a, start))
             <= PostLimit + Cardinality(TalkSlots) - 1
    BY <2>1, <2>2, <2>3
  <2>7. QED
    BY <2>2, <2>4, <2>5, <2>6 DEF PostsInv
<1>4. DraftsInv
  <2>1. \A c \in TalkSlots : \A kind : ~Heard(c, kind)
    BY <1>1 DEF Heard
  <2>2. ASSUME NEW a \in Authors
        PROVE  BrowserInv(a)
    <3>1. /\ DOMAIN stored[a] = {"drafts", "following"} /\ stored[a].drafts = {}
          /\ drafted[a] = {}
      BY DEF CommunityInit
    <3>2. QED
      BY <3>1, FS_EmptySet DEF BrowserInv
  <2>3. ASSUME NEW p \in Tabs
        PROVE  TabInv(p)
    <3>1. /\ DOMAIN feedPage[p] = {"shared", "posts", "loaded"} /\ feedPage[p].posts = {}
          /\ seen[p] = {}
      BY DEF CommunityInit, FreshFeed
    <3>2. QED
      BY <3>1 DEF TabInv, OnlyMisses
  <2>4. /\ DOMAIN feedPage = Tabs /\ DOMAIN seen = Tabs
        /\ DOMAIN stored = Authors /\ DOMAIN drafted = Authors
    BY DEF CommunityInit
  <2>5. QED
    BY <2>1, <2>2, <2>3, <2>4 DEF DraftsInv
<1>5. ReportsInv
  <2>1. reports = <<>>
    BY DEF CommunityInit
  <2>2. reports \in Seq({reports[i] : i \in DOMAIN reports}) /\ DOMAIN reports = {}
    BY <2>1
  <2>3. QED
    BY <2>2 DEF ReportsInv, IsSequence
<1>6. QED
  BY <1>2, <1>3, <1>4, <1>5 DEF CommunityInv

\* Every step keeps it.
LEMMA CommunityNextInv == CommunityInv /\ [CommunityNext]_communityVars => CommunityInv'
<1> SUFFICES ASSUME CommunityInv, [CommunityNext]_communityVars PROVE CommunityInv'
  OBVIOUS
<1>1. TalkShape /\ PostsInv /\ DraftsInv /\ ReportsInv
  BY DEF CommunityInv
<1>2. ReportsInv'
  <2>1. CASE \A c \in TalkSlots : ~ReportInserted(c) /\ ~ReportActedOn(c)
    <3>1. reports' = reports
      BY <2>1, ReportsStay
    <3>2. QED
      BY <1>1, <3>1 DEF ReportsInv, IsSequence
  <2>2. QED
    BY <1>1, <2>1, ReportInsertedKeeps, ReportActedOnKeeps
<1>3. ASSUME NEW c \in TalkSlots, PostCounted(c)
      PROVE  TalkShape' /\ PostsInv' /\ DraftsInv'
  BY <1>1, <1>3, PostCountedKeeps, PostCountedDrafts
<1>4. ASSUME NoneCounted, \A c \in TalkSlots : ~PostInserted(c)
      PROVE  PostsInv'
  BY <1>1, <1>4, PostsStay, NoneCountedKeeps
<1>5. ASSUME NEW c \in TalkSlots, PostInserted(c)
      PROVE  PostsInv'
  BY <1>1, <1>5, PostInsertedKeeps
<1>6. ASSUME NoneCounted
      PROVE  PostsInv'
  BY <1>4, <1>5, <1>6
<1>7. ASSUME NEW p \in Tabs, NEW c \in TalkSlots, MountFeed(p, c)
      PROVE  TalkShape' /\ PostsInv' /\ DraftsInv'
  BY <1>1, <1>6, <1>7, MountFeedKeeps
<1>8. ASSUME NEW p \in Tabs, NEW c \in TalkSlots, Publish(p, c)
      PROVE  TalkShape' /\ PostsInv' /\ DraftsInv'
  BY <1>1, <1>6, <1>8, PublishKeeps
<1>9. ASSUME Calm
      PROVE  TalkShape' /\ PostsInv'
  <2>1. TalkShape'
    BY <1>1, <1>9 DEF Calm, Evolves, TalkShape
  <2>2. CASE \A c \in TalkSlots : ~PostInserted(c)
    <3>1. time \in Nat /\ time' \in {time, time + 1}
      BY <1>1, <2>2, PostsStay DEF PostsInv
    <3>2. QED
      BY <1>6, <1>9, <2>1, <3>1, CalmCountsNone
  <2>3. QED
    BY <1>5, <2>1, <2>2
<1>10. ASSUME NEW c \in TalkSlots, FeedAnswered(c) \/ PublishAnswered(c)
       PROVE  TalkShape' /\ PostsInv' /\ DraftsInv'
  <2>1. Calm
    BY <1>1, <1>10, CalmSteps
  <2>2. QED
    BY <1>1, <1>9, <1>10, <2>1, FeedAnsweredKeeps, PublishAnsweredKeeps
<1>11. ASSUME NEW p \in Tabs, SaveDraft(p)
       PROVE  TalkShape' /\ PostsInv' /\ DraftsInv'
  <2>1. Calm
    BY <1>1, <1>11, CalmSteps
  <2>2. QED
    BY <1>1, <1>9, <1>11, <2>1, SaveDraftKeeps
<1>12. CASE \/ TimePasses \/ UNCHANGED communityVars
            \/ \E c \in TalkSlots :
                  \/ TalkFails(c) \/ FeedRead(c) \/ PostInserted(c)
                  \/ FollowsRead(c) \/ FollowWritten(c) \/ ReportInserted(c) \/ QueueRead(c)
                  \/ ReportActedOn(c) \/ FollowsAnswered(c) \/ ToggleAnswered(c)
                  \/ ReportSent(c) \/ LoadQueue(c) \/ QueueAnswered(c) \/ UpdateReport(c)
                  \/ ReportUpdated(c)
                  \/ \E p \in Tabs : MountProfiles(p, c) \/ ToggleShared(p, c)
                  \/ \E a \in Authors : SubmitReport(a, c)
            \/ \E p \in Tabs : ToggleLocal(p)
  <2>1. Calm
    BY <1>1, <1>12, CalmSteps
  <2>2. DraftsQuiet
    BY <1>1, <1>12, QuietSteps
  <2>3. QED
    BY <1>1, <1>2, <1>9, <2>1, <2>2, DraftsQuietKeeps DEF CommunityInv
<1>13. QED
  BY <1>2, <1>3, <1>7, <1>8, <1>10, <1>11, <1>12 DEF CommunityNext, CommunityInv

-----------------------------------------------------------------------------
(* Community: the theorems.                                                *)

\* For any number of authors, calls and tabs, and any limit: an account never has more
\* posts in a minute than the limit and one for every other call in flight.
THEOREM PostsCorrect == Spec => []PostsPerMinute
<1>1. CommunityInv => PostsPerMinute
  <2> SUFFICES ASSUME CommunityInv, NEW a \in Authors, NEW start \in 0..MaxTime
               PROVE  Cardinality(PostsIn(a, start)) <= PostLimit + Cardinality(TalkSlots) - 1
    BY DEF PostsPerMinute, PostsIn
  <2>1. PostsInv /\ start \in Int
    BY DEF CommunityInv
  <2>2. Cardinality(PostsIn(a, start)) + Cardinality(CountedIn(a, start))
           <= PostLimit + Cardinality(TalkSlots) - 1
    BY <2>1 DEF PostsInv
  <2>3. QED
    BY <2>1, <2>2, CountsFinite, CommunityAssumption
<1>2. QED
  BY <1>1, EachPart, CommunityInitInv, CommunityNextInv, PTL DEF CommunitySpec

\* Only a tab that saves a draft changes the drafts of its browser.
LEMMA DraftsStay ==
    ASSUME DraftsInv, [CommunityNext]_communityVars, \A p \in Tabs : ~SaveDraft(p)
    PROVE  \A a \in Authors : stored'[a].drafts = stored[a].drafts /\ drafted'[a] = drafted[a]
<1>1. ASSUME NEW c \in TalkSlots,
             \/ PostCounted(c) \/ FeedAnswered(c) \/ PublishAnswered(c)
             \/ \E p \in Tabs : MountFeed(p, c) \/ Publish(p, c)
      PROVE  UNCHANGED <<stored, drafted>>
  BY <1>1 DEF PostCounted, FeedAnswered, PublishAnswered, MountFeed, Publish, communityPages
<1>2. CASE DraftsQuiet
  BY <1>2 DEF DraftsQuiet
<1>3. CASE UNCHANGED <<stored, drafted>>
  BY <1>3
<1>4. QED
  BY <1>1, <1>2, <1>3, QuietSteps DEF CommunityNext

\* However many tabs a browser has and whatever answers they hear late, only drafts are
\* in its storage, and a tab's save drops none that the tab found there or saved, unless
\* the limit pushes it out or a later draft has its time.
THEOREM DraftsCorrect == Spec => DraftsKept
<1> DEFINE Kept(a) ==
      /\ stored'[a].drafts \subseteq drafted'[a]
      /\ drafted'[a] \ drafted[a] \subseteq stored'[a].drafts
      /\ stored'[a].drafts # stored[a].drafts =>
            \E t \in Places : LET p == <<a, t>> IN
               /\ seen'[p] # seen[p]
               /\ \A d \in seen[p] \ stored'[a].drafts :
                     PushedOut(d, seen'[p]) \/ Overtaken(d, seen'[p])
<1>1. ASSUME CommunityInv, CommunityInv', [CommunityNext]_communityVars, NEW a \in Authors
      PROVE  Kept(a)
  <2>1. DraftsInv /\ stored'[a].drafts \subseteq drafted'[a]
    BY <1>1 DEF CommunityInv, DraftsInv, BrowserInv
  <2>2. CASE \A p \in Tabs : ~SaveDraft(p)
    BY <1>1, <2>1, <2>2, DraftsStay
  <2>3. ASSUME NEW p \in Tabs, SaveDraft(p)
        PROVE  Kept(a)
    <3>1. PICK post, next : SavedBy(p, post, next)
      BY <2>1, <2>3, SaveDraftSaves
    <3>2. CASE p[1] = a
      <4>1. PICK t \in Places : p = <<a, t>>
        BY <3>2 DEF Tabs
      <4>2. stored'[a].drafts = next /\ drafted'[a] = drafted[a] \cup {post} /\ post \in next
        BY <3>1, <3>2 DEF SavedBy
      <4>3. seen'[p] # seen[p]
        BY <3>1 DEF SavedBy
      <4>4. \A d \in seen[p] \ next : PushedOut(d, seen'[p]) \/ Overtaken(d, seen'[p])
        BY <3>1 DEF SavedBy, OnlyMisses
      <4>5. QED
        BY <2>1, <4>1, <4>2, <4>3, <4>4
    <3>3. CASE p[1] # a
      BY <2>1, <3>1, <3>3 DEF SavedBy
    <3>4. QED
      BY <3>2, <3>3
  <2>4. QED
    BY <2>2, <2>3
<1>2. CommunityInv /\ CommunityInv' /\ [CommunityNext]_communityVars => \A a \in Authors : Kept(a)
  BY <1>1
<1>3. QED
  BY <1>2, EachPart, CommunityInitInv, CommunityNextInv, PTL DEF CommunitySpec, DraftsKept

\* Once a report is resolved no action of anyone takes away who resolved it.
THEOREM ResolutionCorrect == Spec => ResolutionIsKept
<1> DEFINE Kept ==
      \A i \in DOMAIN reports :
          /\ reports[i].resolvedBy # {} => reports'[i].resolvedBy = reports[i].resolvedBy
          /\ reports'[i].status = "resolved" => reports'[i].resolvedBy = {Moderator}
<1>1. CommunityInv /\ CommunityInv' /\ [CommunityNext]_communityVars => Kept
  <2> SUFFICES ASSUME CommunityInv, CommunityInv', [CommunityNext]_communityVars
               PROVE  Kept
    OBVIOUS
  <2>1. ReportsInv /\ ReportsInv'
    BY DEF CommunityInv
  <2>2. \A i \in DOMAIN reports :
          /\ i \in DOMAIN reports'
          /\ reports[i].resolvedBy # {} => reports'[i].resolvedBy = reports[i].resolvedBy
    <3>1. CASE \E c \in TalkSlots : ReportInserted(c)
      BY <2>1, <3>1, ReportInsertedKeeps
    <3>2. CASE \E c \in TalkSlots : ReportActedOn(c)
      BY <2>1, <3>2, ReportActedOnKeeps
    <3>3. CASE \A c \in TalkSlots : ~ReportInserted(c) /\ ~ReportActedOn(c)
      BY <3>3, ReportsStay
    <3>4. QED
      BY <3>1, <3>2, <3>3
  <2>3. QED
    BY <2>1, <2>2 DEF ReportsInv
<1>2. QED
  BY <1>1, EachPart, CommunityInitInv, CommunityNextInv, PTL DEF CommunitySpec, ResolutionIsKept

=============================================================================
