-------------------------- MODULE StudioCommunity --------------------------
(***************************************************************************)
(* The public feed, follows and reports: functions/api/feed.ts, follows*,  *)
(* reports.ts and creator/reports* over the tables public_posts, follows   *)
(* and reports, composed with the home feed                                *)
(* (components/public-social-feed.tsx), the list of profiles               *)
(* (components/creator-profile-list.tsx) and the report queue of the       *)
(* creator's workspace.  A browser has several tabs, each with pages of    *)
(* its own, over one localStorage.  A list of posts is the set of them:    *)
(* their numbers give the order of drafts.                                 *)
(***************************************************************************)
EXTENDS Integers, Sequences, FiniteSets

CONSTANTS
    Authors,        \* accounts that post, follow and report
    Places,         \* the tabs an account has open in its browser
    Moderator,      \* the creator whose room is reported
    Profiles,       \* handles that can be followed
    PostLimit,      \* 5 posts
    Minute,         \* within 60_000 ms
    DraftLimit,     \* 20 drafts of a browser
    MaxTime,        \* bound on the clock
    TalkSlots,      \* calls that may be in flight at once
    MaxTalk         \* bound on what the pages are asked to do

ASSUME CommunityAssumption ==
    {PostLimit, Minute, DraftLimit} \subseteq Nat \ {0} /\ IsFiniteSet(TalkSlots)

Tabs == Authors \X Places
Silent == [pc |-> "idle"]

\* The handle of a draft, and a post of the samples answered without a database.
LocalMember == "local-member"
Sample == [id |-> 0, author |-> "seed", at |-> 0]

VARIABLES
    time,           \* Date.now()
    database,       \* the binding Z0STUDIO_DB, which a static host does not have
    publicPosts,    \* table public_posts
    follows,        \* table follows
    reports,        \* table reports: the state of each, in order
    talk,           \* slot -> the call it runs
    feedPage,       \* tab -> the home feed
    profilePage,    \* tab -> the list of profiles
    queue,          \* the report queue shown to the moderator
    stored,         \* author -> localStorage: its drafts and handles followed
    drafted,        \* history: author -> drafts saved in its browser
    seen,           \* history: tab -> drafts it found in storage, and those it saved
    talkCount       \* history: what the pages were asked to do

communityTables == <<database, publicPosts, follows, reports>>
communityPages == <<feedPage, profilePage, queue, stored, drafted, seen>>
communityVars == <<time, communityTables, talk, communityPages, talkCount>>

\* The pages as they render before their effects run.
FreshFeed == [shared |-> FALSE, posts |-> {}, loaded |-> FALSE]
FreshProfiles == [shared |-> FALSE, following |-> <<>>, loaded |-> FALSE]

CommunityInit ==
    /\ time = 0 /\ database \in BOOLEAN
    /\ publicPosts = {} /\ follows = {} /\ reports = <<>>
    /\ talk = [c \in TalkSlots |-> Silent]
    /\ feedPage = [p \in Tabs |-> FreshFeed]
    /\ profilePage = [p \in Tabs |-> FreshProfiles]
    /\ queue = <<>>
    /\ stored = [a \in Authors |-> [drafts |-> {}, following |-> <<>>]]
    /\ drafted = [a \in Authors |-> {}] /\ seen = [p \in Tabs |-> {}] /\ talkCount = 0

-----------------------------------------------------------------------------
Asked == talkCount < MaxTalk /\ talkCount' = talkCount + 1
Sent(kind, p, arg) == [pc |-> "sent", kind |-> kind, by |-> p[1], tab |-> p[2], arg |-> arg,
                       at |-> time, heard |-> TRUE, status |-> 0, data |-> <<>>]
Talks(c, kind, p, arg) == talk[c] = Silent /\ talk' = [talk EXCEPT ![c] = Sent(kind, p, arg)]
Page(c) == <<talk[c].by, talk[c].tab>>
Stays == UNCHANGED <<time, database, talkCount>>

Talking(c, kind, pc) == talk[c].pc = pc /\ talk[c].kind = kind
Responds(c, status, data) ==
    talk' = [talk EXCEPT ![c].pc = "answered", ![c].status = status, ![c].data = data]
Ends(c) == talk' = [talk EXCEPT ![c] = Silent]

\* A statement throws, the answer is lost, or the session has ended: an error.
TalkFails(c) ==
    /\ talk[c] # Silent
    /\ \E status \in {400, 401} : Responds(c, status, <<>>)
    /\ UNCHANGED <<publicPosts, follows, reports, communityPages>> /\ Stays

TimePasses ==
    /\ time < MaxTime /\ time' = time + 1
    /\ UNCHANGED <<communityTables, talk, communityPages, talkCount>>

-----------------------------------------------------------------------------
(* functions/api/feed.ts                                                   *)

\* GET: the posts (fewer than the 50 it reads at most), or samples without a database.
FeedRead(c) ==
    /\ Talking(c, "feed", "sent")
    /\ Responds(c, 200, IF database THEN [mode |-> "shared", posts |-> publicPosts]
                                    ELSE [mode |-> "local-fallback", posts |-> {Sample}])
    /\ UNCHANGED <<publicPosts, follows, reports, communityPages>> /\ Stays

\* Plausible bug: an account may have the limit and one more.
MoreThanLimit(recent) == Cardinality(recent) > PostLimit

AtLimit(recent) == Cardinality(recent) >= PostLimit

\* POST: the time is taken, the account's posts since a minute before it counted,
\* and the post inserted later.
PostCounted(c) ==
    /\ Talking(c, "publish", "sent") /\ database
    /\ IF AtLimit({p \in publicPosts : p.author = talk[c].by /\ p.at >= time - Minute})
         THEN Responds(c, 429, <<>>)
         ELSE talk' = [talk EXCEPT ![c].pc = "counted", ![c].at = time]
    /\ UNCHANGED <<publicPosts, follows, reports, communityPages>> /\ Stays

PostInserted(c) ==
    /\ Talking(c, "publish", "counted")
    /\ LET post == [id |-> Cardinality(publicPosts) + 1, author |-> talk[c].by, at |-> talk[c].at]
       IN  publicPosts' = publicPosts \cup {post} /\ Responds(c, 201, post)
    /\ UNCHANGED <<follows, reports, communityPages>> /\ Stays

-----------------------------------------------------------------------------
(* functions/api/follows.ts, follows/[handle].ts, reports.ts and           *)
(* creator/reports: one statement each.                                    *)

FollowsRead(c) ==
    /\ Talking(c, "follows", "sent") /\ database
    /\ \E order \in [1..Cardinality({f \in follows : f[1] = talk[c].by}) -> Profiles] :
          /\ {<<talk[c].by, order[i]>> : i \in DOMAIN order} = {f \in follows : f[1] = talk[c].by}
          /\ Responds(c, 200, order)
    /\ UNCHANGED <<publicPosts, follows, reports, communityPages>> /\ Stays

FollowWritten(c) ==
    /\ talk[c].pc = "sent" /\ database
    /\ \/ talk[c].kind = "follow" /\ follows' = follows \cup {<<talk[c].by, talk[c].arg>>}
       \/ talk[c].kind = "unfollow" /\ follows' = follows \ {<<talk[c].by, talk[c].arg>>}
    /\ Responds(c, 200, <<>>)
    /\ UNCHANGED <<publicPosts, reports, communityPages>> /\ Stays

ReportInserted(c) ==
    /\ Talking(c, "report", "sent") /\ database
    /\ reports' = Append(reports, [status |-> "open", resolvedBy |-> {}])
    /\ Responds(c, 201, <<>>)
    /\ UNCHANGED <<publicPosts, follows, communityPages>> /\ Stays

QueueRead(c) ==
    /\ Talking(c, "queue", "sent") /\ database
    /\ Responds(c, 200, [i \in DOMAIN reports |-> reports[i].status])
    /\ UNCHANGED <<publicPosts, follows, reports, communityPages>> /\ Stays

\* Plausible bug: resolved_at and resolved_by are written with every action.
ResolvedOnlyNow(report, status, by) ==
    [status |-> status, resolvedBy |-> IF status = "resolved" THEN {by} ELSE {}]

\* The CASE of the update keeps who resolved the report.
ActedOn(report, status, by) ==
    [status |-> status, resolvedBy |-> IF status = "resolved" THEN {by} ELSE report.resolvedBy]

\* PATCH: only a report of a room the account owns.
ReportActedOn(c) ==
    /\ Talking(c, "act", "sent") /\ database
    /\ LET i == talk[c].arg[1]
           status == talk[c].arg[2]
       IN  IF i \in DOMAIN reports /\ talk[c].by = Moderator
             THEN /\ reports' = [reports EXCEPT ![i] = ActedOn(@, status, talk[c].by)]
                  /\ Responds(c, 200, talk[c].arg)
             ELSE Responds(c, 404, <<>>) /\ UNCHANGED reports
    /\ UNCHANGED <<publicPosts, follows, communityPages>> /\ Stays

-----------------------------------------------------------------------------
(* The home feed.                                                          *)

\* Mounted or reloaded: the drafts in storage are shown, then the feed is asked for;
\* nobody hears the answers to an earlier page of the tab.
MountFeed(p, c) ==
    /\ Asked /\ talk[c] = Silent
    /\ talk' = [d \in TalkSlots |->
          IF d = c THEN Sent("feed", p, 0)
          ELSE IF talk[d] # Silent /\ Page(d) = p /\ talk[d].kind \in {"feed", "publish"}
          THEN [talk[d] EXCEPT !.heard = FALSE]
          ELSE talk[d]]
    /\ feedPage' = [feedPage EXCEPT ![p] =
          [shared |-> FALSE, posts |-> stored[p[1]].drafts, loaded |-> TRUE]]
    /\ seen' = [seen EXCEPT ![p] = stored[p[1]].drafts]
    /\ UNCHANGED <<time, communityTables, profilePage, queue, stored, drafted>>

IsShared(status, data) == status = 200 /\ data.mode = "shared"

\* Plausible bug: the samples of a fallback answer replace the drafts too.
Replaced(status, data, posts) == IF status = 200 THEN data.posts ELSE posts

\* Only a shared feed replaces what the page shows.
PostsAfter(status, data, posts) == IF IsShared(status, data) THEN data.posts ELSE posts

FeedAnswered(c) ==
    /\ Talking(c, "feed", "answered")
    /\ feedPage' = IF ~talk[c].heard THEN feedPage
          ELSE [feedPage EXCEPT ![Page(c)].shared = IsShared(talk[c].status, talk[c].data),
                                ![Page(c)].posts = PostsAfter(talk[c].status, talk[c].data, @)]
    /\ Ends(c)
    /\ UNCHANGED <<publicPosts, follows, reports, profilePage, queue, stored, drafted, seen>> /\ Stays

\* The post goes before the others, an entry of its time and handle leaves, and those
\* beyond the limit fall off the end.
Others(posts, post) == {q \in posts : ~(q.at = post.at /\ q.author = post.author)}
Newest(n, posts) == {q \in posts : Cardinality({r \in posts : r.id > q.id}) < n}
updatePublicFeedHistory(posts, post) ==
    {post} \cup Newest(DraftLimit - 1, Others(posts, post))

Publish(p, c) ==
    /\ feedPage[p].shared
    /\ Asked /\ Talks(c, "publish", p, 0)
    /\ UNCHANGED <<time, communityTables, communityPages>>

\* A refusal only sets the notice.  Published posts are shown in the order their
\* answers came, which is not kept: any of the older ones may be the last.
PublishAnswered(c) ==
    /\ Talking(c, "publish", "answered")
    /\ IF talk[c].status = 201 /\ talk[c].heard
         THEN LET older == Others(feedPage[Page(c)].posts, talk[c].data)
              IN  \E kept \in SUBSET older :
                     /\ IF Cardinality(older) < DraftLimit THEN kept = older
                                                          ELSE Cardinality(kept) = DraftLimit - 1
                     /\ feedPage' = [feedPage EXCEPT ![Page(c)].posts = {talk[c].data} \cup kept]
         ELSE UNCHANGED feedPage
    /\ Ends(c)
    /\ UNCHANGED <<publicPosts, follows, reports, profilePage, queue, stored, drafted, seen>> /\ Stays

\* Without a shared feed the post is put before those the tab shows, and they are
\* stored: drafts that another tab stored since are overwritten.
SaveDraft(p) ==
    /\ feedPage[p].loaded /\ ~feedPage[p].shared /\ Asked
    /\ LET a == p[1]
           post == [id |-> Cardinality(drafted[a]) + 1, author |-> LocalMember, at |-> time]
           next == updatePublicFeedHistory(feedPage[p].posts, post)
       IN  /\ feedPage' = [feedPage EXCEPT ![p].posts = next]
           /\ stored' = [stored EXCEPT ![a].drafts = next]
           /\ drafted' = [drafted EXCEPT ![a] = @ \cup {post}]
           /\ seen' = [seen EXCEPT ![p] = @ \cup {post}]
    /\ UNCHANGED <<time, communityTables, talk, profilePage, queue>>

-----------------------------------------------------------------------------
(* The list of profiles.                                                   *)

MountProfiles(p, c) ==
    /\ Asked /\ Talks(c, "follows", p, 0)
    /\ ~profilePage[p].loaded
    /\ profilePage' = [profilePage EXCEPT ![p] =
          [shared |-> FALSE, following |-> stored[p[1]].following, loaded |-> TRUE]]
    /\ UNCHANGED <<time, communityTables, feedPage, queue, stored, drafted, seen>>

FollowsAnswered(c) ==
    /\ Talking(c, "follows", "answered")
    /\ profilePage' = IF talk[c].status = 200
          THEN [profilePage EXCEPT ![Page(c)].following = talk[c].data, ![Page(c)].shared = TRUE]
          ELSE profilePage
    /\ Ends(c)
    /\ UNCHANGED <<publicPosts, follows, reports, feedPage, queue, stored, drafted, seen>> /\ Stays

Follows(s, h) == \E i \in DOMAIN s : s[i] = h
Toggled(s, h) == IF Follows(s, h) THEN SelectSeq(s, LAMBDA x : x # h) ELSE Append(s, h)

\* What a click asks for is decided by the list as it is shown then.
ToggleShared(p, c) ==
    /\ profilePage[p].shared /\ Asked
    /\ \E h \in Profiles :
          Talks(c, IF Follows(profilePage[p].following, h) THEN "unfollow" ELSE "follow", p, h)
    /\ UNCHANGED <<time, communityTables, communityPages>>

ToggleAnswered(c) ==
    /\ talk[c].pc = "answered" /\ talk[c].kind \in {"follow", "unfollow"}
    /\ profilePage' = IF talk[c].status # 200 THEN profilePage
          ELSE [profilePage EXCEPT ![Page(c)].following =
                  IF talk[c].kind = "follow" THEN Append(@, talk[c].arg)
                  ELSE SelectSeq(@, LAMBDA x : x # talk[c].arg)]
    /\ Ends(c)
    /\ UNCHANGED <<publicPosts, follows, reports, feedPage, queue, stored, drafted, seen>> /\ Stays

ToggleLocal(p) ==
    /\ profilePage[p].loaded /\ ~profilePage[p].shared /\ Asked
    /\ \E h \in Profiles :
          LET next == Toggled(profilePage[p].following, h)
          IN  /\ profilePage' = [profilePage EXCEPT ![p].following = next]
              /\ stored' = [stored EXCEPT ![p[1]].following = next]
    /\ UNCHANGED <<time, communityTables, talk, feedPage, queue, drafted, seen>>

-----------------------------------------------------------------------------
(* Reports: the directory's form, and the workspace's queue.               *)

SubmitReport(a, c) ==
    /\ Asked /\ Talks(c, "report", <<a, "directory">>, 0)
    /\ UNCHANGED <<time, communityTables, communityPages>>

ReportSent(c) ==
    /\ Talking(c, "report", "answered") /\ Ends(c)
    /\ UNCHANGED <<publicPosts, follows, reports, communityPages>> /\ Stays

CreatorTab == <<Moderator, "workspace">>

LoadQueue(c) ==
    /\ Asked /\ Talks(c, "queue", CreatorTab, 0)
    /\ UNCHANGED <<time, communityTables, communityPages>>

QueueAnswered(c) ==
    /\ Talking(c, "queue", "answered")
    /\ queue' = IF talk[c].status = 200 THEN talk[c].data ELSE queue
    /\ Ends(c)
    /\ UNCHANGED <<publicPosts, follows, reports, feedPage, profilePage, stored, drafted, seen>> /\ Stays

\* Review is beside the open reports, Resolve beside those not resolved, as shown;
\* the workspace is busy until the answer comes.
UpdateReport(c) ==
    /\ ~ \E d \in TalkSlots : talk[d] # Silent /\ talk[d].kind = "act"
    /\ \E i \in DOMAIN queue, status \in {"reviewed", "resolved"} :
          /\ queue[i] = "open" \/ (queue[i] = "reviewed" /\ status = "resolved")
          /\ Asked /\ Talks(c, "act", CreatorTab, <<i, status>>)
    /\ UNCHANGED <<time, communityTables, communityPages>>

ReportUpdated(c) ==
    /\ Talking(c, "act", "answered")
    /\ queue' = IF talk[c].status = 200 /\ talk[c].data[1] \in DOMAIN queue
                  THEN [queue EXCEPT ![talk[c].data[1]] = talk[c].data[2]] ELSE queue
    /\ Ends(c)
    /\ UNCHANGED <<publicPosts, follows, reports, feedPage, profilePage, stored, drafted, seen>> /\ Stays

-----------------------------------------------------------------------------
CommunityNext ==
    \/ TimePasses
    \/ \E c \in TalkSlots :
          \/ TalkFails(c) \/ FeedRead(c) \/ PostCounted(c) \/ PostInserted(c)
          \/ FollowsRead(c) \/ FollowWritten(c) \/ ReportInserted(c) \/ QueueRead(c) \/ ReportActedOn(c)
          \/ FeedAnswered(c) \/ PublishAnswered(c) \/ FollowsAnswered(c) \/ ToggleAnswered(c)
          \/ ReportSent(c) \/ LoadQueue(c) \/ QueueAnswered(c) \/ UpdateReport(c) \/ ReportUpdated(c)
          \/ \E p \in Tabs : \/ MountFeed(p, c) \/ Publish(p, c) \/ MountProfiles(p, c)
                             \/ ToggleShared(p, c)
          \/ \E a \in Authors : SubmitReport(a, c)
    \/ \E p \in Tabs : SaveDraft(p) \/ ToggleLocal(p)

-----------------------------------------------------------------------------
(* Properties.                                                             *)

\* The feed's limit counts and inserts in two statements: in no minute does an
\* account publish more than the limit and one post for every other call in flight.
PostsPerMinute ==
    \A a \in Authors, start \in 0..MaxTime :
        Cardinality({p \in publicPosts : p.author = a /\ p.at \in start..(start + Minute)})
            <= PostLimit + Cardinality(TalkSlots) - 1

\* "Preview mode: posts you save here stay in this browser."
\* (src/components/public-social-feed.tsx:70), as far as the code keeps it: a tab's save
\* stores drafts only, its own among them, and drops none that the tab found when it was
\* mounted or saved itself, whatever answers came late and whatever other tabs stored in
\* between, unless the limit pushes it out or a later draft has its time.  A draft that
\* another tab stored since the mount is not among them: that one is lost.
PushedOut(d, drafts) == Cardinality({e \in drafts : e.id > d.id}) >= DraftLimit
Overtaken(d, drafts) == \E e \in drafts : e.at = d.at /\ e.id > d.id
DraftsKept ==
    [][\A a \in Authors :
          /\ stored'[a].drafts \subseteq drafted'[a]
          /\ drafted'[a] \ drafted[a] \subseteq stored'[a].drafts
          /\ stored'[a].drafts # stored[a].drafts =>
                \E t \in Places : LET p == <<a, t>> IN
                   /\ seen'[p] # seen[p]
                   /\ \A d \in seen[p] \ stored'[a].drafts :
                         PushedOut(d, seen'[p]) \/ Overtaken(d, seen'[p])]_communityVars

\* A report says who resolved it from its resolution on, also after a second tab of
\* the creator, which still shows it open, marks it reviewed.
ResolutionIsKept ==
    [][\A i \in DOMAIN reports :
          /\ reports[i].resolvedBy # {} => reports'[i].resolvedBy = reports[i].resolvedBy
          /\ reports'[i].status = "resolved" => reports'[i].resolvedBy = {Moderator}]_communityVars

=============================================================================
