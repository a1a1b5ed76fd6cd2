----------------------- MODULE WalletCapabilityProofs -----------------------
(***************************************************************************)
(* Proofs about WalletCapability, for every value of its constants.        *)
(***************************************************************************)
EXTENDS WalletCapability, SequenceTheorems, TLAPS

(* The inductive invariant.                                                *)

PanelFields == {"fields", "phase", "prepared", "dryRun", "publicAmount", "acknowledged"}
RequestsMade == {requests[i] : i \in DOMAIN requests}

\* The records have their fields, and the numbers of dry runs are those given out.
Shape ==
    /\ called \in Nat
    /\ DOMAIN panels = Panel /\ DOMAIN reviewed = Panel
    /\ \A p \in Panel : DOMAIN panels[p] = PanelFields /\ panels[p].dryRun \in 0..called
    /\ \A call \in calls : call.panel \in Panel /\ call.id \in 1..called
    /\ requests \in Seq(RequestsMade)
    /\ \A i \in DOMAIN requests : requests[i].dryRun \in 1..called

\* No two calls have the same number.
CallsNumbered == \A c, d \in calls : c.id = d.id => c = d

\* The dry run behind a panel, or behind a request, is over, and it was run for one
\* panel only.
DryRunsOver ==
    /\ \A call \in calls :
          /\ \A p \in Panel : panels[p].dryRun # call.id
          /\ \A i \in DOMAIN requests : requests[i].dryRun # call.id
    /\ \A p, q \in Panel : panels[p].dryRun = panels[q].dryRun => p = q \/ panels[p].dryRun = 0

\* A panel holds actions and the dry run that tried them, or neither.
PreparedByDryRun ==
    \A p \in Panel : panels[p].prepared # None <=> panels[p].dryRun # 0

\* What the checkbox stands for is the dry run on show.
TickedWhatIsShown ==
    \A p \in Panel : panels[p].acknowledged => reviewed[p] = panels[p].dryRun

\* Actions that can be signed were never sent to the wallet.
NotYetAsked ==
    \A p \in Panel : panels[p].phase = "prepared" =>
        \A i \in DOMAIN requests : requests[i].dryRun # panels[p].dryRun

IInv ==
    /\ Shape /\ CallsNumbered /\ DryRunsOver /\ PreparedByDryRun /\ TickedWhatIsShown
    /\ NotYetAsked
    /\ OneRequestPerDryRun /\ BusyPanelHasACall /\ AmountShownWithItsClaim

-----------------------------------------------------------------------------
(* Steps that start or end no dry run and no signature request.            *)

\* The panel lost what was under review.
Voided(p) ==
    /\ panels'[p].prepared = None /\ panels'[p].dryRun = 0 /\ panels'[p].acknowledged = FALSE
    /\ p = "claim" => panels'[p].publicAmount = 0
    /\ panels'[p].phase \in {panels[p].phase, "disconnected", "connected", "blocked"}

\* Each panel stays, or lost what was under review.
Quiet ==
    /\ called' \in Nat /\ called' >= called
    /\ DOMAIN panels' = Panel
    /\ \A p \in Panel :
          DOMAIN panels'[p] = PanelFields /\ (panels'[p] = panels[p] \/ Voided(p))
    /\ UNCHANGED <<calls, reviewed, requests>>

\* Dropped leaves the other fields.
LEMMA DroppedPanel ==
    ASSUME NEW panel, DOMAIN panel = PanelFields
    PROVE  /\ DOMAIN Dropped(panel) = PanelFields
           /\ Dropped(panel).prepared = None /\ Dropped(panel).dryRun = 0
           /\ Dropped(panel).acknowledged = FALSE
           /\ Dropped(panel).phase = panel.phase
  BY DEF Dropped, PanelFields

\* So does the claim panel's reset.
LEMMA ClaimResetPanel ==
    ASSUME NEW panel, NEW address, DOMAIN panel = PanelFields
    PROVE  /\ DOMAIN ClaimReset(panel, address) = PanelFields
           /\ ClaimReset(panel, address).prepared = None
           /\ ClaimReset(panel, address).dryRun = 0
           /\ ClaimReset(panel, address).acknowledged = FALSE
           /\ ClaimReset(panel, address).publicAmount = 0
           /\ ClaimReset(panel, address).phase \in {"disconnected", "connected"}
<1> DEFINE dropped == Dropped(panel)
<1>1. /\ DOMAIN dropped = PanelFields
      /\ dropped.prepared = None /\ dropped.dryRun = 0 /\ dropped.acknowledged = FALSE
  BY DroppedPanel
<1> HIDE DEF dropped
<1>2. ClaimReset(panel, address) =
        [dropped EXCEPT !.publicAmount = 0,
                        !.phase = IF address = NoAccount THEN "disconnected" ELSE "connected"]
  BY DEF ClaimReset, dropped
<1>3. QED
  BY <1>1, <1>2 DEF PanelFields

\* Steps of the connections, and edits, are quiet.
LEMMA QuietSteps ==
    ASSUME Shape,
           \/ CheckCapabilities \/ SelectWallet
           \/ \E network \in Networks : Connect(network) \/ AccountChanged(network)
           \/ ConnectedMainnet \/ ConnectedSepolia
           \/ \E p \in Panel : UpdateField(p)
           \/ UNCHANGED vars
    PROVE  Quiet
<1> USE DEF Shape
<1>1. CASE CheckCapabilities \/ SelectWallet \/ ConnectedMainnet \/ UNCHANGED vars
  BY <1>1 DEF CheckCapabilities, SelectWallet, ConnectedMainnet, Answered, Quiet, vars, walletVars
<1>2. ASSUME NEW network \in Networks, Connect(network)
      PROVE  Quiet
  BY <1>2 DEF Connect, Counted, Quiet
<1>3. ASSUME NEW network \in Networks, AccountChanged(network)
      PROVE  Quiet
  <2>1. UNCHANGED <<calls, called, reviewed, requests>>
    BY <1>3 DEF AccountChanged
  <2>2. CASE network = "SN_MAIN"
    BY <1>3, <2>1, <2>2 DEF AccountChanged, Quiet
  <2>3. CASE network # "SN_MAIN"
    <3> DEFINE dropped == Dropped(panels["deposit"])
               reset == ClaimReset(panels["claim"], NoAccount)
    <3>1. /\ DOMAIN dropped = PanelFields
          /\ dropped.prepared = None /\ dropped.dryRun = 0 /\ dropped.acknowledged = FALSE
      BY DroppedPanel DEF Panel
    <3>2. /\ DOMAIN reset = PanelFields
          /\ reset.prepared = None /\ reset.dryRun = 0 /\ reset.acknowledged = FALSE
          /\ reset.publicAmount = 0 /\ reset.phase \in {"disconnected", "connected"}
      BY ClaimResetPanel DEF Panel
    <3>3. panels' = [deposit |-> [dropped EXCEPT !.phase = "disconnected"], claim |-> reset]
      BY <1>3, <2>3 DEF AccountChanged
    <3> HIDE DEF dropped, reset
    <3>4. DOMAIN panels' = Panel
      BY <3>3 DEF Panel
    <3>5. panels'["deposit"] = [dropped EXCEPT !.phase = "disconnected"]
          /\ panels'["claim"] = reset
      BY <3>3
    <3>6. DOMAIN panels'["deposit"] = PanelFields /\ Voided("deposit")
      BY <3>1, <3>5 DEF Voided, PanelFields
    <3>7. DOMAIN panels'["claim"] = PanelFields /\ Voided("claim")
      BY <3>2, <3>5 DEF Voided
    <3>8. QED
      BY <2>1, <3>4, <3>6, <3>7 DEF Quiet, Panel
  <2>4. QED
    BY <2>2, <2>3
<1>4. CASE ConnectedSepolia
  <2>1. UNCHANGED <<calls, called, reviewed, requests>>
    BY <1>4 DEF ConnectedSepolia, Answered
  <2>0. PICK address : address = account'["SN_SEPOLIA"]
    OBVIOUS
  <2> DEFINE dropped == Dropped(panels["deposit"])
             reset == ClaimReset(panels["claim"], address)
             phase == IF address = NoAccount THEN "blocked" ELSE "connected"
  <2>2. /\ DOMAIN dropped = PanelFields
        /\ dropped.prepared = None /\ dropped.dryRun = 0 /\ dropped.acknowledged = FALSE
    BY DroppedPanel DEF Panel
  <2>3. /\ DOMAIN reset = PanelFields
        /\ reset.prepared = None /\ reset.dryRun = 0 /\ reset.acknowledged = FALSE
        /\ reset.publicAmount = 0 /\ reset.phase \in {"disconnected", "connected"}
    BY ClaimResetPanel DEF Panel
  <2>4. \E claim \in {panels["claim"], reset} :
           panels' = [deposit |-> [dropped EXCEPT !.phase = phase], claim |-> claim]
    BY <1>4, <2>0 DEF ConnectedSepolia
  <2>5. phase \in {"blocked", "connected"}
    OBVIOUS
  <2> HIDE DEF dropped, reset, phase
  <2>6. PICK claim \in {panels["claim"], reset} :
           panels' = [deposit |-> [dropped EXCEPT !.phase = phase], claim |-> claim]
    BY <2>4
  <2>7. DOMAIN panels' = Panel
    BY <2>6 DEF Panel
  <2>8. panels'["deposit"] = [dropped EXCEPT !.phase = phase] /\ panels'["claim"] = claim
    BY <2>6
  <2>9. DOMAIN panels'["deposit"] = PanelFields /\ Voided("deposit")
    BY <2>2, <2>5, <2>8 DEF Voided, PanelFields
  <2>10. /\ DOMAIN panels'["claim"] = PanelFields
         /\ panels'["claim"] = panels["claim"] \/ Voided("claim")
    BY <2>3, <2>8 DEF Voided, Panel
  <2>11. QED
    BY <2>1, <2>7, <2>9, <2>10 DEF Quiet, Panel
<1>5. ASSUME NEW p \in Panel, UpdateField(p)
      PROVE  Quiet
  <2>1. UNCHANGED <<calls, called, reviewed, requests>>
    BY <1>5 DEF UpdateField
  <2>2. PICK fields :
           panels' = [panels EXCEPT ![p] = Updated(@, fields, account["SN_SEPOLIA"] # NoAccount)]
    BY <1>5 DEF UpdateField
  <2> DEFINE dropped == Dropped(panels[p])
             phase == IF account["SN_SEPOLIA"] # NoAccount THEN "connected" ELSE dropped.phase
  <2>3. /\ DOMAIN dropped = PanelFields
        /\ dropped.prepared = None /\ dropped.dryRun = 0 /\ dropped.acknowledged = FALSE
        /\ dropped.phase = panels[p].phase
    BY DroppedPanel
  <2>4. phase \in {panels[p].phase, "connected"}
    BY <2>3
  <2>5. Updated(panels[p], fields, account["SN_SEPOLIA"] # NoAccount) =
           [dropped EXCEPT !.fields = fields, !.publicAmount = 0, !.phase = phase]
    BY DEF Updated
  <2> HIDE DEF dropped, phase
  <2>6. /\ DOMAIN panels' = Panel
        /\ panels'[p] = [dropped EXCEPT !.fields = fields, !.publicAmount = 0, !.phase = phase]
        /\ \A q \in Panel \ {p} : panels'[q] = panels[q]
    BY <2>2, <2>5
  <2>7. DOMAIN panels'[p] = PanelFields /\ Voided(p)
    BY <2>3, <2>4, <2>6 DEF Voided, PanelFields
  <2>8. \A q \in Panel :
           DOMAIN panels'[q] = PanelFields /\ (panels'[q] = panels[q] \/ Voided(q))
    BY <2>6, <2>7
  <2>9. QED
    BY <2>1, <2>6, <2>8 DEF Quiet
<1>6. QED
  BY <1>1, <1>2, <1>3, <1>4, <1>5

\* A quiet step keeps the invariant.
LEMMA QuietKeeps == ASSUME IInv, Quiet PROVE IInv'
<1> USE DEF IInv
<1>1. Shape'
  BY DEF Quiet, Shape, RequestsMade, Voided
<1>2. CallsNumbered'
  BY DEF Quiet, CallsNumbered
<1>3. DryRunsOver'
  <2>1. \A p \in Panel : panels'[p].dryRun \in {panels[p].dryRun, 0}
    BY DEF Quiet, Voided
  <2>2. QED
    BY <2>1 DEF Quiet, DryRunsOver, Shape
<1>4. PreparedByDryRun'
  BY DEF Quiet, Voided, PreparedByDryRun
<1>5. TickedWhatIsShown'
  BY DEF Quiet, Voided, TickedWhatIsShown
<1>6. NotYetAsked'
  <2> SUFFICES ASSUME NEW p \in Panel, panels'[p].phase = "prepared",
                      NEW i \in DOMAIN requests
               PROVE  requests[i].dryRun # panels'[p].dryRun
    BY DEF NotYetAsked, Quiet
  <2>1. CASE panels'[p] = panels[p]
    BY <2>1 DEF NotYetAsked
  <2>2. CASE Voided(p)
    BY <2>2 DEF Voided, Shape
  <2>3. QED
    BY <2>1, <2>2 DEF Quiet
<1>7. OneRequestPerDryRun'
  BY DEF Quiet, OneRequestPerDryRun
<1>8. BusyPanelHasACall'
  BY DEF Quiet, Voided, BusyPanelHasACall
<1>9. AmountShownWithItsClaim'
  BY DEF Quiet, Voided, AmountShownWithItsClaim, Panel
<1>10. QED
  BY <1>1, <1>2, <1>3, <1>4, <1>5, <1>6, <1>7, <1>8, <1>9

-----------------------------------------------------------------------------
(* Steps that end a call.                                                  *)

\* A panel that keeps the invariant when call ends and leaves it.
FitPanel(call, new) ==
    /\ DOMAIN new = PanelFields
    /\ new.phase \notin {"preparing", "submitting"}
    /\ new.dryRun \in {panels[call.panel].dryRun, 0, call.id}
    /\ new.phase = "prepared" => new.dryRun = call.id
    /\ new.prepared # None <=> new.dryRun # 0
    /\ new.acknowledged => reviewed[call.panel] = new.dryRun
    /\ call.panel = "claim" => (new.publicAmount # 0 <=> new.prepared # None)

\* The end of a call keeps the invariant when it leaves such a panel.
LEMMA CallEndKeeps ==
    ASSUME IInv, NEW call \in calls, NEW new, FitPanel(call, new),
           calls' = calls \ {call}, panels' = [panels EXCEPT ![call.panel] = new],
           UNCHANGED <<called, reviewed, requests>>
    PROVE  IInv'
<1> USE DEF IInv
<1> DEFINE p == call.panel
<1>1. /\ p \in Panel /\ DOMAIN panels' = Panel /\ panels'[p] = new
      /\ \A q \in Panel \ {p} : panels'[q] = panels[q]
  BY DEF Shape
<1>2. Shape'
  BY <1>1 DEF Shape, FitPanel, RequestsMade
<1>3. CallsNumbered'
  BY DEF CallsNumbered
<1>4. DryRunsOver'
  <2>1. \A d \in calls' : d.id # call.id /\ d \in calls /\ d.id # 0
    BY DEF CallsNumbered, Shape
  <2>2. \A q \in Panel : panels'[q].dryRun \in {panels[q].dryRun, 0, call.id}
    BY <1>1 DEF FitPanel
  <2>3. ASSUME NEW q \in Panel \ {p}, panels'[p].dryRun = panels'[q].dryRun
        PROVE  panels'[p].dryRun = 0
    BY <1>1, <2>3 DEF FitPanel, DryRunsOver
  <2>4. \A d \in calls' : \A q \in Panel : panels'[q].dryRun # d.id
    BY <2>1, <2>2 DEF DryRunsOver
  <2>5. \A d \in calls' : \A i \in DOMAIN requests' : requests'[i].dryRun # d.id
    BY <2>1 DEF DryRunsOver
  <2>6. ASSUME NEW q \in Panel, NEW r \in Panel, panels'[q].dryRun = panels'[r].dryRun
        PROVE  q = r \/ panels'[q].dryRun = 0
    BY <1>1, <2>3, <2>6 DEF DryRunsOver
  <2>7. QED
    BY <2>4, <2>5, <2>6 DEF DryRunsOver
<1>5. PreparedByDryRun'
  BY <1>1 DEF PreparedByDryRun, FitPanel
<1>6. TickedWhatIsShown'
  BY <1>1 DEF TickedWhatIsShown, FitPanel
<1>7. NotYetAsked'
  BY <1>1 DEF NotYetAsked, FitPanel, DryRunsOver
<1>8. OneRequestPerDryRun'
  BY DEF OneRequestPerDryRun
<1>9. BusyPanelHasACall'
  <2>1. \A q \in Panel : panels'[q].phase \in {"preparing", "submitting"} =>
           q # p /\ panels'[q] = panels[q]
    BY <1>1 DEF FitPanel
  <2>2. QED
    BY <2>1 DEF BusyPanelHasACall
<1>10. AmountShownWithItsClaim'
  BY <1>1 DEF AmountShownWithItsClaim, FitPanel, Panel
<1>11. QED
  BY <1>2, <1>3, <1>4, <1>5, <1>6, <1>7, <1>8, <1>9, <1>10

\* What the adapter prepares is never nothing.
LEMMA SomeActions == ASSUME NEW p, NEW input PROVE Actions(p, input) # None
  BY DEF Actions, None, BuildWinnerClaimActions, BuildPrivateDepositActions

\* A dry run that passed leaves its actions, unticked, and for a claim the amount
\* the escrow was found to hold.
LEMMA DryRunPassedKeeps ==
    ASSUME IInv, NEW call \in calls, DryRunPassed(call)
    PROVE  IInv'
<1> DEFINE input == Input(call.panel, call.fields, call.account)
<1>1. PICK amount \in IF call.panel = "deposit" THEN {0}
                      ELSE {r.amount : r \in {r \in EscrowRecords : EscrowAllowsClaim(input, r)}} :
         panels' = [panels EXCEPT ![call.panel] =
                       PreparedBy(@, Actions(call.panel, input), call.id, amount)]
  BY DEF DryRunPassed
<1>2. call.panel = "claim" => amount # 0
  BY <1>1 DEF EscrowAllowsClaim, RequireU128
<1> DEFINE actions == Actions(call.panel, input)
           new == PreparedBy(panels[call.panel], actions, call.id, amount)
<1>3. actions # None
  BY SomeActions
<1>4. /\ calls' = calls \ {call} /\ panels' = [panels EXCEPT ![call.panel] = new]
      /\ UNCHANGED <<called, reviewed, requests>>
  BY <1>1 DEF DryRunPassed, walletVars
<1> HIDE DEF actions
<1>5. /\ DOMAIN new = PanelFields /\ new.prepared = actions /\ new.dryRun = call.id
      /\ new.publicAmount = amount /\ new.acknowledged = FALSE /\ new.phase = "prepared"
  BY DEF PreparedBy, PanelFields, IInv, Shape
<1> HIDE DEF new
<1>6. call.id # 0
  BY DEF IInv, Shape
<1>7. FitPanel(call, new)
  BY <1>2, <1>3, <1>5, <1>6 DEF FitPanel
<1>8. QED
  BY <1>4, <1>7, CallEndKeeps

\* A dry run that failed voids what was under review.
LEMMA DryRunFailedKeeps ==
    ASSUME IInv, NEW call \in calls, DryRunFailed(call)
    PROVE  IInv'
<1> DEFINE dropped == Dropped(panels[call.panel])
           new == [dropped EXCEPT !.publicAmount = 0, !.phase = "blocked"]
<1>1. /\ calls' = calls \ {call} /\ panels' = [panels EXCEPT ![call.panel] = new]
      /\ UNCHANGED <<called, reviewed, requests>>
  BY DEF DryRunFailed, walletVars
<1>2. /\ DOMAIN dropped = PanelFields
      /\ dropped.prepared = None /\ dropped.dryRun = 0 /\ dropped.acknowledged = FALSE
  BY DroppedPanel DEF IInv, Shape
<1> HIDE DEF dropped
<1>3. /\ DOMAIN new = PanelFields /\ new.prepared = None /\ new.dryRun = 0
      /\ new.publicAmount = 0 /\ new.acknowledged = FALSE /\ new.phase = "blocked"
  BY <1>2 DEF PanelFields
<1> HIDE DEF new
<1>4. FitPanel(call, new)
  BY <1>3 DEF FitPanel
<1>5. QED
  BY <1>1, <1>4, CallEndKeeps

\* The wallet's answer changes the phase of its panel and nothing else.
LEMMA SignatureAnsweredKeeps ==
    ASSUME IInv, NEW call \in calls, SignatureAnswered(call)
    PROVE  IInv'
<1>1. PICK phase \in {"submitted", "blocked"} :
         panels' = [panels EXCEPT ![call.panel] = [@ EXCEPT !.phase = phase]]
  BY DEF SignatureAnswered, RequestFailed
<1> DEFINE old == panels[call.panel]
           new == [old EXCEPT !.phase = phase]
<1>2. /\ calls' = calls \ {call} /\ panels' = [panels EXCEPT ![call.panel] = new]
      /\ UNCHANGED <<called, reviewed, requests>>
  BY <1>1 DEF SignatureAnswered, walletVars
<1>3. /\ DOMAIN old = PanelFields
      /\ old.prepared # None <=> old.dryRun # 0
      /\ old.acknowledged => reviewed[call.panel] = old.dryRun
      /\ call.panel = "claim" => (old.publicAmount # 0 <=> old.prepared # None)
  BY DEF IInv, Shape, PreparedByDryRun, TickedWhatIsShown, AmountShownWithItsClaim
<1>4. old.dryRun = panels[call.panel].dryRun
  OBVIOUS
<1> HIDE DEF old
<1>5. /\ DOMAIN new = PanelFields /\ new.prepared = old.prepared /\ new.dryRun = old.dryRun
      /\ new.publicAmount = old.publicAmount /\ new.acknowledged = old.acknowledged
      /\ new.phase = phase
  BY <1>3 DEF PanelFields
<1> HIDE DEF new
<1>6. FitPanel(call, new)
  BY <1>3, <1>4, <1>5 DEF FitPanel
<1>7. QED
  BY <1>2, <1>6, CallEndKeeps

-----------------------------------------------------------------------------
(* Steps of the review.                                                    *)

\* Ticking the checkbox records the dry run on show.
LEMMA AcknowledgeKeeps ==
    ASSUME IInv, NEW p \in Panel, Acknowledge(p)
    PROVE  IInv'
<1> USE DEF IInv
<1>1. /\ panels[p].phase = "prepared"
      /\ panels' = [panels EXCEPT ![p].acknowledged = ~@]
      /\ reviewed' = [reviewed EXCEPT ![p] = panels[p].dryRun]
      /\ UNCHANGED <<calls, called, requests>>
  BY DEF Acknowledge, walletVars
<1>2. /\ DOMAIN panels' = Panel /\ DOMAIN reviewed' = Panel
      /\ reviewed'[p] = panels[p].dryRun
      /\ \A q \in Panel : /\ DOMAIN panels'[q] = PanelFields
                          /\ panels'[q].prepared = panels[q].prepared
                          /\ panels'[q].dryRun = panels[q].dryRun
                          /\ panels'[q].publicAmount = panels[q].publicAmount
                          /\ panels'[q].phase = panels[q].phase
      /\ \A q \in Panel \ {p} : panels'[q] = panels[q] /\ reviewed'[q] = reviewed[q]
  BY <1>1 DEF Shape, PanelFields
<1>3. Shape' /\ CallsNumbered'
  BY <1>1, <1>2 DEF Shape, CallsNumbered, RequestsMade
<1>4. DryRunsOver' /\ PreparedByDryRun' /\ NotYetAsked'
  BY <1>1, <1>2 DEF DryRunsOver, PreparedByDryRun, NotYetAsked
<1>5. TickedWhatIsShown'
  BY <1>2 DEF TickedWhatIsShown
<1>6. OneRequestPerDryRun' /\ BusyPanelHasACall' /\ AmountShownWithItsClaim'
  BY <1>1, <1>2 DEF OneRequestPerDryRun, BusyPanelHasACall, AmountShownWithItsClaim, Panel
<1>7. QED
  BY <1>3, <1>4, <1>5, <1>6

\* What both buttons do: a call with a new number starts, and its panel waits.
Begins(p, call) ==
    /\ called' = called + 1 /\ calls' = calls \cup {call}
    /\ call.id = called' /\ call.panel = p
    /\ DOMAIN panels' = Panel
    /\ \A q \in Panel : /\ DOMAIN panels'[q] = PanelFields
                        /\ panels'[q].prepared = panels[q].prepared
                        /\ panels'[q].dryRun = panels[q].dryRun
                        /\ panels'[q].publicAmount = panels[q].publicAmount
                        /\ panels'[q].acknowledged = panels[q].acknowledged
    /\ \A q \in Panel \ {p} : panels'[q] = panels[q]
    /\ \/ panels'[p].phase = "preparing" /\ call.kind = "prepare"
       \/ panels'[p].phase = "submitting" /\ call.kind = "submit"
    /\ reviewed' = reviewed

\* What follows from that, whatever becomes of the requests.
LEMMA BeginKeeps ==
    ASSUME IInv, NEW p \in Panel, NEW call, Begins(p, call)
    PROVE  /\ called' \in Nat /\ DOMAIN panels' = Panel /\ DOMAIN reviewed' = Panel
           /\ \A q \in Panel :
                 DOMAIN panels'[q] = PanelFields /\ panels'[q].dryRun \in 0..called'
           /\ \A c \in calls' : c.panel \in Panel /\ c.id \in 1..called'
           /\ \A c \in calls' : \A q \in Panel : panels'[q].dryRun # c.id
           /\ \A q, r \in Panel :
                 panels'[q].dryRun = panels'[r].dryRun => q = r \/ panels'[q].dryRun = 0
           /\ CallsNumbered' /\ PreparedByDryRun' /\ TickedWhatIsShown'
           /\ BusyPanelHasACall' /\ AmountShownWithItsClaim'
<1> USE DEF IInv
<1>1. /\ called' \in Nat /\ DOMAIN panels' = Panel /\ DOMAIN reviewed' = Panel
      /\ \A q \in Panel :
            DOMAIN panels'[q] = PanelFields /\ panels'[q].dryRun \in 0..called'
      /\ \A c \in calls' : c.panel \in Panel /\ c.id \in 1..called'
  BY DEF Begins, Shape
<1>2. CallsNumbered'
  BY DEF Begins, Shape, CallsNumbered
<1>3. \A c \in calls' : \A q \in Panel : panels'[q].dryRun # c.id
  BY DEF Begins, Shape, DryRunsOver
<1>4. \A q, r \in Panel :
         panels'[q].dryRun = panels'[r].dryRun => q = r \/ panels'[q].dryRun = 0
  BY DEF Begins, DryRunsOver
<1>5. PreparedByDryRun' /\ TickedWhatIsShown'
  BY DEF Begins, PreparedByDryRun, TickedWhatIsShown
<1>6. BusyPanelHasACall'
  BY DEF Begins, BusyPanelHasACall
<1>7. AmountShownWithItsClaim'
  BY DEF Begins, AmountShownWithItsClaim, Panel
<1>8. QED
  BY <1>1, <1>2, <1>3, <1>4, <1>5, <1>6, <1>7

\* A dry run begins.
LEMMA PrepareKeeps ==
    ASSUME IInv, NEW p \in Panel, Prepare(p)
    PROVE  IInv'
<1> USE DEF IInv
<1> DEFINE call == [kind |-> "prepare", panel |-> p, id |-> called', prepared |-> None,
                    fields |-> panels[p].fields, account |-> account["SN_SEPOLIA"]]
<1>1. call.kind = "prepare" /\ call.panel = p /\ call.id = called'
  OBVIOUS
<1>2. called' = called + 1 /\ calls' = calls \cup {call} /\ UNCHANGED <<reviewed, requests>>
  BY DEF Prepare, Counted
<1> HIDE DEF call
<1>3. panels' = [panels EXCEPT ![p].phase = "preparing"]
  BY DEF Prepare
<1>4. Begins(p, call)
  BY <1>1, <1>2, <1>3 DEF Begins, Shape, PanelFields
<1>5. Shape'
  BY <1>2, <1>4, BeginKeeps DEF Shape, RequestsMade
<1>6. DryRunsOver'
  BY <1>1, <1>2, <1>4, BeginKeeps DEF DryRunsOver, Shape
<1>7. NotYetAsked'
  BY <1>2, <1>3 DEF NotYetAsked, Shape, PanelFields
<1>8. OneRequestPerDryRun'
  BY <1>2 DEF OneRequestPerDryRun
<1>9. QED
  BY <1>4, <1>5, <1>6, <1>7, <1>8, BeginKeeps

\* The wallet is asked for a signature: of acknowledged actions that it never saw.
LEMMA RequestSignatureKeeps ==
    ASSUME IInv, NEW p \in Panel, RequestSignature(p)
    PROVE  IInv'
<1> USE DEF IInv
<1> DEFINE call == [kind |-> "submit", panel |-> p, id |-> called',
                    prepared |-> panels[p].prepared, fields |-> panels[p].fields,
                    account |-> account["SN_SEPOLIA"]]
           request == [panel |-> p, dryRun |-> panels[p].dryRun, reviewed |-> reviewed[p],
                       actions |-> panels[p].prepared,
                       shown |-> Input(p, panels[p].fields, account["SN_SEPOLIA"])]
<1>1. call.kind = "submit" /\ call.panel = p /\ call.id = called'
  OBVIOUS
<1>2. request.dryRun = panels[p].dryRun /\ request.reviewed = reviewed[p]
  OBVIOUS
<1>3. /\ called' = called + 1 /\ calls' = calls \cup {call} /\ reviewed' = reviewed
      /\ requests' = Append(requests, request)
      /\ panels' = [panels EXCEPT ![p].phase = "submitting"]
      /\ panels[p].phase = "prepared" /\ panels[p].acknowledged /\ panels[p].prepared # None
  BY DEF RequestSignature, Counted, CanSubmit
<1> HIDE DEF call, request
<1>4. Begins(p, call)
  BY <1>1, <1>3 DEF Begins, Shape, PanelFields
<1>5. request.dryRun \in 1..called /\ request.reviewed = request.dryRun
  BY <1>2, <1>3 DEF Shape, PreparedByDryRun, TickedWhatIsShown
<1>6. \A i \in DOMAIN requests : requests[i].dryRun # request.dryRun
  BY <1>2, <1>3 DEF NotYetAsked
<1>7. /\ requests' \in Seq(RequestsMade \cup {request})
      /\ DOMAIN requests' = 1..(Len(requests) + 1)
      /\ DOMAIN requests = 1..Len(requests) /\ Len(requests) \in Nat
      /\ \A i \in DOMAIN requests : requests'[i] = requests[i]
      /\ requests'[Len(requests) + 1] = request
  <2>1. requests \in Seq(RequestsMade \cup {request}) /\ request \in RequestsMade \cup {request}
    BY DEF Shape
  <2>2. QED
    BY <1>3, <2>1, AppendProperties, LenProperties
<1>8. \A i \in DOMAIN requests' :
         \/ i \in DOMAIN requests /\ requests'[i] = requests[i]
         \/ i = Len(requests) + 1 /\ requests'[i] = request
  BY <1>7
<1>9. requests' \in Seq(RequestsMade')
  <2>1. DOMAIN requests' = 1..Len(requests')
    BY <1>7, LenProperties
  <2>2. \A i \in 1..Len(requests') : requests'[i] \in RequestsMade'
    BY <2>1 DEF RequestsMade
  <2>3. QED
    BY <1>7, <2>2, SeqDef, LenProperties
<1>10. Shape'
  BY <1>3, <1>4, <1>5, <1>8, <1>9, BeginKeeps DEF Shape
<1>11. DryRunsOver'
  <2>1. \A c \in calls' : \A i \in DOMAIN requests' : requests'[i].dryRun # c.id
    BY <1>1, <1>2, <1>3, <1>5, <1>8 DEF DryRunsOver, Shape
  <2>2. QED
    BY <1>4, <2>1, BeginKeeps DEF DryRunsOver
<1>12. NotYetAsked'
  <2> SUFFICES ASSUME NEW q \in Panel, panels'[q].phase = "prepared",
                      NEW i \in DOMAIN requests'
               PROVE  requests'[i].dryRun # panels'[q].dryRun
    BY DEF NotYetAsked
  <2>1. q # p /\ panels'[q] = panels[q]
    BY <1>3 DEF Shape, PanelFields
  <2>2. request.dryRun # panels[q].dryRun
    BY <1>2, <1>5, <2>1 DEF DryRunsOver
  <2>3. QED
    BY <1>8, <2>1, <2>2 DEF NotYetAsked
<1>13. OneRequestPerDryRun'
  <2>1. \A i \in DOMAIN requests' : requests'[i].reviewed = requests'[i].dryRun
    BY <1>5, <1>8 DEF OneRequestPerDryRun
  <2>2. ASSUME NEW i \in DOMAIN requests', NEW j \in DOMAIN requests',
               requests'[i].dryRun = requests'[j].dryRun
        PROVE  i = j
    BY <1>6, <1>8, <2>2 DEF OneRequestPerDryRun
  <2>3. QED
    BY <2>1, <2>2 DEF OneRequestPerDryRun
<1>14. QED
  BY <1>4, <1>10, <1>11, <1>12, <1>13, BeginKeeps

-----------------------------------------------------------------------------
(* The theorems.                                                           *)

\* The page opens with two empty panels and no call.
LEMMA InitInv == Init => IInv
<1> SUFFICES ASSUME Init PROVE IInv
  OBVIOUS
<1>1. /\ DOMAIN panels = Panel
      /\ \A p \in Panel : /\ DOMAIN panels[p] = PanelFields
                          /\ panels[p].phase = "disconnected" /\ panels[p].prepared = None
                          /\ panels[p].dryRun = 0 /\ panels[p].publicAmount = 0
                          /\ panels[p].acknowledged = FALSE
  BY DEF Init, PanelFields
<1>2. /\ calls = {} /\ called = 0 /\ DOMAIN reviewed = Panel
      /\ requests \in Seq(RequestsMade) /\ DOMAIN requests = {}
  BY EmptySeq DEF Init
<1>3. QED
  BY <1>1, <1>2 DEF IInv, Shape, CallsNumbered, DryRunsOver, PreparedByDryRun,
                    TickedWhatIsShown, NotYetAsked, OneRequestPerDryRun, BusyPanelHasACall,
                    AmountShownWithItsClaim, Panel

\* Every step keeps the invariant.
LEMMA NextInv == IInv /\ [Next]_vars => IInv'
<1> SUFFICES ASSUME IInv, [Next]_vars PROVE IInv'
  OBVIOUS
<1>1. CASE \/ CheckCapabilities \/ SelectWallet
           \/ \E network \in Networks : Connect(network) \/ AccountChanged(network)
           \/ ConnectedMainnet \/ ConnectedSepolia
           \/ \E p \in Panel : UpdateField(p)
           \/ UNCHANGED vars
  BY <1>1, QuietSteps, QuietKeeps DEF IInv
<1>2. ASSUME NEW p \in Panel, Prepare(p) \/ Acknowledge(p) \/ RequestSignature(p)
      PROVE  IInv'
  BY <1>2, PrepareKeeps, AcknowledgeKeeps, RequestSignatureKeeps
<1>3. ASSUME NEW call \in calls,
             DryRunPassed(call) \/ DryRunFailed(call) \/ SignatureAnswered(call)
      PROVE  IInv'
  BY <1>3, DryRunPassedKeeps, DryRunFailedKeeps, SignatureAnsweredKeeps
<1>4. QED
  BY <1>1, <1>2, <1>3 DEF Next

\* The inductive invariant holds of every reachable state.
THEOREM InvCorrect == Spec => []IInv
  BY InitInv, NextInv, PTL DEF Spec

\* However late dry runs, edits and account changes interleave, each request to sign
\* follows a dry run of its own, acknowledged after it ended.
THEOREM OneRequestCorrect == Spec => []OneRequestPerDryRun
<1>1. IInv => OneRequestPerDryRun
  BY DEF IInv
<1>2. QED
  BY <1>1, InvCorrect, PTL

\* A panel that waits has a running call that will end the wait.
THEOREM BusyCorrect == Spec => []BusyPanelHasACall
<1>1. IInv => BusyPanelHasACall
  BY DEF IInv
<1>2. QED
  BY <1>1, InvCorrect, PTL

\* The claim panel shows an open-note amount exactly while it holds the actions the
\* amount was looked up for.
THEOREM AmountCorrect == Spec => []AmountShownWithItsClaim
<1>1. IInv => AmountShownWithItsClaim
  BY DEF IInv
<1>2. QED
  BY <1>1, InvCorrect, PTL

=============================================================================
