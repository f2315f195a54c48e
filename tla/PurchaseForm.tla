----------------------------- MODULE PurchaseForm -----------------------------
(***************************************************************************)
(* The form that records a purchase and its one-time token, which is kept  *)
(* in the session.  A request works on a copy of the session: it loads it, *)
(* takes the token out, records the purchase, and the session is stored    *)
(* with the response.  A page is known by its token.  Pages stay about, in *)
(* other tabs and behind the back button, and are sent again at any time.  *)
(* The other pages of the session work on a copy of it too, and the ones   *)
(* that change anything of it store the whole copy, its token included.    *)
(*                                                                         *)
(* The movement itself is that of module StockLedger, in one step here.    *)
(***************************************************************************)
EXTENDS Integers

CONSTANTS
    Desks,          \* who serves the requests of the session
    MaxForms,       \* bound: tokens issued
    MaxPurchases,   \* bound: purchases from one page
    Idle

\* The pages, by their tokens.
Sheets == 1..MaxForms

\* A request for a page, or for something else with the token in its copy.
DeskRows == [form : Sheets, step : {"record", "refuse", "answer"}]
              \cup [form : 0..MaxForms, step : {"other"}]

ASSUME FormsAssumption == MaxForms \in Nat /\ Idle \notin DeskRows

VARIABLES
    issued,         \* the token issued last
    kept,           \* the token in the stored session, 0 for none
    desk,           \* what each request has come to
    recorded,       \* how many purchases each page has become
    excused         \* pages whose token was in a second copy of the session while
                    \* a request recorded them, or whose request ended between
                    \* purchase and response

formVars == <<issued, kept, desk, recorded, excused>>

FormInit ==
    /\ issued = 0
    /\ kept = 0
    /\ desk = [d \in Desks |-> Idle]
    /\ recorded = [f \in Sheets |-> 0]
    /\ excused = {}

AtStep(d, step) == desk[d] # Idle /\ desk[d].step = step

\* A request records this page and has not answered yet.
Recording(f) == \E d \in Desks : (AtStep(d, "record") \/ AtStep(d, "answer")) /\ desk[d].form = f

\* A request has loaded this token to store it again.
Copied(f) == \E d \in Desks : AtStep(d, "other") /\ desk[d].form = f

\* issue_purchase_submission_token, and the response that stores it.
Issue == /\ issued < MaxForms
         /\ issued' = issued + 1
         /\ kept' = issued + 1

\* The form is opened.
OpenForm == Issue /\ UNCHANGED <<desk, recorded, excused>>

\* Mutant: that there is a token is enough.
ConsumedAny(f) == kept # 0

\* consume_purchase_submission_token, in the copy the request has loaded.
Consumed(f) == kept = f

\* A page is sent.
Submit(d, f) ==
    /\ f <= issued
    /\ desk[d] = Idle
    /\ desk' = [desk EXCEPT ![d] =
          [form |-> f, step |-> IF Consumed(f) THEN "record" ELSE "refuse"]]
    /\ excused' = IF Consumed(f) /\ (Recording(f) \/ Copied(f)) THEN excused \cup {f} ELSE excused
    /\ UNCHANGED <<issued, kept, recorded>>

\* record_purchase_stock_in
RecordPurchase(d) ==
    /\ AtStep(d, "record")
    /\ recorded[desk[d].form] < MaxPurchases
    /\ desk' = [desk EXCEPT ![d].step = "answer"]
    /\ recorded' = [recorded EXCEPT ![desk[d].form] = @ + 1]
    /\ UNCHANGED <<issued, kept, excused>>

\* Mutant: the copy without the token is not stored.
SpentNever == kept

\* The stored session after the token was taken out.
Spent == 0

\* The redirect to the recorded purchase.
AnswerRecorded(d) ==
    /\ AtStep(d, "answer")
    /\ desk' = [desk EXCEPT ![d] = Idle]
    /\ kept' = Spent
    /\ UNCHANGED <<issued, recorded, excused>>

\* The form again, with a fresh token: it was sent before, or is not valid.
AnswerRefused(d) ==
    /\ AtStep(d, "refuse") \/ AtStep(d, "record")
    /\ Issue
    /\ desk' = [desk EXCEPT ![d] = Idle]
    /\ UNCHANGED <<recorded, excused>>

\* set_delivery_location_view, clear_delivery_location_view, google_start and
\* google_callback: a request for something else changes its copy of the
\* session.
OtherBegins(d) ==
    /\ desk[d] = Idle
    /\ desk' = [desk EXCEPT ![d] = [form |-> kept, step |-> "other"]]
    /\ excused' = IF Recording(kept) THEN excused \cup {kept} ELSE excused
    /\ UNCHANGED <<issued, kept, recorded>>

\* Its response stores the whole copy.
OtherAnswered(d) ==
    /\ AtStep(d, "other")
    /\ kept' = desk[d].form
    /\ desk' = [desk EXCEPT ![d] = Idle]
    /\ UNCHANGED <<issued, recorded, excused>>

\* The worker is stopped: what is committed stays, the session is not stored.
DeskLost(d) ==
    /\ desk[d] # Idle
    /\ desk' = [desk EXCEPT ![d] = Idle]
    /\ excused' = IF AtStep(d, "answer") THEN excused \cup {desk[d].form} ELSE excused
    /\ UNCHANGED <<issued, kept, recorded>>

FormNext ==
    \/ OpenForm
    \/ \E d \in Desks :
         \/ \E f \in Sheets : Submit(d, f)
         \/ RecordPurchase(d) \/ AnswerRecorded(d) \/ AnswerRefused(d)
         \/ OtherBegins(d) \/ OtherAnswered(d) \/ DeskLost(d)
=============================================================================
