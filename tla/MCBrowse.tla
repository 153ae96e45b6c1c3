------------------------------ MODULE MCBrowse ------------------------------
(* A month turns between the two ticks of the clock: a February of 29 days *)
(* for Graph, and the year for Gmail, whose days begin half a day late.    *)
(* One message is a receipt with its PDF, the other an offer, whose Date   *)
(* header is a tick early and which the narrowing filter does not match    *)
(* though Gmail finds it.  The web lists one message, a command two, and a *)
(* page of the provider holds one.                                         *)
EXTENDS Browse

CONSTANTS w1, a1, receipt, offer, whole, narrowed

OneWorker == {w1}
OneAccount == {a1}
TwoMessages == {receipt, offer}
TwoFilters == {whole, narrowed}

Signal(media, keywords, amount, vendor, marketing, calendar) ==
    [media |-> media, keywords |-> keywords, amount |-> amount,
     vendor |-> vendor, marketing |-> marketing, calendar |-> calendar]
TheirSignals ==
    [m \in TwoMessages |->
        CASE m = receipt -> Signal(TRUE, 1, FALSE, FALSE, FALSE, FALSE)
          [] m = offer -> Signal(FALSE, 2, FALSE, FALSE, TRUE, FALSE)]

HeadersMatching ==
    [f \in TwoFilters |-> IF f = whole THEN TwoMessages ELSE {receipt}]
EverythingFound == [f \in TwoFilters |-> TwoMessages]
SentEarly == [m \in TwoMessages |-> IF m = offer THEN 1 ELSE 0]

TheSites ==
    {[provider |-> "graph", origin |-> datetime(2024, 2, 29, 1), process |-> p] :
        p \in {"web", "command"}}
    \cup
    {[provider |-> "gmail", origin |-> datetime(2023, 12, 31, 1), process |-> p] :
        p \in {"web", "command"}}
Changes == [web |-> 2, command |-> 3]
TheMonths == {Month(2023, 12), Month(2024, 1), Month(2024, 2),
              Month(2024, 3), Month(2024, 13)}
=============================================================================
