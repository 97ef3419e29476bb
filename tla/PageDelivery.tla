---------------------------- MODULE PageDelivery ----------------------------
(***************************************************************************)
(* What libbrscan's RunScan promises its caller (the ScanResult, ScanBand  *)
(* and streaming-overload contracts of libbrscan/include/brscan/scanner.h),*)
(* whatever the wire format: the bands of a page reproduce it, pages come  *)
(* back whole and in document order, and a scan that fails hands back none.*)
(***************************************************************************)
EXTENDS Integers, Sequences

CONSTANT Pages      \* page indices

VARIABLES
    streaming,  \* the caller passed an on_band callback
    shown,      \* per page, the rows on_band has been given, in arrival order
    complete,   \* the pages that have fully arrived
    image,      \* per complete page, its rows
    result,     \* "running", or what the call returned
    out         \* the pages handed back

vars == <<streaming, shown, complete, image, result, out>>

Results == {"ok", "cancelled", "timeout", "io", "protocol"}

\* t continues s.
Extends(t, s) == Len(t) > Len(s) /\ SubSeq(t, 1, Len(s)) = s

Ascending(s) == \A i, j \in DOMAIN s : i < j => s[i] < s[j]

Listed(s) == {s[i] : i \in DOMAIN s}

Init ==
    /\ streaming \in BOOLEAN
    /\ shown = [p \in Pages |-> <<>>]
    /\ complete = {}
    /\ image = [p \in Pages |-> <<>>]
    /\ result = "running"
    /\ out = <<>>

\* One more band of a page that is still arriving.
ShowBand(p) ==
    /\ result = "running" /\ streaming
    /\ p \notin complete
    /\ Extends(shown'[p], shown[p])
    /\ shown' = [shown EXCEPT ![p] = shown'[p]]
    /\ UNCHANGED <<streaming, complete, image, result, out>>

\* A page is complete: the bands shown for it, if any were asked for, are the page.
CompletePage(p) ==
    /\ result = "running"
    /\ p \notin complete
    /\ image'[p] # <<>>
    /\ streaming => image'[p] = shown[p]
    /\ image' = [image EXCEPT ![p] = image'[p]]
    /\ complete' = complete \cup {p}
    /\ UNCHANGED <<streaming, shown, result, out>>

\* The call returns; kOk and kCancelled hand back the complete pages in document order.
ReturnPages ==
    /\ result = "running"
    /\ result' \in {"ok", "cancelled"}
    /\ result' = "ok" => \A p \in Pages : shown[p] # <<>> => p \in complete
    /\ Ascending(out') /\ Listed(out') = complete
    /\ UNCHANGED <<streaming, shown, complete, image>>

ReturnNothing ==
    /\ result = "running"
    /\ result' \in Results \ {"ok", "cancelled"}
    /\ UNCHANGED <<streaming, shown, complete, image, out>>

Next ==
    \/ \E p \in Pages : ShowBand(p) \/ CompletePage(p)
    \/ ReturnPages
    \/ ReturnNothing

Spec == Init /\ [][Next]_vars

=============================================================================
