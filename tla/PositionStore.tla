---------------------------- MODULE PositionStore ----------------------------
(***************************************************************************)
(* The positions a running stock-sentinel server holds, in the two places  *)
(* it keeps them: the in-memory map AppState.positions and the SQLite      *)
(* table `positions'.  Three kinds of actors change them: the background   *)
(* scanner, one task per held symbol and cycle (scan_position), the HTTP   *)
(* handlers that add, remove and evaluate a position, and the process      *)
(* itself, which can stop at any point and reads the table back when it    *)
(* starts again.  Every step of a handler ends where the code awaits, so   *)
(* the actors interleave exactly at the await points.                      *)
(*                                                                         *)
(* A position is the lot a user ordered (its symbol's quantity and the     *)
(* time it was opened are the lot's and never change), its entry price and *)
(* the peak price a trailing stop is measured from.  The price history     *)
(* (memory only) and realized_fraction (always 0 in the running server)    *)
(* are left out, and so is the opened_at column, which nothing reads.      *)
(***************************************************************************)
EXTENDS Integers, Sequences

CONSTANTS
    Symbols,      \* ticker symbols
    Prices,       \* prices a quote or an order can carry
    Clients,      \* HTTP requests that can be in flight at once
    None,         \* no entry in the map, no row in the table
    MaxLots,      \* bound: orders placed in a behaviour
    MaxBatch,     \* bound: orders in one POST /positions
    MaxFaults,    \* bound: failed quotes and failed database calls
    MaxCrashes,   \* bound: times the process stops
    Overlapping   \* TRUE: two requests may work on one symbol at a time

Position == [lot : Nat \ {0}, entry : Prices, peak : Prices]
Order    == [symbol : Symbols, entry : Prices]

ASSUME PricesAssumption  == Prices \subseteq Nat
ASSUME BoundsAssumption  == /\ MaxLots \in Nat /\ MaxBatch \in Nat
                            /\ MaxFaults \in Nat /\ MaxCrashes \in Nat
                            /\ Overlapping \in BOOLEAN
ASSUME NoneAssumption    == None \notin Position

VARIABLES
    up,          \* is the process running?
    positions,   \* AppState.positions: the map, by symbol
    rows,        \* the table positions, by symbol
    scan,        \* the scanner's task for each symbol of the running cycle
    req,         \* the request each client has in flight
    lots,        \* number of orders placed so far
    faults,      \* number of failures so far
    crashes      \* number of crashes so far

vars == <<up, positions, rows, scan, req, lots, faults, crashes>>

(***************************************************************************)
(* A scan task waits for a quote, then has one (and is about to take the   *)
(* map's guard), then holds a clone to write, then runs the pipeline.      *)
(***************************************************************************)
ScanTask ==
         [pc : {"idle", "quote", "evaluate"}]
    \cup [pc : {"snapshot"}, price : Prices]
    \cup [pc : {"upsert"}, snapshot : Position]

(***************************************************************************)
(* An add request works through its orders, orders[i] being the one in     *)
(* hand: "upsert" before the row is written, "insert" between the row and  *)
(* the map.  Its i-th order is lot number base + i.  A remove request has  *)
(* taken the symbol out of the map and is about to delete the row.         *)
(***************************************************************************)
Batches == UNION {[1..n -> Order] : n \in 1..MaxBatch}

Request ==
         [pc : {"idle"}]
    \cup [pc : {"upsert", "insert"}, orders : Seq(Order), base : Nat,
          i : Nat \ {0}]
    \cup [pc : {"delete"}, symbol : Symbols]

Adding(c)   == req[c].pc \in {"upsert", "insert"}
Deleting(c) == req[c].pc = "delete"

(* The order in hand and the Position::new it becomes. *)
InHand(c) == req[c].orders[req[c].i]
NewPosition(c) ==
    [lot |-> req[c].base + req[c].i, entry |-> InHand(c).entry,
     peak |-> InHand(c).entry]

(* The symbols a request still works on, its earlier orders included. *)
Concerns(c) ==
    IF Adding(c) THEN {req[c].orders[k].symbol : k \in DOMAIN req[c].orders}
    ELSE IF Deleting(c) THEN {req[c].symbol} ELSE {}

TypeOK ==
    /\ up \in BOOLEAN
    /\ positions \in [Symbols -> Position \cup {None}]
    /\ rows \in [Symbols -> Position \cup {None}]
    /\ scan \in [Symbols -> ScanTask]
    /\ req \in [Clients -> Request]
    /\ \A c \in Clients : Adding(c) => req[c].i \in DOMAIN req[c].orders
    /\ lots \in Nat /\ faults \in Nat /\ crashes \in Nat

Init ==
    /\ up = TRUE
    /\ positions = [s \in Symbols |-> None]
    /\ rows = [s \in Symbols |-> None]
    /\ scan = [s \in Symbols |-> [pc |-> "idle"]]
    /\ req = [c \in Clients |-> [pc |-> "idle"]]
    /\ lots = 0 /\ faults = 0 /\ crashes = 0

(* A quote or a database call fails. *)
Fault   == faults < MaxFaults /\ faults' = faults + 1
NoFault == UNCHANGED faults

(* Mutant: the peak follows the last price. *)
RecordLastPrice(p, price) == [p EXCEPT !.peak = price]

(* Position::record_price, as far as the peak is concerned. *)
RecordPrice(p, price) ==
    [p EXCEPT !.peak = IF price > p.peak THEN price ELSE p.peak]

(* upsert_position and delete_position once SQLite has executed them. *)
Upsert(s, p) == rows' = [rows EXCEPT ![s] = p]
Delete(s)    == rows' = [rows EXCEPT ![s] = None]

-----------------------------------------------------------------------------
(* The scanner *)

GoTo(s, task) == scan' = [scan EXCEPT ![s] = task]

(* Mutant: the cycle lists the table, not the map. *)
StartCycleFromRows ==
    /\ up
    /\ \A s \in Symbols : scan[s].pc = "idle"
    /\ scan' = [s \in Symbols |->
                  [pc |-> IF rows[s] = None THEN "idle" ELSE "quote"]]
    /\ UNCHANGED <<up, positions, rows, req, lots, faults, crashes>>

(* scan_once spawns one task per symbol in the map, and only when every     *)
(* task of the cycle before has been joined.                                *)
StartCycle ==
    /\ up
    /\ \A s \in Symbols : scan[s].pc = "idle"
    /\ scan' = [s \in Symbols |->
                  [pc |-> IF positions[s] = None THEN "idle" ELSE "quote"]]
    /\ UNCHANGED <<up, positions, rows, req, lots, faults, crashes>>

(* The quote arrives and is recorded in price_history, or either call fails *)
(* and the task ends with the error.                                        *)
ScanQuote(s, price) ==
    /\ up /\ scan[s].pc = "quote"
    /\ \/ NoFault /\ GoTo(s, [pc |-> "snapshot", price |-> price])
       \/ Fault   /\ GoTo(s, [pc |-> "idle"])
    /\ UNCHANGED <<up, positions, rows, req, lots, crashes>>

(* The task takes the map's guard, updates the position and clones it; a    *)
(* position removed in the meantime ends the task.                          *)
ScanSnapshot(s) ==
    /\ up /\ scan[s].pc = "snapshot"
    /\ IF positions[s] = None
       THEN GoTo(s, [pc |-> "idle"]) /\ UNCHANGED positions
       ELSE LET p == RecordPrice(positions[s], scan[s].price)
            IN  /\ positions' = [positions EXCEPT ![s] = p]
                /\ GoTo(s, [pc |-> "upsert", snapshot |-> p])
    /\ UNCHANGED <<up, rows, req, lots, faults, crashes>>

(* The clone is written to the table, whatever the map holds by now.        *)
ScanUpsert(s) ==
    /\ up /\ scan[s].pc = "upsert"
    /\ \/ NoFault /\ Upsert(s, scan[s].snapshot)
                  /\ GoTo(s, [pc |-> "evaluate"])
       \/ Fault   /\ GoTo(s, [pc |-> "idle"]) /\ UNCHANGED rows
    /\ UNCHANGED <<up, positions, req, lots, crashes>>

(* The pipeline runs on the clone, its result is logged and alerted: no     *)
(* position changes.                                                        *)
ScanFinish(s) ==
    /\ up /\ scan[s].pc = "evaluate"
    /\ GoTo(s, [pc |-> "idle"])
    /\ UNCHANGED <<up, positions, rows, req, lots, faults, crashes>>

-----------------------------------------------------------------------------
(* The HTTP handlers *)

Respond(c) == req' = [req EXCEPT ![c] = [pc |-> "idle"]]

(* A client starts a request on a set of symbols. *)
CanStart(c, S) ==
    /\ up /\ req[c].pc = "idle"
    /\ \/ Overlapping
       \/ \A d \in Clients : Concerns(d) \cap S = {}

(* POST /position is a batch of one, POST /positions a batch of any length. *)
AddStart(c, orders) ==
    /\ CanStart(c, {orders[k].symbol : k \in DOMAIN orders})
    /\ lots + Len(orders) <= MaxLots
    /\ req' = [req EXCEPT ![c] = [pc |-> "upsert", orders |-> orders,
                                  base |-> lots, i |-> 1]]
    /\ lots' = lots + Len(orders)
    /\ UNCHANGED <<up, positions, rows, scan, faults, crashes>>

(* Mutant: the error of the row is ignored, as remove_position does. *)
AddUpsertUnchecked(c) ==
    /\ up /\ req[c].pc = "upsert"
    /\ \/ NoFault /\ Upsert(InHand(c).symbol, NewPosition(c))
       \/ Fault /\ UNCHANGED rows
    /\ req' = [req EXCEPT ![c].pc = "insert"]
    /\ UNCHANGED <<up, positions, scan, lots, crashes>>

(* The row is written first; an error answers 500 and drops the orders that *)
(* are left, the earlier ones staying in place.                             *)
AddUpsert(c) ==
    /\ up /\ req[c].pc = "upsert"
    /\ \/ /\ NoFault
          /\ Upsert(InHand(c).symbol, NewPosition(c))
          /\ req' = [req EXCEPT ![c].pc = "insert"]
       \/ Fault /\ Respond(c) /\ UNCHANGED rows
    /\ UNCHANGED <<up, positions, scan, lots, crashes>>

(* Mutant: the loop runs one order past the end of the batch. *)
AddInsertPastEnd(c) ==
    /\ up /\ req[c].pc = "insert"
    /\ positions' = [positions EXCEPT ![InHand(c).symbol] = NewPosition(c)]
    /\ IF req[c].i <= Len(req[c].orders)
       THEN req' = [req EXCEPT ![c].pc = "upsert", ![c].i = @ + 1]
       ELSE Respond(c)
    /\ UNCHANGED <<up, rows, scan, lots, faults, crashes>>

(* ... and the map second. *)
AddInsert(c) ==
    /\ up /\ req[c].pc = "insert"
    /\ positions' = [positions EXCEPT ![InHand(c).symbol] = NewPosition(c)]
    /\ IF req[c].i < Len(req[c].orders)
       THEN req' = [req EXCEPT ![c].pc = "upsert", ![c].i = @ + 1]
       ELSE Respond(c)
    /\ UNCHANGED <<up, rows, scan, lots, faults, crashes>>

(* DELETE /positions/{symbol}: the map first ...                            *)
RemoveStart(c, s) ==
    /\ CanStart(c, {s})
    /\ positions' = [positions EXCEPT ![s] = None]
    /\ req' = [req EXCEPT ![c] = [pc |-> "delete", symbol |-> s]]
    /\ UNCHANGED <<up, rows, scan, lots, faults, crashes>>

(* ... and the row second; the result of the DELETE is thrown away.         *)
RemoveDelete(c) ==
    /\ up /\ Deleting(c)
    /\ \/ NoFault /\ Delete(req[c].symbol)
       \/ Fault /\ UNCHANGED rows
    /\ Respond(c)
    /\ UNCHANGED <<up, positions, scan, lots, crashes>>

(* GET .../signal records the price it was quoted in the map alone.         *)
GetSignal(s, price) ==
    /\ up /\ positions[s] # None
    /\ positions' = [positions EXCEPT ![s] = RecordPrice(@, price)]
    /\ UNCHANGED <<up, rows, scan, req, lots, faults, crashes>>

(* GET .../full-signal does the same before it runs the pipeline.           *)
GetFullSignal(s, price) ==
    /\ up /\ positions[s] # None
    /\ positions' = [positions EXCEPT ![s] = RecordPrice(@, price)]
    /\ UNCHANGED <<up, rows, scan, req, lots, faults, crashes>>

-----------------------------------------------------------------------------
(* The process *)

(* The process stops: the map and whatever is in flight are gone.  A        *)
(* graceful shutdown is the case where nothing is in flight.                *)
Crash ==
    /\ up /\ crashes < MaxCrashes
    /\ up' = FALSE /\ crashes' = crashes + 1
    /\ positions' = [s \in Symbols |-> None]
    /\ scan' = [s \in Symbols |-> [pc |-> "idle"]]
    /\ req' = [c \in Clients |-> [pc |-> "idle"]]
    /\ UNCHANGED <<rows, lots, faults>>

(* Mutant: hydration builds each position anew, its peak at the entry. *)
RestartAtEntry ==
    /\ ~up /\ up' = TRUE
    /\ positions' = [s \in Symbols |->
          IF rows[s] = None THEN None ELSE [rows[s] EXCEPT !.peak = rows[s].entry]]
    /\ UNCHANGED <<rows, scan, req, lots, faults, crashes>>

(* main fills the map from load_all_positions; if that fails it logs the    *)
(* error and serves with an empty map.                                      *)
Restart ==
    /\ ~up /\ up' = TRUE
    /\ \/ NoFault /\ positions' = rows
       \/ Fault   /\ UNCHANGED positions
    /\ UNCHANGED <<rows, scan, req, lots, crashes>>

-----------------------------------------------------------------------------
ScanStep(s) ==
    \/ \E price \in Prices : ScanQuote(s, price)
    \/ ScanSnapshot(s) \/ ScanUpsert(s) \/ ScanFinish(s)

ClientStep(c) == AddUpsert(c) \/ AddInsert(c) \/ RemoveDelete(c)

Next ==
    \/ StartCycle
    \/ \E s \in Symbols, price \in Prices : ScanQuote(s, price)
    \/ \E s \in Symbols : ScanSnapshot(s) \/ ScanUpsert(s) \/ ScanFinish(s)
    \/ \E c \in Clients, orders \in Batches : AddStart(c, orders)
    \/ \E c \in Clients : AddUpsert(c) \/ AddInsert(c)
    \/ \E c \in Clients, s \in Symbols : RemoveStart(c, s)
    \/ \E c \in Clients : RemoveDelete(c)
    \/ \E s \in Symbols, price \in Prices :
          GetSignal(s, price) \/ GetFullSignal(s, price)
    \/ Crash \/ Restart

Spec == Init /\ [][Next]_vars

(* A cycle starts at every tick of an interval that never stops, the        *)
(* runtime polls every woken task, and every external call returns.         *)
Fairness ==
    /\ WF_vars(StartCycle)
    /\ \A s \in Symbols : WF_vars(ScanStep(s))
    /\ \A c \in Clients : WF_vars(ClientStep(c))
    /\ WF_vars(Restart)

FairSpec == Spec /\ Fairness

-----------------------------------------------------------------------------
(* Properties *)

(* A position in the map always has a row, through failed database calls,  *)
(* failed scans and crashes: add_position writes the row before the map,   *)
(* remove_position clears the map before the row.  It needs requests on    *)
(* one symbol not to overlap (Overlapping = FALSE); the README's promise   *)
(* that a restart does not lose positions rests on it.                     *)
CachedIsStored ==
    \A s \in Symbols : positions[s] # None => rows[s] # None

(* While a row describes the same lot, no write lowers its peak: neither a *)
(* scanner writing a clone taken some awaits ago, nor a restart that reads *)
(* the row back and scans again from it.                                   *)
StoredPeakNeverFalls ==
    [][\A s \in Symbols :
          rows[s] # None /\ rows'[s] # None /\ rows[s].lot = rows'[s].lot
              => rows[s].peak <= rows'[s].peak]_vars

(* Once failures and crashes are over and no new order comes, scanning     *)
(* repairs every difference: a stale clone written over a new order, a     *)
(* peak only a signal request saw, a row a concurrent DELETE took away.    *)
ScanConverges ==
    <>[](\A s \in Symbols : positions[s] # None => rows[s] = positions[s])

(* No request and no scan task is at work on s. *)
Quiet(s) ==
    /\ up /\ scan[s].pc = "idle"
    /\ \A c \in Clients : s \notin Concerns(c)

(* README.md:196-199, "written through on every change", for removals: a   *)
(* symbol that is not in the map and that nothing works on has no row.     *)
RemovalWrittenThrough ==
    \A s \in Symbols : Quiet(s) /\ positions[s] = None => rows[s] = None

-----------------------------------------------------------------------------
(* Inductive invariants *)

(* A stopped process has nothing in memory and nothing in flight. *)
StoppedIsIdle ==
    ~up => /\ \A c \in Clients : req[c].pc = "idle"
           /\ \A s \in Symbols : scan[s].pc = "idle" /\ positions[s] = None

(* Why CachedIsStored is inductive when requests do not overlap: an insert *)
(* about to happen has its row, a delete about to happen has left the map, *)
(* and no other request can touch either.                                  *)
SerialInv ==
    /\ CachedIsStored
    /\ StoppedIsIdle
    /\ \A c, d \in Clients : c # d => Concerns(c) \cap Concerns(d) = {}
    /\ \A c \in Clients : req[c].pc = "insert" => rows[InHand(c).symbol] # None
    /\ \A c \in Clients : Deleting(c) => positions[req[c].symbol] = None

(* The lots a request has still to put into the map. *)
Pending(c) ==
    IF Adding(c) THEN (req[c].base + req[c].i)
                        .. (req[c].base + Len(req[c].orders))
    ELSE {}

(* A lot is handed out once and reaches row, map and clone in that order. *)
LotsAreFresh ==
    /\ \A c \in Clients : \A n \in Pending(c) : n <= lots
    /\ \A c, d \in Clients : c # d => Pending(c) \cap Pending(d) = {}

NotPending(p) == p.lot <= lots /\ \A c \in Clients : p.lot \notin Pending(c)

KnownLots(s) ==
    /\ positions[s] # None => NotPending(positions[s])
    /\ scan[s].pc = "upsert" => NotPending(scan[s].snapshot)
    /\ rows[s] # None =>
          /\ rows[s].lot <= lots
          /\ \A c \in Clients :
                rows[s].lot \in Pending(c) =>
                    req[c].pc = "insert" /\ rows[s].lot = NewPosition(c).lot

(* Of one lot, the row lags behind the scanner's clone, the clone behind   *)
(* the map: every write carries a peak at least as high as the row's.      *)
Behind(p, q) == (p # None /\ p.lot = q.lot) => p.peak <= q.peak

RowLagsBehind(s) ==
    /\ positions[s] # None => Behind(rows[s], positions[s])
    /\ scan[s].pc = "upsert" => Behind(rows[s], scan[s].snapshot)
    /\ (scan[s].pc = "upsert" /\ positions[s] # None)
          => Behind(scan[s].snapshot, positions[s])
    /\ \A c \in Clients : Adding(c) => Behind(rows[s], NewPosition(c))

PeakInv ==
    /\ StoppedIsIdle
    /\ LotsAreFresh
    /\ \A s \in Symbols : KnownLots(s) /\ RowLagsBehind(s)
=============================================================================
