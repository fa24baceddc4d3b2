------------------------- MODULE PositionStoreProofs -------------------------
(***************************************************************************)
(* What holds of PositionStore for every set of symbols, prices and        *)
(* clients and for every bound.                                            *)
(***************************************************************************)
EXTENDS PositionStore, TLAPS

-----------------------------------------------------------------------------
(* Types *)

(* A batch of a POST request is a sequence of orders, and not an empty one. *)
LEMMA BatchIsSequence ==
    ASSUME NEW orders \in Batches
    PROVE  orders \in Seq(Order) /\ 1 \in DOMAIN orders
  <1>1. PICK n \in 1..MaxBatch : orders \in [1..n -> Order]
    BY DEF Batches
  <1>2. n \in Nat
    BY <1>1, BoundsAssumption
  <1>. QED
    BY <1>1, <1>2

(* What a request in hand consists of, by the step it is at. *)
LEMMA RequestShape ==
    ASSUME TypeOK, NEW c \in Clients
    PROVE  /\ Adding(c) =>
                /\ req[c] = [pc |-> req[c].pc, orders |-> req[c].orders,
                             base |-> req[c].base, i |-> req[c].i]
                /\ req[c].orders \in Seq(Order) /\ req[c].base \in Nat
                /\ req[c].i \in Nat \ {0}
                /\ req[c].i \in 1..Len(req[c].orders)
                /\ InHand(c) \in Order
                /\ NewPosition(c) \in Position
           /\ Deleting(c) => req[c].symbol \in Symbols
  <1>1. req[c] \in Request
    BY DEF TypeOK
  <1>2. CASE Adding(c)
    <2>1. req[c] \in [pc : {"upsert", "insert"}, orders : Seq(Order),
                      base : Nat, i : Nat \ {0}]
      BY <1>1, <1>2 DEF Request, Adding
    <2>2. req[c].i \in DOMAIN req[c].orders
      BY <1>2 DEF TypeOK
    <2>3. req[c].i \in 1..Len(req[c].orders)
      BY <2>1, <2>2
    <2>4. InHand(c) \in Order
      BY <2>1, <2>3 DEF InHand
    <2>5. NewPosition(c) \in Position
      <3>1. InHand(c).entry \in Prices
        BY <2>4 DEF Order
      <3>2. req[c].base + req[c].i \in Nat \ {0}
        BY <2>1
      <3>. QED
        BY <3>1, <3>2 DEF NewPosition, Position
    <2>6. ~Deleting(c)
      BY <1>2 DEF Adding, Deleting
    <2>. QED
      BY <2>1, <2>3, <2>4, <2>5, <2>6
  <1>3. CASE Deleting(c)
    BY <1>1, <1>3 DEF Request, Adding, Deleting
  <1>4. CASE ~Adding(c) /\ ~Deleting(c)
    BY <1>4
  <1>. QED
    BY <1>2, <1>3, <1>4

(* What a scan task carries, by the step it is at. *)
LEMMA ScanShape ==
    ASSUME TypeOK, NEW s \in Symbols
    PROVE  /\ scan[s].pc = "snapshot" => scan[s].price \in Prices
           /\ scan[s].pc = "upsert" => scan[s].snapshot \in Position
  BY DEF TypeOK, ScanTask

(* A task or a request that is over has nothing left to carry. *)
LEMMA IdleShape == [pc |-> "idle"] \in ScanTask /\ [pc |-> "idle"] \in Request
  BY DEF ScanTask, Request

(* Recording a price keeps the lot and the entry and never lowers the peak. *)
LEMMA RecordPriceRaises ==
    ASSUME NEW p \in Position, NEW price \in Prices
    PROVE  /\ RecordPrice(p, price) \in Position
           /\ RecordPrice(p, price).lot = p.lot
           /\ RecordPrice(p, price).peak >= p.peak
           /\ RecordPrice(p, price) # None
  BY PricesAssumption, NoneAssumption DEF RecordPrice, Position

(* Every step of the system keeps the types. *)
LEMMA TypeStep == TypeOK /\ [Next]_vars => TypeOK'
  <1>. SUFFICES ASSUME TypeOK, [Next]_vars PROVE TypeOK'
    OBVIOUS
  <1>. USE DEF TypeOK
  <1>1. CASE StartCycle
    BY <1>1 DEF StartCycle, ScanTask, Adding
  <1>2. ASSUME NEW s \in Symbols, NEW price \in Prices, ScanQuote(s, price)
        PROVE  TypeOK'
    BY <1>2 DEF ScanQuote, GoTo, ScanTask, Adding, Fault, NoFault
  <1>3. ASSUME NEW s \in Symbols, ScanSnapshot(s)
        PROVE  TypeOK'
    <2>1. CASE positions[s] = None
      BY <1>3, <2>1 DEF ScanSnapshot, GoTo, ScanTask, Adding
    <2>2. CASE positions[s] # None
      <3>. DEFINE p == RecordPrice(positions[s], scan[s].price)
      <3>1. p \in Position
        BY <1>3, <2>2, ScanShape, RecordPriceRaises DEF ScanSnapshot
      <3>2. /\ positions' = [positions EXCEPT ![s] = p]
            /\ scan' = [scan EXCEPT ![s] = [pc |-> "upsert", snapshot |-> p]]
            /\ UNCHANGED <<up, rows, req, lots, faults, crashes>>
        BY <1>3, <2>2 DEF ScanSnapshot, GoTo
      <3>3. [pc |-> "upsert", snapshot |-> p] \in ScanTask
        BY <3>1 DEF ScanTask
      <3>. HIDE DEF p
      <3>. QED
        BY <3>1, <3>2, <3>3 DEF Adding
    <2>. QED
      BY <2>1, <2>2
  <1>4. ASSUME NEW s \in Symbols, ScanUpsert(s)
        PROVE  TypeOK'
    <2>1. scan[s].snapshot \in Position
      BY <1>4, ScanShape DEF ScanUpsert
    <2>. QED
      BY <1>4, <2>1 DEF ScanUpsert, GoTo, Upsert, ScanTask, Adding, Fault, NoFault
  <1>5. ASSUME NEW s \in Symbols, ScanFinish(s)
        PROVE  TypeOK'
    BY <1>5 DEF ScanFinish, GoTo, ScanTask, Adding
  <1>6. ASSUME NEW c \in Clients, NEW orders \in Batches, AddStart(c, orders)
        PROVE  TypeOK'
    <2>1. orders \in Seq(Order) /\ 1 \in DOMAIN orders /\ Len(orders) \in Nat
      BY BatchIsSequence
    <2>. DEFINE r == [pc |-> "upsert", orders |-> orders, base |-> lots, i |-> 1]
    <2>2. r \in Request
      BY <2>1 DEF Request
    <2>3. r.i \in DOMAIN r.orders
      BY <2>1
    <2>4. /\ req' = [req EXCEPT ![c] = r]
          /\ lots' = lots + Len(orders)
          /\ UNCHANGED <<up, positions, rows, scan, faults, crashes>>
      BY <1>6 DEF AddStart
    <2>. HIDE DEF r
    <2>. QED
      BY <2>1, <2>2, <2>3, <2>4 DEF Adding
  <1>7. ASSUME NEW c \in Clients, AddUpsert(c)
        PROVE  TypeOK'
    <2>1. Adding(c)
      BY <1>7 DEF AddUpsert, Adding
    <2>2. NewPosition(c) \in Position /\ InHand(c).symbol \in Symbols
      BY <2>1, RequestShape DEF Order
    <2>3. CASE Fault /\ Respond(c) /\ UNCHANGED rows
      BY <1>7, <2>3 DEF AddUpsert, Respond, Request, Adding, Fault
    <2>4. CASE /\ NoFault /\ Upsert(InHand(c).symbol, NewPosition(c))
               /\ req' = [req EXCEPT ![c].pc = "insert"]
      <3>1. [req[c] EXCEPT !.pc = "insert"] =
              [pc |-> "insert", orders |-> req[c].orders,
               base |-> req[c].base, i |-> req[c].i]
        BY <2>1, RequestShape
      <3>2. [req[c] EXCEPT !.pc = "insert"] \in Request
        BY <2>1, <3>1, RequestShape DEF Request
      <3>3. req' \in [Clients -> Request]
        BY <2>4, <3>2
      <3>4. \A d \in Clients : Adding(d)' => req'[d].i \in DOMAIN req'[d].orders
        BY <2>1, <2>4, <3>1 DEF Adding
      <3>. QED
        BY <1>7, <2>2, <2>4, <3>3, <3>4 DEF AddUpsert, Upsert, NoFault
    <2>. QED
      BY <1>7, <2>3, <2>4 DEF AddUpsert
  <1>8. ASSUME NEW c \in Clients, AddInsert(c)
        PROVE  TypeOK'
    <2>1. Adding(c)
      BY <1>8 DEF AddInsert, Adding
    <2>2. NewPosition(c) \in Position /\ InHand(c).symbol \in Symbols
      BY <2>1, RequestShape DEF Order
    <2>3. positions' \in [Symbols -> Position \cup {None}]
      BY <1>8, <2>2 DEF AddInsert
    <2>4. CASE req[c].i < Len(req[c].orders)
      <3>. DEFINE r == [pc |-> "upsert", orders |-> req[c].orders,
                        base |-> req[c].base, i |-> req[c].i + 1]
      <3>1. req' = [req EXCEPT ![c] = r]
        BY <1>8, <2>1, <2>4, RequestShape DEF AddInsert
      <3>2. r \in Request
        BY <2>1, RequestShape DEF Request
      <3>3. r.i \in DOMAIN r.orders
        BY <2>1, <2>4, RequestShape
      <3>. HIDE DEF r
      <3>. QED
        BY <1>8, <2>3, <3>1, <3>2, <3>3 DEF AddInsert, Adding
    <2>5. CASE ~(req[c].i < Len(req[c].orders))
      <3>1. req' = [req EXCEPT ![c] = [pc |-> "idle"]]
        BY <1>8, <2>5 DEF AddInsert, Respond
      <3>. QED
        BY <1>8, <2>3, <3>1, IdleShape DEF AddInsert, Adding
    <2>. QED
      BY <2>4, <2>5
  <1>9. ASSUME NEW c \in Clients, NEW s \in Symbols, RemoveStart(c, s)
        PROVE  TypeOK'
    BY <1>9 DEF RemoveStart, Request, Adding
  <1>10. ASSUME NEW c \in Clients, RemoveDelete(c)
         PROVE  TypeOK'
    <2>1. req[c].symbol \in Symbols
      BY <1>10, RequestShape DEF RemoveDelete
    <2>. QED
      BY <1>10, <2>1 DEF RemoveDelete, Delete, Respond, Request, Adding, Fault, NoFault
  <1>11. ASSUME NEW s \in Symbols, NEW price \in Prices,
                GetSignal(s, price) \/ GetFullSignal(s, price)
         PROVE  TypeOK'
    <2>1. RecordPrice(positions[s], price) \in Position
      BY <1>11, RecordPriceRaises DEF GetSignal, GetFullSignal
    <2>. QED
      BY <1>11, <2>1 DEF GetSignal, GetFullSignal, Adding
  <1>12. CASE Crash
    <2>1. \A c \in Clients : ~Adding(c)'
      BY <1>12 DEF Crash, Adding
    <2>2. scan' \in [Symbols -> ScanTask] /\ req' \in [Clients -> Request]
      BY <1>12, IdleShape DEF Crash
    <2>3. positions' \in [Symbols -> Position \cup {None}]
      BY <1>12 DEF Crash
    <2>4. up' \in BOOLEAN
      BY <1>12, Zenon DEF Crash
    <2>5. crashes' \in Nat /\ UNCHANGED <<rows, lots, faults>>
      BY <1>12 DEF Crash
    <2>. QED
      BY <2>1, <2>2, <2>3, <2>4, <2>5
  <1>13. CASE Restart
    BY <1>13 DEF Restart, Adding, Fault, NoFault
  <1>14. CASE UNCHANGED vars
    BY <1>14 DEF vars, Adding
  <1>. QED
    BY <1>1, <1>2, <1>3, <1>4, <1>5, <1>6, <1>7, <1>8, <1>9, <1>10, <1>11,
       <1>12, <1>13, <1>14 DEF Next

(* The map, the table, the scan tasks and the requests always have the     *)
(* shapes the code gives them: PositionStore's variables keep their types. *)
THEOREM TypeCorrect == Spec => []TypeOK
  <1>1. Init => TypeOK
    BY DEF Init, TypeOK, ScanTask, Request, Adding
  <1>. QED
    BY <1>1, TypeStep, PTL DEF Spec

-----------------------------------------------------------------------------
(* Every cached position is stored *)

(* Only a request that changes can change what it works on. *)
LEMMA ConcernsKept ==
    ASSUME NEW c \in Clients, req'[c] = req[c]
    PROVE  /\ Concerns(c)' = Concerns(c)
           /\ Adding(c)' = Adding(c) /\ Deleting(c)' = Deleting(c)
           /\ InHand(c)' = InHand(c) /\ NewPosition(c)' = NewPosition(c)
           /\ Pending(c)' = Pending(c)
  BY DEF Concerns, Adding, Deleting, InHand, NewPosition, Pending

(* A request that is over works on nothing. *)
LEMMA IdleConcerns ==
    ASSUME NEW c \in Clients
    PROVE  /\ req[c].pc = "idle" => /\ Concerns(c) = {} /\ Pending(c) = {}
                                    /\ ~Adding(c) /\ ~Deleting(c)
           /\ req'[c].pc = "idle" => /\ Concerns(c)' = {} /\ Pending(c)' = {}
                                     /\ ~Adding(c)' /\ ~Deleting(c)'
  BY DEF Concerns, Adding, Deleting, Pending

(* The symbol in hand is one the request works on. *)
LEMMA InHandConcerns ==
    ASSUME TypeOK, NEW c \in Clients
    PROVE  /\ Adding(c) => /\ InHand(c).symbol \in Concerns(c)
                           /\ InHand(c).symbol \in Symbols
           /\ Deleting(c) => req[c].symbol \in Concerns(c)
  <1>1. CASE Adding(c)
    <2>1. req[c].i \in DOMAIN req[c].orders
      BY <1>1 DEF TypeOK
    <2>2. InHand(c).symbol \in Symbols
      BY <1>1, RequestShape DEF Order
    <2>3. ~Deleting(c)
      BY <1>1 DEF Adding, Deleting
    <2>. QED
      BY <1>1, <2>1, <2>2, <2>3 DEF Concerns, InHand
  <1>2. CASE ~Adding(c)
    BY <1>2 DEF Concerns
  <1>. QED
    BY <1>1, <1>2

(* A scan step or a signal request changes no request, and leaves both the *)
(* set of cached and, unless it adds one, the set of stored symbols alone. *)
LEMMA SerialQuietStep ==
    ASSUME TypeOK, SerialInv, UNCHANGED req, StoppedIsIdle',
           \A s \in Symbols : positions'[s] # None => positions[s] # None,
           \A s \in Symbols : rows[s] # None => rows'[s] # None
    PROVE  SerialInv'
  <1>1. \A c \in Clients : req'[c] = req[c]
    OBVIOUS
  <1>2. \A c \in Clients :
           /\ Concerns(c)' = Concerns(c) /\ Deleting(c)' = Deleting(c)
           /\ InHand(c)' = InHand(c)
    BY <1>1, ConcernsKept
  <1>3. CachedIsStored'
    BY DEF SerialInv, CachedIsStored
  <1>4. \A c, d \in Clients : c # d => Concerns(c)' \cap Concerns(d)' = {}
    BY <1>2 DEF SerialInv
  <1>5. \A c \in Clients : req'[c].pc = "insert" => rows'[InHand(c)'.symbol] # None
    BY <1>1, <1>2, InHandConcerns DEF SerialInv, Adding
  <1>6. \A c \in Clients : Deleting(c)' => positions'[req'[c].symbol] = None
    BY <1>1, <1>2, RequestShape DEF SerialInv
  <1>. QED
    BY <1>3, <1>4, <1>5, <1>6 DEF SerialInv

(* A step of client c alone: the other requests keep their facts if it     *)
(* touches only symbols it works on.                                       *)
LEMMA SerialClientStep ==
    ASSUME TypeOK, SerialInv, NEW c \in Clients, NEW s \in Symbols,
           \A d \in Clients \ {c} : req'[d] = req[d],
           \A d \in Clients \ {c} : s \notin Concerns(d),
           \A d \in Clients \ {c} : Concerns(c)' \cap Concerns(d) = {},
           \A x \in Symbols \ {s} :
                positions'[x] = positions[x] /\ rows'[x] = rows[x],
           positions'[s] # None => rows'[s] # None,
           req'[c].pc = "insert" => rows'[InHand(c)'.symbol] # None,
           Deleting(c)' => positions'[req'[c].symbol] = None,
           StoppedIsIdle'
    PROVE  SerialInv'
  <1>1. \A d \in Clients \ {c} :
           /\ Concerns(d)' = Concerns(d) /\ Deleting(d)' = Deleting(d)
           /\ InHand(d)' = InHand(d)
    BY ConcernsKept
  <1>2. CachedIsStored'
    BY DEF SerialInv, CachedIsStored
  <1>3. \A d, e \in Clients : d # e => Concerns(d)' \cap Concerns(e)' = {}
    <2>. SUFFICES ASSUME NEW d \in Clients, NEW e \in Clients, d # e
                  PROVE  Concerns(d)' \cap Concerns(e)' = {}
      OBVIOUS
    <2>. QED
      BY <1>1 DEF SerialInv
  <1>4. ASSUME NEW d \in Clients \ {c}, req'[d].pc = "insert"
        PROVE  rows'[InHand(d)'.symbol] # None
    <2>1. Adding(d) /\ rows[InHand(d).symbol] # None
      BY <1>4 DEF SerialInv, Adding
    <2>2. InHand(d).symbol \in Symbols \ {s}
      BY <2>1, InHandConcerns
    <2>. QED
      BY <1>1, <2>1, <2>2
  <1>5. ASSUME NEW d \in Clients \ {c}, Deleting(d)'
        PROVE  positions'[req'[d].symbol] = None
    <2>1. Deleting(d) /\ positions[req[d].symbol] = None
      BY <1>1, <1>5 DEF SerialInv
    <2>2. req[d].symbol \in Symbols \ {s}
      BY <2>1, InHandConcerns, RequestShape
    <2>. QED
      BY <2>1, <2>2
  <1>. QED
    BY <1>2, <1>3, <1>4, <1>5 DEF SerialInv

(* Every step keeps the strengthened invariant, if requests on one symbol  *)
(* do not overlap.                                                         *)
LEMMA SerialStep ==
    ASSUME ~Overlapping, TypeOK, SerialInv, [Next]_vars
    PROVE  SerialInv'
  <1>1. CASE StartCycle
    BY <1>1, SerialQuietStep DEF StartCycle, StoppedIsIdle
  <1>2. ASSUME NEW s \in Symbols, NEW price \in Prices, ScanQuote(s, price)
        PROVE  SerialInv'
    BY <1>2, SerialQuietStep DEF ScanQuote, StoppedIsIdle
  <1>3. ASSUME NEW s \in Symbols, ScanSnapshot(s)
        PROVE  SerialInv'
    <2>1. up /\ up' = up /\ UNCHANGED <<rows, req>>
      BY <1>3 DEF ScanSnapshot
    <2>2. \A x \in Symbols : positions'[x] # None => positions[x] # None
      BY <1>3 DEF ScanSnapshot, TypeOK
    <2>. QED
      BY <2>1, <2>2, SerialQuietStep DEF StoppedIsIdle
  <1>4. ASSUME NEW s \in Symbols, ScanUpsert(s)
        PROVE  SerialInv'
    <2>1. up /\ up' = up /\ UNCHANGED <<positions, req>>
      BY <1>4 DEF ScanUpsert
    <2>2. scan[s].snapshot \in Position
      BY <1>4, ScanShape DEF ScanUpsert
    <2>3. \A x \in Symbols : rows[x] # None => rows'[x] # None
      BY <1>4, <2>2, NoneAssumption DEF ScanUpsert, Upsert, TypeOK
    <2>. QED
      BY <2>1, <2>3, SerialQuietStep DEF StoppedIsIdle
  <1>5. ASSUME NEW s \in Symbols, ScanFinish(s)
        PROVE  SerialInv'
    BY <1>5, SerialQuietStep DEF ScanFinish, StoppedIsIdle
  <1>6. ASSUME NEW c \in Clients, NEW orders \in Batches, AddStart(c, orders)
        PROVE  SerialInv'
    <2>. DEFINE S == {orders[k].symbol : k \in DOMAIN orders}
    <2>1. orders \in Seq(Order) /\ 1 \in DOMAIN orders
      BY BatchIsSequence
    <2>2. orders[1].symbol \in Symbols /\ orders[1].symbol \in S
      <3>1. orders[1] \in Order
        BY <2>1
      <3>. QED
        BY <2>1, <3>1 DEF Order
    <2>3. \A d \in Clients : Concerns(d) \cap S = {}
      BY <1>6 DEF AddStart, CanStart
    <2>4. /\ up /\ up' = up /\ UNCHANGED <<positions, rows>>
          /\ req'[c] = [pc |-> "upsert", orders |-> orders, base |-> lots, i |-> 1]
          /\ \A d \in Clients \ {c} : req'[d] = req[d]
      BY <1>6 DEF AddStart, CanStart, TypeOK
    <2>5. Concerns(c)' = S /\ ~Deleting(c)'
      BY <2>4 DEF Concerns, Adding, Deleting
    <2>6. positions'[orders[1].symbol] # None => rows'[orders[1].symbol] # None
      BY <2>2, <2>4 DEF SerialInv, CachedIsStored
    <2>. HIDE DEF S
    <2>. QED
      BY <2>2, <2>3, <2>4, <2>5, <2>6, SerialClientStep DEF StoppedIsIdle
  <1>7. ASSUME NEW c \in Clients, AddUpsert(c)
        PROVE  SerialInv'
    <2>. DEFINE s == InHand(c).symbol
    <2>1. Adding(c) /\ req[c].pc = "upsert" /\ up /\ up' = up /\ positions' = positions
      BY <1>7 DEF AddUpsert, Adding
    <2>2. s \in Symbols /\ s \in Concerns(c)
      BY <2>1, InHandConcerns
    <2>3. \A d \in Clients \ {c} : s \notin Concerns(d) /\ Concerns(c) \cap Concerns(d) = {}
      BY <2>2 DEF SerialInv
    <2>4. CASE Fault /\ Respond(c) /\ UNCHANGED rows
      <3>1. req'[c].pc = "idle" /\ \A d \in Clients \ {c} : req'[d] = req[d]
        BY <2>4 DEF Respond, TypeOK
      <3>2. positions'[s] # None => rows'[s] # None
        BY <2>1, <2>2, <2>4 DEF SerialInv, CachedIsStored
      <3>. HIDE DEF s
      <3>. QED
        BY <2>1, <2>2, <2>3, <2>4, <3>1, <3>2, IdleConcerns, SerialClientStep
        DEF StoppedIsIdle
    <2>5. CASE /\ NoFault /\ Upsert(s, NewPosition(c))
               /\ req' = [req EXCEPT ![c].pc = "insert"]
      <3>1. req'[c] = [pc |-> "insert", orders |-> req[c].orders,
                       base |-> req[c].base, i |-> req[c].i]
        BY <2>1, <2>5, RequestShape DEF TypeOK
      <3>2. Concerns(c)' = Concerns(c) /\ InHand(c)' = InHand(c) /\ ~Deleting(c)'
        BY <2>1, <3>1 DEF Concerns, Adding, Deleting, InHand
      <3>3. \A d \in Clients \ {c} : req'[d] = req[d]
        BY <2>5 DEF TypeOK
      <3>4. rows'[s] # None /\ \A x \in Symbols \ {s} : rows'[x] = rows[x]
        BY <2>1, <2>2, <2>5, RequestShape, NoneAssumption DEF Upsert, TypeOK
      <3>5. req'[c].pc = "insert" => rows'[InHand(c)'.symbol] # None
        BY <3>2, <3>4
      <3>. HIDE DEF s
      <3>. QED
        BY <2>1, <2>2, <2>3, <3>2, <3>3, <3>4, <3>5, SerialClientStep
        DEF StoppedIsIdle
    <2>. QED
      BY <1>7, <2>4, <2>5 DEF AddUpsert
  <1>8. ASSUME NEW c \in Clients, AddInsert(c)
        PROVE  SerialInv'
    <2>. DEFINE s == InHand(c).symbol
    <2>1. Adding(c) /\ req[c].pc = "insert" /\ up /\ up' = up /\ rows' = rows
      BY <1>8 DEF AddInsert, Adding
    <2>2. s \in Symbols /\ s \in Concerns(c)
      BY <2>1, InHandConcerns
    <2>3. \A d \in Clients \ {c} : s \notin Concerns(d) /\ Concerns(c) \cap Concerns(d) = {}
      BY <2>2 DEF SerialInv
    <2>4. rows'[s] # None
      BY <2>1 DEF SerialInv
    <2>5. \A x \in Symbols \ {s} : positions'[x] = positions[x]
      BY <1>8 DEF AddInsert, TypeOK
    <2>6. \A d \in Clients \ {c} : req'[d] = req[d]
      BY <1>8 DEF AddInsert, Respond, TypeOK
    <2>7. CASE req[c].i < Len(req[c].orders)
      <3>1. req'[c] = [pc |-> "upsert", orders |-> req[c].orders,
                       base |-> req[c].base, i |-> req[c].i + 1]
        BY <1>8, <2>1, <2>7, RequestShape DEF AddInsert, TypeOK
      <3>2. Concerns(c)' = Concerns(c) /\ ~Deleting(c)' /\ req'[c].pc # "insert"
        BY <2>1, <3>1 DEF Concerns, Adding, Deleting
      <3>. HIDE DEF s
      <3>. QED
        BY <2>1, <2>2, <2>3, <2>4, <2>5, <2>6, <3>2, SerialClientStep
        DEF StoppedIsIdle
    <2>8. CASE ~(req[c].i < Len(req[c].orders))
      <3>1. req'[c].pc = "idle"
        BY <1>8, <2>8 DEF AddInsert, Respond, TypeOK
      <3>. HIDE DEF s
      <3>. QED
        BY <2>1, <2>2, <2>3, <2>4, <2>5, <2>6, <3>1, IdleConcerns, SerialClientStep
        DEF StoppedIsIdle
    <2>. QED
      BY <2>7, <2>8
  <1>9. ASSUME NEW c \in Clients, NEW s \in Symbols, RemoveStart(c, s)
        PROVE  SerialInv'
    <2>1. /\ up /\ up' = up /\ rows' = rows
          /\ req'[c] = [pc |-> "delete", symbol |-> s]
          /\ \A d \in Clients \ {c} : req'[d] = req[d]
          /\ positions'[s] = None
          /\ \A x \in Symbols \ {s} : positions'[x] = positions[x]
      BY <1>9 DEF RemoveStart, CanStart, TypeOK
    <2>2. \A d \in Clients : s \notin Concerns(d)
      BY <1>9 DEF RemoveStart, CanStart
    <2>3. Concerns(c)' = {s} /\ req'[c].pc # "insert" /\ req'[c].symbol = s
      BY <2>1 DEF Concerns, Adding, Deleting
    <2>. QED
      BY <2>1, <2>2, <2>3, SerialClientStep DEF StoppedIsIdle
  <1>10. ASSUME NEW c \in Clients, RemoveDelete(c)
         PROVE  SerialInv'
    <2>. DEFINE s == req[c].symbol
    <2>1. Deleting(c) /\ up /\ up' = up /\ positions' = positions
      BY <1>10 DEF RemoveDelete
    <2>2. s \in Symbols /\ s \in Concerns(c)
      BY <2>1, RequestShape, InHandConcerns
    <2>3. \A d \in Clients \ {c} : s \notin Concerns(d)
      BY <2>2 DEF SerialInv
    <2>4. positions'[s] = None
      BY <2>1 DEF SerialInv
    <2>5. req'[c].pc = "idle" /\ \A d \in Clients \ {c} : req'[d] = req[d]
      BY <1>10 DEF RemoveDelete, Respond, TypeOK
    <2>6. \A x \in Symbols \ {s} : rows'[x] = rows[x]
      BY <1>10 DEF RemoveDelete, Delete, TypeOK
    <2>. HIDE DEF s
    <2>. QED
      BY <2>1, <2>2, <2>3, <2>4, <2>5, <2>6, IdleConcerns, SerialClientStep
      DEF StoppedIsIdle
  <1>11. ASSUME NEW s \in Symbols, NEW price \in Prices,
                GetSignal(s, price) \/ GetFullSignal(s, price)
         PROVE  SerialInv'
    <2>1. up /\ up' = up /\ UNCHANGED <<rows, req>>
      BY <1>11 DEF GetSignal, GetFullSignal
    <2>2. \A x \in Symbols : positions'[x] # None => positions[x] # None
      BY <1>11 DEF GetSignal, GetFullSignal, TypeOK
    <2>. QED
      BY <2>1, <2>2, SerialQuietStep DEF StoppedIsIdle
  <1>12. CASE Crash
    <2>1. \A c \in Clients : req'[c].pc = "idle"
      BY <1>12 DEF Crash
    <2>2. CachedIsStored' /\ StoppedIsIdle'
      BY <1>12 DEF Crash, CachedIsStored, StoppedIsIdle
    <2>. QED
      BY <2>1, <2>2, IdleConcerns DEF SerialInv
  <1>13. CASE Restart
    <2>1. \A c \in Clients : req'[c].pc = "idle"
      BY <1>13 DEF Restart, SerialInv, StoppedIsIdle
    <2>2. CachedIsStored' /\ StoppedIsIdle'
      BY <1>13 DEF Restart, CachedIsStored, StoppedIsIdle, SerialInv
    <2>. QED
      BY <2>1, <2>2, IdleConcerns DEF SerialInv
  <1>14. CASE UNCHANGED vars
    BY <1>14, SerialQuietStep DEF vars, SerialInv, StoppedIsIdle
  <1>. QED
    BY <1>1, <1>2, <1>3, <1>4, <1>5, <1>6, <1>7, <1>8, <1>9, <1>10, <1>11,
       <1>12, <1>13, <1>14 DEF Next

(* add_position writes the row before the map and remove_position clears   *)
(* the map before the row: as long as requests on one symbol follow one    *)
(* another, a position the server answers for has a row to come back from, *)
(* whatever the scanner does and wherever a call fails or the process      *)
(* stops.                                                                  *)
THEOREM CachedIsStoredAlways ==
    ASSUME ~Overlapping
    PROVE  Spec => []CachedIsStored
  <1>1. Init => SerialInv
    BY IdleConcerns DEF Init, SerialInv, CachedIsStored, StoppedIsIdle
  <1>2. TypeOK /\ SerialInv /\ [Next]_vars => SerialInv'
    BY SerialStep
  <1>3. SerialInv => CachedIsStored
    BY DEF SerialInv
  <1>. QED
    BY <1>1, <1>2, <1>3, TypeCorrect, PTL DEF Spec

-----------------------------------------------------------------------------
(* The stored peak never falls *)

(* The lot in hand is a pending one, and pending lots are numbers.          *)
LEMMA PendingLots ==
    ASSUME TypeOK, NEW c \in Clients
    PROVE  /\ Pending(c) \subseteq Nat
           /\ Adding(c) => /\ NewPosition(c).lot \in Pending(c)
                           /\ NewPosition(c).lot = req[c].base + req[c].i
                           /\ NewPosition(c).peak = InHand(c).entry
                           /\ NewPosition(c) # None
  <1>1. CASE Adding(c)
    <2>1. /\ req[c].base \in Nat /\ req[c].i \in 1..Len(req[c].orders)
          /\ req[c].orders \in Seq(Order) /\ NewPosition(c) \in Position
      BY <1>1, RequestShape
    <2>2. Len(req[c].orders) \in Nat
      BY <2>1
    <2>. QED
      BY <1>1, <2>1, <2>2, NoneAssumption DEF Pending, NewPosition
  <1>2. CASE ~Adding(c)
    BY <1>2 DEF Pending
  <1>. QED
    BY <1>1, <1>2

(* A scan step or a signal request works on one symbol and on no request.   *)
LEMMA PeakSymbolStep ==
    ASSUME TypeOK, PeakInv, NEW s \in Symbols, UNCHANGED <<req, lots>>,
           \A x \in Symbols \ {s} :
              /\ positions'[x] = positions[x] /\ rows'[x] = rows[x]
              /\ scan'[x] = scan[x],
           StoppedIsIdle', KnownLots(s)', RowLagsBehind(s)'
    PROVE  PeakInv'
  <1>1. \A c \in Clients :
           /\ Pending(c)' = Pending(c) /\ NewPosition(c)' = NewPosition(c)
           /\ Adding(c)' = Adding(c)
    BY ConcernsKept
  <1>2. LotsAreFresh'
    BY <1>1 DEF PeakInv, LotsAreFresh
  <1>3. ASSUME NEW x \in Symbols \ {s}
        PROVE  KnownLots(x)' /\ RowLagsBehind(x)'
    <2>1. KnownLots(x) /\ RowLagsBehind(x)
      BY DEF PeakInv
    <2>2. KnownLots(x)'
      BY <1>1, <2>1 DEF KnownLots, NotPending
    <2>3. RowLagsBehind(x)'
      BY <1>1, <2>1 DEF RowLagsBehind, Behind
    <2>. QED
      BY <2>2, <2>3
  <1>. QED
    BY <1>2, <1>3 DEF PeakInv

(* A step of request c, with the symbol it writes, if it writes one: the    *)
(* other requests and their pending lots stay, and c's own can only shrink. *)
LEMMA PeakClientStep ==
    ASSUME TypeOK, PeakInv, NEW c \in Clients, NEW s \in Symbols,
           UNCHANGED <<scan, lots>>,
           \A d \in Clients \ {c} : req'[d] = req[d],
           Pending(c)' \subseteq Pending(c),
           \A x \in Symbols : rows[x] # None /\ rows[x].lot \in Pending(c)'
                => req'[c].pc = "insert" /\ rows[x].lot = NewPosition(c)'.lot,
           Adding(c)' => (\A x \in Symbols : Behind(rows[x], NewPosition(c)')),
           \A x \in Symbols \ {s} :
                positions'[x] = positions[x] /\ rows'[x] = rows[x],
           StoppedIsIdle', KnownLots(s)', RowLagsBehind(s)'
    PROVE  PeakInv'
  <1>1. \A d \in Clients \ {c} :
           /\ Pending(d)' = Pending(d) /\ NewPosition(d)' = NewPosition(d)
           /\ Adding(d)' = Adding(d)
    BY ConcernsKept
  <1>2. LotsAreFresh'
    <2>1. \A d \in Clients : \A n \in Pending(d)' : n <= lots'
      BY <1>1 DEF PeakInv, LotsAreFresh
    <2>2. ASSUME NEW d \in Clients, NEW e \in Clients, d # e
          PROVE  Pending(d)' \cap Pending(e)' = {}
      BY <1>1, <2>2 DEF PeakInv, LotsAreFresh
    <2>. QED
      BY <2>1, <2>2 DEF LotsAreFresh
  <1>3. ASSUME NEW x \in Symbols \ {s}
        PROVE  KnownLots(x)' /\ RowLagsBehind(x)'
    <2>1. KnownLots(x) /\ RowLagsBehind(x)
      BY DEF PeakInv
    <2>2. KnownLots(x)'
      BY <1>1, <2>1 DEF KnownLots, NotPending
    <2>3. RowLagsBehind(x)'
      BY <1>1, <2>1 DEF RowLagsBehind, Behind
    <2>. QED
      BY <2>2, <2>3
  <1>. QED
    BY <1>2, <1>3 DEF PeakInv

(* Every step keeps the strengthened invariant.                             *)
LEMMA PeakStep ==
    ASSUME TypeOK, TypeOK', PeakInv, [Next]_vars
    PROVE  PeakInv'
  <1>1. CASE StartCycle
    <2>1. /\ UNCHANGED <<up, positions, rows, req, lots>>
          /\ up /\ \A s \in Symbols : scan'[s].pc # "upsert"
      BY <1>1 DEF StartCycle
    <2>2. \A c \in Clients :
             /\ Pending(c)' = Pending(c) /\ NewPosition(c)' = NewPosition(c)
             /\ Adding(c)' = Adding(c)
      BY <2>1, ConcernsKept
    <2>3. StoppedIsIdle' /\ LotsAreFresh'
      BY <2>1, <2>2 DEF PeakInv, LotsAreFresh, StoppedIsIdle
    <2>4. ASSUME NEW s \in Symbols
          PROVE  KnownLots(s)' /\ RowLagsBehind(s)'
      BY <2>1, <2>2 DEF PeakInv, KnownLots, NotPending, RowLagsBehind, Behind
    <2>. QED
      BY <2>3, <2>4 DEF PeakInv
  <1>2. ASSUME NEW s \in Symbols, up, up' = up, UNCHANGED <<rows, req, lots>>,
               positions'[s] = positions[s], scan'[s].pc # "upsert",
               \A x \in Symbols \ {s} :
                  positions'[x] = positions[x] /\ scan'[x] = scan[x]
        PROVE  PeakInv'
    <2>1. \A c \in Clients :
             /\ Pending(c)' = Pending(c) /\ NewPosition(c)' = NewPosition(c)
             /\ Adding(c)' = Adding(c)
      BY <1>2, ConcernsKept
    <2>2. KnownLots(s)' /\ RowLagsBehind(s)'
      BY <1>2, <2>1 DEF PeakInv, KnownLots, NotPending, RowLagsBehind, Behind
    <2>. QED
      BY <1>2, <2>2, PeakSymbolStep DEF StoppedIsIdle
  <1>3. ASSUME NEW s \in Symbols, NEW price \in Prices, ScanQuote(s, price)
        PROVE  PeakInv'
    BY <1>2, <1>3 DEF ScanQuote, GoTo, TypeOK
  <1>4. ASSUME NEW s \in Symbols, NEW price \in Prices, up, up' = up,
               positions[s] # None,
               positions' = [positions EXCEPT ![s] = RecordPrice(@, price)],
               \/ scan'[s] = scan[s]
               \/ scan'[s] = [pc |-> "upsert",
                              snapshot |-> RecordPrice(positions[s], price)],
               \A x \in Symbols \ {s} : scan'[x] = scan[x],
               UNCHANGED <<rows, req, lots>>
        PROVE  PeakInv'
    <2>. DEFINE p == RecordPrice(positions[s], price)
    <2>1. positions[s] \in Position
      BY <1>4 DEF TypeOK
    <2>2. /\ p.lot = positions[s].lot /\ p.peak >= positions[s].peak
          /\ p \in Position /\ p # None
      BY <2>1, RecordPriceRaises
    <2>3. positions'[s] = p /\ \A x \in Symbols \ {s} : positions'[x] = positions[x]
      BY <1>4 DEF TypeOK
    <2>4. \A c \in Clients :
             /\ Pending(c)' = Pending(c) /\ NewPosition(c)' = NewPosition(c)
             /\ Adding(c)' = Adding(c)
      BY <1>4, ConcernsKept
    <2>5. scan[s].pc = "upsert" => scan[s].snapshot \in Position
      BY ScanShape
    <2>6. \A q \in Position : q.peak \in Nat
      BY PricesAssumption DEF Position
    <2>7. KnownLots(s) /\ RowLagsBehind(s) /\ rows[s] \in Position \cup {None}
      BY DEF PeakInv, TypeOK
    <2>8. scan'[s] = scan[s] \/ scan'[s] = [pc |-> "upsert", snapshot |-> p]
      BY <1>4
    <2>. HIDE DEF p
    <2>9. KnownLots(s)'
      BY <1>4, <2>2, <2>3, <2>4, <2>7, <2>8 DEF KnownLots, NotPending
    <2>10. RowLagsBehind(s)'
      BY <1>4, <2>1, <2>2, <2>3, <2>4, <2>5, <2>6, <2>7, <2>8
      DEF RowLagsBehind, Behind
    <2>. QED
      BY <1>4, <2>3, <2>9, <2>10, PeakSymbolStep DEF StoppedIsIdle
  <1>5. ASSUME NEW s \in Symbols, ScanSnapshot(s)
        PROVE  PeakInv'
    <2>1. CASE positions[s] = None
      BY <1>2, <1>5, <2>1 DEF ScanSnapshot, GoTo, TypeOK
    <2>2. CASE positions[s] # None
      <3>1. scan[s].price \in Prices
        BY <1>5, ScanShape DEF ScanSnapshot
      <3>2. /\ up /\ up' = up
            /\ positions' = [positions EXCEPT ![s] = RecordPrice(@, scan[s].price)]
            /\ scan'[s] = [pc |-> "upsert",
                           snapshot |-> RecordPrice(positions[s], scan[s].price)]
            /\ \A x \in Symbols \ {s} : scan'[x] = scan[x]
            /\ UNCHANGED <<rows, req, lots>>
        BY <1>5, <2>2 DEF ScanSnapshot, GoTo, TypeOK
      <3>. QED
        BY <1>4, <2>2, <3>1, <3>2
    <2>. QED
      BY <2>1, <2>2
  <1>6. ASSUME NEW s \in Symbols, ScanUpsert(s)
        PROVE  PeakInv'
    <2>1. CASE Fault /\ GoTo(s, [pc |-> "idle"]) /\ UNCHANGED rows
      BY <1>2, <1>6, <2>1 DEF ScanUpsert, GoTo, TypeOK
    <2>2. CASE /\ NoFault /\ Upsert(s, scan[s].snapshot)
               /\ GoTo(s, [pc |-> "evaluate"])
      <3>1. /\ up /\ up' = up /\ UNCHANGED <<positions, req, lots>>
            /\ scan[s].pc = "upsert"
            /\ rows'[s] = scan[s].snapshot
            /\ scan'[s].pc # "upsert"
            /\ \A x \in Symbols \ {s} : rows'[x] = rows[x] /\ scan'[x] = scan[x]
        BY <1>6, <2>2 DEF ScanUpsert, Upsert, GoTo, TypeOK
      <3>2. \A c \in Clients :
               /\ Pending(c)' = Pending(c) /\ NewPosition(c)' = NewPosition(c)
               /\ Adding(c)' = Adding(c)
        BY <3>1, ConcernsKept
      <3>3. KnownLots(s) /\ RowLagsBehind(s)
        BY DEF PeakInv
      <3>4. scan[s].snapshot \in Position /\ scan[s].snapshot # None
        BY <3>1, ScanShape, NoneAssumption
      <3>5. KnownLots(s)'
        BY <3>1, <3>2, <3>3 DEF KnownLots, NotPending
      <3>6. \A c \in Clients : Adding(c) => Behind(scan[s].snapshot, NewPosition(c))
        BY <3>1, <3>3, PendingLots DEF KnownLots, NotPending, Behind
      <3>7. RowLagsBehind(s)'
        BY <3>1, <3>2, <3>3, <3>6 DEF RowLagsBehind, Behind
      <3>. QED
        BY <3>1, <3>5, <3>7, PeakSymbolStep DEF StoppedIsIdle
    <2>. QED
      BY <1>6, <2>1, <2>2 DEF ScanUpsert
  <1>7. ASSUME NEW s \in Symbols, ScanFinish(s)
        PROVE  PeakInv'
    BY <1>2, <1>7 DEF ScanFinish, GoTo, TypeOK
  <1>8. ASSUME NEW s \in Symbols, NEW price \in Prices,
               GetSignal(s, price) \/ GetFullSignal(s, price)
        PROVE  PeakInv'
    BY <1>4, <1>8 DEF GetSignal, GetFullSignal
  <1>9. ASSUME NEW c \in Clients, NEW orders \in Batches, AddStart(c, orders)
        PROVE  PeakInv'
    <2>1. orders \in Seq(Order) /\ Len(orders) \in Nat
      BY BatchIsSequence
    <2>2. /\ up /\ up' = up /\ UNCHANGED <<positions, rows, scan>>
          /\ lots' = lots + Len(orders)
          /\ req'[c] = [pc |-> "upsert", orders |-> orders, base |-> lots, i |-> 1]
          /\ req[c].pc = "idle"
          /\ \A d \in Clients \ {c} : req'[d] = req[d]
      BY <1>9 DEF AddStart, CanStart, TypeOK
    <2>3. \A d \in Clients \ {c} :
             /\ Pending(d)' = Pending(d) /\ NewPosition(d)' = NewPosition(d)
             /\ Adding(d)' = Adding(d)
      BY <2>2, ConcernsKept
    <2>4. /\ Pending(c)' = (lots + 1) .. (lots + Len(orders))
          /\ NewPosition(c)'.lot = lots + 1
      BY <2>2 DEF Pending, Adding, NewPosition
    <2>5. \A d \in Clients : Pending(d) \subseteq Nat /\ \A n \in Pending(d) : n <= lots
      BY PendingLots DEF PeakInv, LotsAreFresh
    <2>6. lots \in Nat
      BY DEF TypeOK
    <2>7. LotsAreFresh'
      <3>1. \A d \in Clients : \A n \in Pending(d)' : n <= lots'
        BY <2>1, <2>2, <2>3, <2>4, <2>5, <2>6
      <3>2. \A d \in Clients \ {c} : Pending(c)' \cap Pending(d)' = {}
        BY <2>1, <2>3, <2>4, <2>5, <2>6
      <3>3. \A d, e \in Clients : d # e => Pending(d)' \cap Pending(e)' = {}
        BY <2>3, <3>2 DEF PeakInv, LotsAreFresh
      <3>. QED
        BY <3>1, <3>3 DEF LotsAreFresh
    <2>8. ASSUME NEW p \in Position, p.lot <= lots
          PROVE  p.lot <= lots' /\ p.lot \notin Pending(c)' /\ p.lot # lots + 1
      BY <2>1, <2>2, <2>4, <2>6, <2>8 DEF Position
    <2>9. ASSUME NEW s \in Symbols
          PROVE  KnownLots(s)' /\ RowLagsBehind(s)'
      <3>1. KnownLots(s) /\ RowLagsBehind(s)
        BY DEF PeakInv
      <3>2. /\ positions[s] \in Position \cup {None} /\ rows[s] \in Position \cup {None}
            /\ scan[s].pc = "upsert" => scan[s].snapshot \in Position
        BY ScanShape DEF TypeOK
      <3>3. KnownLots(s)'
        BY <2>2, <2>3, <2>8, <3>1, <3>2 DEF KnownLots, NotPending
      <3>4. Behind(rows[s], NewPosition(c)')
        BY <2>4, <2>8, <3>1, <3>2 DEF KnownLots, Behind
      <3>5. RowLagsBehind(s)'
        BY <2>2, <2>3, <3>1, <3>4 DEF RowLagsBehind, Behind
      <3>. QED
        BY <3>3, <3>5
    <2>. QED
      BY <2>2, <2>7, <2>9 DEF PeakInv, StoppedIsIdle
  <1>10. ASSUME NEW c \in Clients, NEW s \in Symbols, up, up' = up,
                req'[c].pc = "idle",
                \A d \in Clients \ {c} : req'[d] = req[d],
                UNCHANGED <<positions, scan, lots>>,
                rows'[s] = rows[s] \/ rows'[s] = None,
                \A x \in Symbols \ {s} : rows'[x] = rows[x]
         PROVE  PeakInv'
    <2>1. Pending(c)' = {} /\ ~Adding(c)'
      BY <1>10, IdleConcerns
    <2>2. \A d \in Clients \ {c} :
             /\ Pending(d)' = Pending(d) /\ NewPosition(d)' = NewPosition(d)
             /\ Adding(d)' = Adding(d)
      BY <1>10, ConcernsKept
    <2>3. KnownLots(s) /\ RowLagsBehind(s)
      BY DEF PeakInv
    <2>4. KnownLots(s)'
      BY <1>10, <2>1, <2>2, <2>3 DEF KnownLots, NotPending
    <2>5. RowLagsBehind(s)'
      BY <1>10, <2>1, <2>2, <2>3 DEF RowLagsBehind, Behind
    <2>. QED
      BY <1>10, <2>1, <2>4, <2>5, PeakClientStep DEF StoppedIsIdle
  <1>11. ASSUME NEW c \in Clients, AddUpsert(c)
         PROVE  PeakInv'
    <2>1. /\ Adding(c) /\ req[c].pc = "upsert" /\ up /\ up' = up
          /\ UNCHANGED <<positions, scan, lots>>
      BY <1>11 DEF AddUpsert, Adding
    <2>s. PICK s \in Symbols : s = InHand(c).symbol
      BY <2>1, InHandConcerns
    <2>p. PICK p \in Position : p = NewPosition(c)
      BY <2>1, RequestShape
    <2>2. p # None /\ p.lot \in Pending(c)
      BY <2>1, <2>p, PendingLots
    <2>3. CASE Fault /\ Respond(c) /\ UNCHANGED rows
      <3>1. req'[c].pc = "idle" /\ \A d \in Clients \ {c} : req'[d] = req[d]
        BY <2>3 DEF Respond, TypeOK
      <3>. QED
        BY <1>10, <2>1, <2>2, <2>3, <3>1
    <2>4. CASE /\ NoFault /\ Upsert(s, p)
               /\ req' = [req EXCEPT ![c].pc = "insert"]
      <3>1. /\ req'[c] = [pc |-> "insert", orders |-> req[c].orders,
                          base |-> req[c].base, i |-> req[c].i]
            /\ \A d \in Clients \ {c} : req'[d] = req[d]
            /\ rows'[s] = p /\ \A x \in Symbols \ {s} : rows'[x] = rows[x]
        BY <2>1, <2>4, RequestShape DEF Upsert, TypeOK
      <3>2. Pending(c)' = Pending(c) /\ NewPosition(c)' = p /\ Adding(c)'
        BY <2>1, <2>p, <3>1 DEF Pending, Adding, NewPosition, InHand
      <3>3. \A d \in Clients \ {c} :
               /\ Pending(d)' = Pending(d) /\ NewPosition(d)' = NewPosition(d)
               /\ Adding(d)' = Adding(d)
        BY <3>1, ConcernsKept
      <3>4. p.lot <= lots /\ \A d \in Clients \ {c} : p.lot \notin Pending(d)
        BY <2>2 DEF PeakInv, LotsAreFresh
      <3>5. KnownLots(s) /\ RowLagsBehind(s)
        BY <2>2 DEF PeakInv
      <3>6. KnownLots(s)'
        BY <2>1, <3>1, <3>2, <3>3, <3>4, <3>5 DEF KnownLots, NotPending
      <3>7. \A d \in Clients \ {c} : Adding(d) => Behind(p, NewPosition(d))
        BY <3>4, PendingLots DEF Behind
      <3>8. Behind(p, p)
        <4>1. p.peak \in Nat
          BY <2>p, PricesAssumption DEF Position
        <4>. QED
          BY <4>1 DEF Behind
      <3>9. RowLagsBehind(s)'
        <4>1. positions[s] # None => Behind(p, positions[s])
          BY <2>2, <3>5 DEF KnownLots, NotPending, Behind
        <4>2. scan[s].pc = "upsert" => Behind(p, scan[s].snapshot)
          BY <2>2, <3>5 DEF KnownLots, NotPending, Behind
        <4>3. \A d \in Clients : Adding(d)' => Behind(p, NewPosition(d)')
          BY <3>2, <3>3, <3>7, <3>8
        <4>. QED
          BY <2>1, <3>1, <3>5, <4>1, <4>2, <4>3 DEF RowLagsBehind, Behind
      <3>10. \A x \in Symbols : rows[x] # None /\ rows[x].lot \in Pending(c)'
                => req'[c].pc = "insert" /\ rows[x].lot = NewPosition(c)'.lot
        BY <2>1, <3>2 DEF PeakInv, KnownLots
      <3>11. \A x \in Symbols : Behind(rows[x], NewPosition(c)')
        BY <2>1, <2>p, <3>2 DEF PeakInv, RowLagsBehind
      <3>. QED
        BY <2>1, <2>2, <3>1, <3>2, <3>6, <3>9, <3>10, <3>11, PeakClientStep
        DEF StoppedIsIdle
    <2>. QED
      BY <1>11, <2>s, <2>p, <2>3, <2>4 DEF AddUpsert
  <1>12. ASSUME NEW c \in Clients, AddInsert(c)
         PROVE  PeakInv'
    <2>1. /\ Adding(c) /\ req[c].pc = "insert" /\ up /\ up' = up
          /\ UNCHANGED <<rows, scan, lots>>
      BY <1>12 DEF AddInsert, Adding
    <2>s. PICK s \in Symbols : s = InHand(c).symbol
      BY <2>1, InHandConcerns
    <2>p. PICK p \in Position : p = NewPosition(c)
      BY <2>1, RequestShape
    <2>2. /\ p # None /\ p.lot \in Pending(c)
          /\ p.lot = req[c].base + req[c].i
      BY <2>1, <2>p, PendingLots
    <2>3. /\ positions'[s] = p
          /\ \A x \in Symbols \ {s} : positions'[x] = positions[x]
          /\ \A d \in Clients \ {c} : req'[d] = req[d]
      BY <1>12, <2>s, <2>p DEF AddInsert, Respond, TypeOK
    <2>4. \A d \in Clients \ {c} :
             /\ Pending(d)' = Pending(d) /\ NewPosition(d)' = NewPosition(d)
             /\ Adding(d)' = Adding(d)
      BY <2>3, ConcernsKept
    <2>5. /\ Pending(c)' \subseteq Pending(c) /\ p.lot \notin Pending(c)'
          /\ Adding(c)' => /\ NewPosition(c)'.lot \in Pending(c)'
                           /\ req'[c].pc = "upsert"
      <3>1. CASE req[c].i < Len(req[c].orders)
        <4>1. req'[c] = [pc |-> "upsert", orders |-> req[c].orders,
                         base |-> req[c].base, i |-> req[c].i + 1]
          BY <1>12, <2>1, <3>1, RequestShape DEF AddInsert, TypeOK
        <4>2. /\ req[c].base \in Nat /\ req[c].i \in Nat
              /\ Len(req[c].orders) \in Nat
          <5>1. /\ req[c].orders \in Seq(Order)
                /\ req[c].base \in Nat /\ req[c].i \in Nat
            BY <2>1, RequestShape
          <5>. QED
            BY <5>1
        <4>3. /\ Pending(c)' = (req[c].base + (req[c].i + 1))
                                  .. (req[c].base + Len(req[c].orders))
              /\ NewPosition(c)'.lot = req[c].base + (req[c].i + 1)
          BY <4>1 DEF Pending, Adding, NewPosition
        <4>4. Pending(c) = (req[c].base + req[c].i)
                              .. (req[c].base + Len(req[c].orders))
          BY <2>1 DEF Pending
        <4>5. Pending(c)' \subseteq Pending(c)
          BY <4>2, <4>3, <4>4
        <4>6. p.lot \notin Pending(c)'
          BY <2>2, <4>2, <4>3
        <4>7. NewPosition(c)'.lot \in Pending(c)'
          BY <3>1, <4>2, <4>3
        <4>. QED
          BY <4>1, <4>5, <4>6, <4>7
      <3>2. CASE ~(req[c].i < Len(req[c].orders))
        <4>1. req'[c].pc = "idle"
          BY <1>12, <3>2 DEF AddInsert, Respond, TypeOK
        <4>. QED
          BY <4>1, IdleConcerns
      <3>. QED
        BY <3>1, <3>2
    <2>6. \A x \in Symbols : rows[x] # None => rows[x].lot \notin Pending(c)'
      BY <2>p, <2>5 DEF PeakInv, KnownLots
    <2>7. p.lot <= lots /\ \A d \in Clients \ {c} : p.lot \notin Pending(d)
      BY <2>2 DEF PeakInv, LotsAreFresh
    <2>8. KnownLots(s) /\ RowLagsBehind(s)
      BY <2>2 DEF PeakInv
    <2>9. KnownLots(s)'
      <3>1. NotPending(p)'
        BY <2>1, <2>4, <2>5, <2>7 DEF NotPending
      <3>2. scan[s].pc = "upsert" => NotPending(scan[s].snapshot)'
        BY <2>1, <2>4, <2>5, <2>8 DEF KnownLots, NotPending
      <3>. QED
        BY <2>1, <2>3, <2>4, <2>6, <2>8, <3>1, <3>2 DEF KnownLots, NotPending
    <2>10. Adding(c)' => \A x \in Symbols : Behind(rows[x], NewPosition(c)')
      BY <2>5, <2>6 DEF Behind
    <2>11. RowLagsBehind(s)'
      <3>1. Behind(rows[s], p)
        BY <2>1, <2>p, <2>8 DEF RowLagsBehind
      <3>2. scan[s].pc = "upsert" => Behind(scan[s].snapshot, p)
        BY <2>2, <2>8 DEF KnownLots, NotPending, Behind
      <3>3. \A d \in Clients : Adding(d)' => Behind(rows[s], NewPosition(d)')
        BY <2>2, <2>4, <2>8, <2>10 DEF RowLagsBehind
      <3>. QED
        BY <2>1, <2>3, <2>8, <3>1, <3>2, <3>3 DEF RowLagsBehind, Behind
    <2>. QED
      BY <2>1, <2>2, <2>3, <2>5, <2>6, <2>9, <2>10, <2>11, PeakClientStep
      DEF StoppedIsIdle
  <1>13. ASSUME NEW c \in Clients, NEW s \in Symbols, RemoveStart(c, s)
         PROVE  PeakInv'
    <2>1. /\ up /\ up' = up /\ UNCHANGED <<rows, scan, lots>>
          /\ req'[c] = [pc |-> "delete", symbol |-> s]
          /\ \A d \in Clients \ {c} : req'[d] = req[d]
          /\ positions'[s] = None
          /\ \A x \in Symbols \ {s} : positions'[x] = positions[x]
      BY <1>13 DEF RemoveStart, CanStart, TypeOK
    <2>2. Pending(c)' = {} /\ ~Adding(c)'
      BY <2>1 DEF Pending, Adding
    <2>3. \A d \in Clients \ {c} :
             /\ Pending(d)' = Pending(d) /\ NewPosition(d)' = NewPosition(d)
             /\ Adding(d)' = Adding(d)
      BY <2>1, ConcernsKept
    <2>4. KnownLots(s) /\ RowLagsBehind(s)
      BY DEF PeakInv
    <2>5. KnownLots(s)'
      BY <2>1, <2>2, <2>3, <2>4 DEF KnownLots, NotPending
    <2>6. RowLagsBehind(s)'
      BY <2>1, <2>2, <2>3, <2>4 DEF RowLagsBehind, Behind
    <2>. QED
      BY <2>1, <2>2, <2>5, <2>6, PeakClientStep DEF StoppedIsIdle
  <1>14. ASSUME NEW c \in Clients, RemoveDelete(c)
         PROVE  PeakInv'
    <2>1. PICK s \in Symbols : s = req[c].symbol
      BY <1>14, RequestShape DEF RemoveDelete
    <2>2. /\ up /\ up' = up /\ req'[c].pc = "idle"
          /\ \A d \in Clients \ {c} : req'[d] = req[d]
          /\ UNCHANGED <<positions, scan, lots>>
          /\ rows'[s] = rows[s] \/ rows'[s] = None
          /\ \A x \in Symbols \ {s} : rows'[x] = rows[x]
      BY <1>14, <2>1 DEF RemoveDelete, Delete, Respond, TypeOK
    <2>. QED
      BY <1>10, <2>2
  <1>15. ASSUME StoppedIsIdle',
                \A c \in Clients : req'[c].pc = "idle",
                \A s \in Symbols : scan'[s].pc = "idle",
                \A s \in Symbols : \/ positions'[s] = None
                                   \/ positions'[s] = rows[s],
                UNCHANGED <<rows, lots>>
         PROVE  PeakInv'
    <2>1. StoppedIsIdle' /\ LotsAreFresh'
      BY <1>15, IdleConcerns DEF LotsAreFresh
    <2>2. ASSUME NEW s \in Symbols
          PROVE  KnownLots(s)' /\ RowLagsBehind(s)'
      <3>1. KnownLots(s) /\ rows[s] \in Position \cup {None}
        BY DEF PeakInv, TypeOK
      <3>2. KnownLots(s)'
        BY <1>15, <3>1, IdleConcerns DEF KnownLots, NotPending
      <3>3. \A p \in Position : Behind(p, p)
        <4>1. \A p \in Position : p.peak \in Nat
          BY PricesAssumption DEF Position
        <4>. QED
          BY <4>1 DEF Behind
      <3>4. RowLagsBehind(s)'
        BY <1>15, <3>1, <3>3, IdleConcerns DEF RowLagsBehind
      <3>. QED
        BY <3>2, <3>4
    <2>. QED
      BY <2>1, <2>2 DEF PeakInv
  <1>16. CASE Crash
    BY <1>15, <1>16 DEF Crash, StoppedIsIdle
  <1>17. CASE Restart
    <2>1. /\ \A c \in Clients : req'[c].pc = "idle"
          /\ \A s \in Symbols : scan'[s].pc = "idle"
          /\ StoppedIsIdle'
          /\ UNCHANGED <<rows, lots>>
      BY <1>17 DEF Restart, PeakInv, StoppedIsIdle
    <2>2. CASE positions' = rows
      BY <1>15, <2>1, <2>2
    <2>3. CASE UNCHANGED positions
      <3>1. \A s \in Symbols : positions[s] = None
        BY <1>17 DEF Restart, PeakInv, StoppedIsIdle
      <3>. QED
        BY <1>15, <2>1, <2>3, <3>1
    <2>. QED
      BY <1>17, <2>2, <2>3 DEF Restart
  <1>18. CASE UNCHANGED vars
    <2>1. \A c \in Clients :
             /\ Pending(c)' = Pending(c) /\ NewPosition(c)' = NewPosition(c)
             /\ Adding(c)' = Adding(c)
      BY <1>18, ConcernsKept DEF vars
    <2>2. UNCHANGED <<up, positions, rows, scan, req, lots>>
      BY <1>18 DEF vars
    <2>3. StoppedIsIdle' /\ LotsAreFresh'
      BY <2>1, <2>2 DEF PeakInv, StoppedIsIdle, LotsAreFresh
    <2>4. ASSUME NEW s \in Symbols
          PROVE  KnownLots(s)' /\ RowLagsBehind(s)'
      BY <2>1, <2>2 DEF PeakInv, KnownLots, NotPending, RowLagsBehind, Behind
    <2>. QED
      BY <2>3, <2>4 DEF PeakInv
  <1>. QED
    BY <1>1, <1>3, <1>5, <1>6, <1>7, <1>8, <1>9, <1>11, <1>12, <1>13, <1>14,
       <1>16, <1>17, <1>18 DEF Next

(* What a step writes to a row of the same lot has at least its peak.       *)
LEMMA RowStep ==
    ASSUME TypeOK, PeakInv, [Next]_vars, NEW s \in Symbols,
           rows[s] # None, rows'[s] # None, rows[s].lot = rows'[s].lot
    PROVE  rows[s].peak <= rows'[s].peak
  <1>1. rows[s].peak <= rows[s].peak
    <2>1. rows[s] \in Position
      BY DEF TypeOK
    <2>2. rows[s].peak \in Nat
      BY <2>1, PricesAssumption DEF Position
    <2>. QED
      BY <2>2
  <1>2. CASE rows'[s] = rows[s]
    BY <1>1, <1>2
  <1>3. ASSUME NEW x \in Symbols, ScanUpsert(x)
        PROVE  rows[s].peak <= rows'[s].peak
    <2>1. \/ rows'[s] = rows[s]
          \/ scan[s].pc = "upsert" /\ rows'[s] = scan[s].snapshot
      BY <1>3 DEF ScanUpsert, Upsert, TypeOK
    <2>. QED
      BY <1>2, <2>1 DEF PeakInv, RowLagsBehind, Behind
  <1>4. ASSUME NEW c \in Clients, AddUpsert(c)
        PROVE  rows[s].peak <= rows'[s].peak
    <2>1. \/ rows'[s] = rows[s]
          \/ Adding(c) /\ rows'[s] = NewPosition(c)
      BY <1>4 DEF AddUpsert, Upsert, Adding, TypeOK
    <2>. QED
      BY <1>2, <2>1 DEF PeakInv, RowLagsBehind, Behind
  <1>5. ASSUME NEW c \in Clients, RemoveDelete(c)
        PROVE  rows'[s] = rows[s]
    BY <1>5 DEF RemoveDelete, Delete, TypeOK
  <1>. QED
    BY <1>2, <1>3, <1>4, <1>5
    DEF Next, StartCycle, ScanQuote, ScanSnapshot, ScanFinish, AddStart,
        AddInsert, RemoveStart, GetSignal, GetFullSignal, Crash, Restart, vars

(* The peak a row keeps for a lot only grows: the scanner's clone, taken   *)
(* before its awaits, never overwrites a higher peak, since one task per   *)
(* symbol scans at a time, each clone starts from the map, and the map     *)
(* starts from the row.                                                    *)
THEOREM StoredPeakNeverFallsAlways == Spec => StoredPeakNeverFalls
  <1>1. Init => PeakInv
    BY IdleConcerns
    DEF Init, PeakInv, StoppedIsIdle, LotsAreFresh, KnownLots, RowLagsBehind, Behind
  <1>2. TypeOK /\ TypeOK' /\ PeakInv /\ [Next]_vars => PeakInv'
    BY PeakStep
  <1>3. TypeOK /\ PeakInv /\ [Next]_vars =>
          [\A s \in Symbols :
             rows[s] # None /\ rows'[s] # None /\ rows[s].lot = rows'[s].lot
                 => rows[s].peak <= rows'[s].peak]_vars
    BY RowStep
  <1>. QED
    BY <1>1, <1>2, <1>3, TypeCorrect, PTL DEF Spec, StoredPeakNeverFalls
=============================================================================
