----------------------------- MODULE CommerceProofs -----------------------------
(***************************************************************************)
(* Proofs about the shop, its deliveries and payments, for any products,   *)
(* carts, couriers, payments, events, sessions, refunds and amounts.       *)
(***************************************************************************)
EXTENDS Deliveries, Payments, FiniteSetTheorems, TLAPS

-----------------------------------------------------------------------------
(* Sums.  SumFunction folds a function over its finite domain in the order  *)
(* of CHOOSE.  What the fold adds up for each subset is unique, and facts   *)
(* about it hold because no smallest subset can violate them.               *)

\* Among the subsets of a finite set that have a property one is minimal.
LEMMA MinimalSubset ==
    ASSUME NEW S, IsFiniteSet(S), NEW F \in SUBSET (SUBSET S), F # {}
    PROVE  \E T \in F : \A U \in SUBSET T : U \in F => U = T
<1>1. IsWellFoundedOn(StrictSubsetOrdering(S), SUBSET S)
  BY FS_StrictSubsetOrderingWellFounded, FS_FiniteSubsetsOfFinite
<1>2. PICK T \in F : \A U \in F : <<U, T>> \notin StrictSubsetOrdering(S)
  BY <1>1, WFMin
<1> QED
  BY <1>2 DEF StrictSubsetOrdering

\* The element that a fold takes first.
Pick(T) == CHOOSE x \in T : TRUE

\* total adds f up over every subset of S.
Adds(total, f, S) ==
    total = [T \in SUBSET S |-> IF T = {} THEN 0 ELSE f[Pick(T)] + total[T \ {Pick(T)}]]

\* Two totals of the same function agree, also if one adds over a larger set.
LEMMA AddsAgree ==
    ASSUME NEW f, NEW A, IsFiniteSet(A), NEW B, A \subseteq B, 
           NEW t, Adds(t, f, A), NEW u, Adds(u, f, B)
    PROVE  t[A] = u[A]
<1> DEFINE F == {T \in SUBSET A : t[T] # u[T]}
<1> SUFFICES ASSUME F # {} PROVE FALSE
  OBVIOUS
<1>1. PICK T \in F : \A U \in SUBSET T : U \in F => U = T
  <2> F \in SUBSET (SUBSET A)
    OBVIOUS
  <2> HIDE DEF F
  <2> QED
    BY MinimalSubset
<1>2. T \in SUBSET A /\ T \in SUBSET B
  OBVIOUS
<1>3. t[T] = (IF T = {} THEN 0 ELSE f[Pick(T)] + t[T \ {Pick(T)}])
  BY <1>2 DEF Adds
<1>4. u[T] = (IF T = {} THEN 0 ELSE f[Pick(T)] + u[T \ {Pick(T)}])
  BY <1>2 DEF Adds
<1>5. T # {} => Pick(T) \in T
  BY DEF Pick
<1>6. T # {} => t[T \ {Pick(T)}] = u[T \ {Pick(T)}]
  BY <1>1, <1>5
<1> QED
  BY <1>1, <1>3, <1>4, <1>6

\* Every function has a total over a finite set.
LEMMA AddsExists ==
    ASSUME NEW S, IsFiniteSet(S), NEW f
    PROVE  \E t : Adds(t, f, S)
<1> DEFINE F == {T \in SUBSET S : ~ \E t : Adds(t, f, T)}
<1> SUFFICES ASSUME F # {} PROVE FALSE
  OBVIOUS
<1>1. PICK T \in F : \A U \in SUBSET T : U \in F => U = T
  <2> F \in SUBSET (SUBSET S)
    OBVIOUS
  <2> HIDE DEF F
  <2> QED
    BY MinimalSubset
<1> DEFINE sol(U) == CHOOSE t : Adds(t, f, U)
           rest == T \ {Pick(T)}
           g == [U \in SUBSET T |-> IF U # T THEN sol(U)[U]
                                    ELSE IF T = {} THEN 0 ELSE f[Pick(T)] + sol(rest)[rest]]
<1>2. ASSUME NEW U \in SUBSET T, U # T
      PROVE  Adds(sol(U), f, U) /\ IsFiniteSet(U)
  <2>1. \E t : Adds(t, f, U)
    BY <1>1, <1>2
  <2>2. IsFiniteSet(U)
    BY FS_Subset
  <2> QED
    BY <2>1, <2>2
<1>3. ASSUME NEW U \in SUBSET T, U # {}
      PROVE  g[U] = f[Pick(U)] + g[U \ {Pick(U)}]
  <2>1. Pick(U) \in U
    BY <1>3 DEF Pick
  <2> DEFINE V == U \ {Pick(U)}
  <2>2. V \in SUBSET T /\ V # T /\ V \subseteq U
    BY <2>1
  <2>3. g[V] = sol(V)[V]
    BY <2>2
  <2>4. CASE U = T
    BY <2>4, <2>3, <1>3
  <2>5. CASE U # T
    <3>1. g[U] = sol(U)[U]
      BY <2>5
    <3>2. sol(U)[U] = f[Pick(U)] + sol(U)[V]
      <4>1. Adds(sol(U), f, U)
        BY <1>2, <2>5
      <4> HIDE DEF sol
      <4> QED
        BY <4>1, <1>3 DEF Adds
    <3>3. sol(U)[V] = sol(V)[V]
      <4>1. Adds(sol(U), f, U) /\ Adds(sol(V), f, V) /\ IsFiniteSet(V)
        BY <1>2, <2>2, <2>5
      <4> HIDE DEF sol
      <4> QED
        BY <4>1, <2>2, AddsAgree
    <3> HIDE DEF sol, g
    <3> QED
      BY <2>3, <3>1, <3>2, <3>3
  <2> QED
    BY <2>4, <2>5
<1>4. g[{}] = 0
  <2>1. CASE T = {}
    BY <2>1
  <2>2. CASE T # {}
    <3>1. Adds(sol({}), f, {})
      BY <1>2, <2>2
    <3> HIDE DEF sol
    <3>2. sol({})[{}] = 0
      BY <3>1 DEF Adds
    <3> QED
      BY <3>2, <2>2
  <2> QED
    BY <2>1, <2>2
<1>5. Adds(g, f, T)
  <2>1. g = [U \in SUBSET T |-> g[U]]
    OBVIOUS
  <2> HIDE DEF g
  <2> QED
    BY <1>3, <1>4, <2>1 DEF Adds
<1> QED
  BY <1>1, <1>5

\* What SumFunction adds up is that total.
LEMMA SumIsATotal ==
    ASSUME NEW S, IsFiniteSet(S), NEW f, DOMAIN f = S
    PROVE  \E t : Adds(t, f, S) /\ SumFunction(f) = t[S]
<1> DEFINE t == CHOOSE iter : iter = [s \in SUBSET S |->
                    IF s = {} THEN 0 ELSE f[CHOOSE x \in s : TRUE] + iter[s \ {CHOOSE x \in s : TRUE}]]
<1>1. Adds(t, f, S)
  <2>1. \E u : Adds(u, f, S)
    BY AddsExists
  <2> QED
    BY <2>1 DEF Adds, Pick
<1>2. SumFunction(f) = t[S]
  BY DEF SumFunction, SumFunctionOnSet, FoldFunctionOnSet, MapThenFoldSet
<1> QED
  BY <1>1, <1>2

\* A sum of naturals is a natural.
LEMMA SumType ==
    ASSUME NEW S, IsFiniteSet(S), NEW f \in [S -> Nat]
    PROVE  SumFunction(f) \in Nat
<1>1. PICK t : Adds(t, f, S) /\ SumFunction(f) = t[S]
  BY SumIsATotal
<1> DEFINE F == {T \in SUBSET S : t[T] \notin Nat}
<1> SUFFICES ASSUME F # {} PROVE FALSE
  BY <1>1
<1>2. PICK T \in F : \A U \in SUBSET T : U \in F => U = T
  <2> F \in SUBSET (SUBSET S)
    OBVIOUS
  <2> HIDE DEF F
  <2> QED
    BY MinimalSubset
<1>3. t[T] = IF T = {} THEN 0 ELSE f[Pick(T)] + t[T \ {Pick(T)}]
  BY <1>1, <1>2 DEF Adds
<1>4. T # {} => Pick(T) \in T
  BY DEF Pick
<1>5. T # {} => t[T \ {Pick(T)}] \in Nat
  BY <1>2, <1>4
<1> QED
  BY <1>2, <1>3, <1>4, <1>5

\* Two functions that differ in one argument have sums that differ by it.
LEMMA SumChange ==
    ASSUME NEW S, IsFiniteSet(S), NEW f \in [S -> Nat], NEW g \in [S -> Nat], NEW x \in S,
           \A y \in S \ {x} : g[y] = f[y]
    PROVE  SumFunction(g) + f[x] = SumFunction(f) + g[x]
<1>1. PICK t : Adds(t, f, S) /\ SumFunction(f) = t[S]
  BY SumIsATotal
<1>2. PICK u : Adds(u, g, S) /\ SumFunction(g) = u[S]
  BY SumIsATotal
<1> DEFINE Good(T) == /\ t[T] \in Nat /\ u[T] \in Nat
                      /\ IF x \in T THEN u[T] + f[x] = t[T] + g[x] ELSE u[T] = t[T]
           F == {T \in SUBSET S : ~Good(T)}
<1> SUFFICES ASSUME F # {} PROVE FALSE
  BY <1>1, <1>2
<1>3. PICK T \in F : \A U \in SUBSET T : U \in F => U = T
  <2> F \in SUBSET (SUBSET S)
    OBVIOUS
  <2> HIDE DEF F
  <2> QED
    BY MinimalSubset
<1>4. /\ t[T] = IF T = {} THEN 0 ELSE f[Pick(T)] + t[T \ {Pick(T)}]
      /\ u[T] = IF T = {} THEN 0 ELSE g[Pick(T)] + u[T \ {Pick(T)}]
  <2>1. T \in SUBSET S
    OBVIOUS
  <2> HIDE DEF F
  <2> QED
    BY <1>1, <1>2, <2>1 DEF Adds
<1>5. T # {} => Pick(T) \in T
  BY DEF Pick
<1>6. T # {} => Good(T \ {Pick(T)})
  BY <1>3, <1>5
<1>7. CASE T = {}
  BY <1>3, <1>4, <1>7
<1>8. CASE T # {}
  <2>1. f[Pick(T)] \in Nat /\ g[Pick(T)] \in Nat /\ f[x] \in Nat /\ g[x] \in Nat
    BY <1>3, <1>5, <1>8
  <2>2. CASE Pick(T) = x
    BY <2>1, <2>2, <1>3, <1>4, <1>5, <1>6, <1>8
  <2>3. CASE Pick(T) # x
    <3>1. g[Pick(T)] = f[Pick(T)]
      BY <2>3, <1>3, <1>5, <1>8
    <3> QED
      BY <2>1, <2>3, <3>1, <1>3, <1>4, <1>5, <1>6, <1>8
  <2> QED
    BY <2>2, <2>3
<1> QED
  BY <1>7, <1>8

\* The sum of a function that is zero everywhere.
LEMMA SumZero ==
    ASSUME NEW S, IsFiniteSet(S)
    PROVE  SumFunction([y \in S |-> 0]) = 0
<1> DEFINE f == [y \in S |-> 0]
<1>1. PICK t : Adds(t, f, S) /\ SumFunction(f) = t[S]
  BY SumIsATotal
<1> DEFINE F == {T \in SUBSET S : t[T] # 0}
<1> SUFFICES ASSUME F # {} PROVE FALSE
  BY <1>1
<1>2. PICK T \in F : \A U \in SUBSET T : U \in F => U = T
  <2> F \in SUBSET (SUBSET S)
    OBVIOUS
  <2> HIDE DEF F
  <2> QED
    BY MinimalSubset
<1>3. t[T] = IF T = {} THEN 0 ELSE f[Pick(T)] + t[T \ {Pick(T)}]
  BY <1>1, <1>2 DEF Adds
<1>4. T # {} => Pick(T) \in T
  BY DEF Pick
<1>5. T # {} => t[T \ {Pick(T)}] = 0
  BY <1>2, <1>4
<1> QED
  BY <1>2, <1>3, <1>4, <1>5

-----------------------------------------------------------------------------
(* Carts, stock and orders. *)

\* What is in a cart is, or was, on the shelf, and an order has a cart that was
\* checked out.
CartsAgree ==
    /\ \A c \in Carts, p \in Products : cart[c].qty[p] > 0 => stock[p] # NoProduct
    /\ \A c \in Carts : order[c] # "none" => cart[c].status = "checked_out"

\* What is known of the sales since a count.
SalesAgree ==
    /\ \A p \in Products : \A c \in since[p].orders : cart[c].status = "checked_out"
    /\ \A p \in Products : stock[p] = NoProduct => since[p] = NoSales

ShopInv == ShopTypeOK /\ CartsAgree /\ SalesAgree

\* What a step of Deliveries is for the shop: a step of the shop's own, or the
\* order of a dish that is ready.
ShopStep ==
    \/ ShopNext
    \/ \E c \in Carts, new \in {"ready", "out_for_delivery"} :
          OrderMay(c, "ready") /\ OrderMoves(c, new)
    \/ UNCHANGED shopVars

\* Every step of Deliveries is one of these.
LEMMA ShopSteps ==
    ASSUME [Next]_vars
    PROVE  ShopStep
<1>1. CASE \E c \in Carts, W \in SUBSET Couriers : Ready(c, W)
  BY <1>1 DEF Ready, ShopStep
<1>2. CASE UNCHANGED shopVars
  BY <1>2 DEF ShopStep
<1> QED
  BY <1>1, <1>2
     DEF Next, vars, ShopStep, DispatchMore, Reassign, OfferEnds, AcceptOffer, AssignCourier,
         TransitionRequest, RequestMoves, TransitionDelivery, ProofChecks, ProofRecorded

\* Steps of an order leave the shelf alone.
LEMMA MovesKeepShop ==
    ASSUME ShopInv, NEW c \in Carts, NEW new \in OrderStatus, order[c] # "none",
           OrderMoves(c, new)
    PROVE  ShopInv'
<1>1. ShopTypeOK'
  BY DEF ShopInv, ShopTypeOK, OrderMoves
<1>2. CartsAgree'
  BY DEF ShopInv, ShopTypeOK, CartsAgree, OrderMoves
<1>3. SalesAgree'
  BY DEF ShopInv, SalesAgree, OrderMoves
<1> QED
  BY <1>1, <1>2, <1>3 DEF ShopInv

\* What an opened cart is.
LEMMA OpenedIs ==
    ASSUME ShopTypeOK, NEW c \in Carts, Active(c) \/ Insertable(c)
    PROVE  /\ Opened(c) \in [Carts -> [status : CartStatus, qty : [Products -> Nat]]]
           /\ Opened(c)[c].status = "active" /\ Opened(c)[c].qty = cart[c].qty
           /\ \A d \in Carts \ {c} : Opened(c)[d] = cart[d]
           /\ cart[c].status # "checked_out"
<1> DEFINE Row == [status : CartStatus, qty : [Products -> Nat]]
<1>1. cart \in [Carts -> Row] /\ cart[c] \in Row
  BY DEF ShopTypeOK
<1>2. [cart[c] EXCEPT !.status = "active"] \in Row
  BY <1>1 DEF CartStatus
<1>3. CASE Active(c)
  BY <1>1, <1>3 DEF Opened, Active
<1>4. CASE ~Active(c)
  <2>1. Opened(c) = [cart EXCEPT ![c] = [cart[c] EXCEPT !.status = "active"]]
    BY <1>4, Zenon DEF Opened
  <2>2. cart[c].status = "none"
    BY <1>4 DEF Insertable
  <2> HIDE DEF Row
  <2>3. Opened(c) \in [Carts -> Row]
    BY <1>1, <1>2, <2>1
  <2>4. Opened(c)[c] = [cart[c] EXCEPT !.status = "active"]
    BY <1>1, <2>1
  <2>5. Opened(c)[c].status = "active" /\ Opened(c)[c].qty = cart[c].qty
    BY <1>1, <2>4 DEF Row
  <2>6. \A d \in Carts \ {c} : Opened(c)[d] = cart[d]
    BY <1>1, <2>1
  <2> USE DEF Row
  <2> QED
    BY <2>2, <2>3, <2>5, <2>6
<1> QED
  BY <1>3, <1>4

\* A step that touches one cart, not checked out before nor after, and nothing
\* else, and puts in it only what is on the shelf.
LEMMA CartWritesKeepShop ==
    ASSUME ShopInv, NEW c \in Carts, UNCHANGED <<stock, order, counted, since>>,
           cart' \in [Carts -> [status : CartStatus, qty : [Products -> Nat]]],
           \A d \in Carts \ {c} : cart'[d] = cart[d],
           cart[c].status # "checked_out", cart'[c].status # "checked_out",
           \A p \in Products : cart'[c].qty[p] > cart[c].qty[p] => stock[p] # NoProduct
    PROVE  ShopInv' /\ \A p \in Products : SoldSince(p)' = SoldSince(p)
<1>1. ShopTypeOK'
  BY DEF ShopInv, ShopTypeOK
<1>2. CartsAgree'
  <2>1. ASSUME NEW d \in Carts, NEW p \in Products, cart'[d].qty[p] > 0
        PROVE  stock[p] # NoProduct
    <3>1. CASE d = c
      <4>1. cart[c].qty[p] \in Nat /\ cart'[c].qty[p] \in Nat
        BY DEF ShopInv, ShopTypeOK
      <4>2. cart[c].qty[p] > 0 \/ cart'[c].qty[p] > cart[c].qty[p]
        BY <2>1, <3>1, <4>1
      <4> QED
        BY <4>2 DEF ShopInv, CartsAgree
    <3>2. CASE d # c
      BY <2>1, <3>2 DEF ShopInv, CartsAgree
    <3> QED
      BY <3>1, <3>2
  <2>2. \A d \in Carts : order[d] # "none" => cart'[d].status = "checked_out"
    BY DEF ShopInv, CartsAgree
  <2> QED
    BY <2>1, <2>2 DEF CartsAgree
<1>3. \A p \in Products : since[p].orders \subseteq Carts \ {c}
  BY DEF ShopInv, ShopTypeOK, SalesAgree
<1>4. SalesAgree'
  <2>1. \A p \in Products : \A d \in since[p].orders : cart'[d].status = "checked_out"
    BY <1>3 DEF ShopInv, SalesAgree
  <2> QED
    BY <2>1 DEF ShopInv, SalesAgree
<1>5. \A p \in Products : SoldSince(p)' = SoldSince(p)
  BY <1>3 DEF SoldSince
<1> QED
  BY <1>1, <1>2, <1>4, <1>5 DEF ShopInv

\* Every step of the shop and of its orders keeps the shop's tables in agreement.
LEMMA ShopInvStep ==
    ASSUME ShopInv, ShopStep
    PROVE  ShopInv'
<1> USE OrdersAssumption DEF OrdersAssumption
<1>1. ASSUME NEW p \in Products, NEW q \in Quantity,
             AddProduct(p, q) \/ UpdateStock(p, q)
      PROVE  ShopInv'
  <2>1. q \in Nat
    BY DEF Quantity
  <2>2. ShopTypeOK'
    <3>1. NoSales \in [orders : SUBSET Carts, counter : Nat]
      BY DEF NoSales
    <3>2. since' \in [Products -> [orders : SUBSET Carts, counter : Nat]]
      BY <1>1, <3>1 DEF ShopInv, ShopTypeOK, AddProduct, UpdateStock
    <3> QED
      BY <1>1, <2>1, <3>2 DEF ShopInv, ShopTypeOK, AddProduct, UpdateStock
  <2>3. CartsAgree'
    BY <1>1, <2>1 DEF ShopInv, ShopTypeOK, CartsAgree, AddProduct, UpdateStock
  <2>4. SalesAgree'
    <3>1. NoSales.orders = {}
      BY DEF NoSales
    <3>2. \A r \in Products \ {p} : stock'[r] = stock[r] /\ since'[r] = since[r]
      BY <1>1 DEF ShopInv, ShopTypeOK, AddProduct, UpdateStock
    <3>3. stock'[p] # NoProduct /\ since'[p] \in {since[p], NoSales} /\ cart' = cart
      BY <1>1, <2>1 DEF ShopInv, ShopTypeOK, AddProduct, UpdateStock
    <3> QED
      BY <3>1, <3>2, <3>3 DEF ShopInv, SalesAgree
  <2> QED
    BY <2>2, <2>3, <2>4 DEF ShopInv
<1>2. ASSUME NEW p \in Products, NEW q \in Quantity, CounterSale(p, q)
      PROVE  ShopInv'
  <2>1. q \in Nat /\ stock[p] \in Nat /\ stock[p] - q \in Nat /\ since[p].counter + q \in Nat
    BY <1>2 DEF Quantity, CounterSale, ShopInv, ShopTypeOK
  <2>2. [since[p] EXCEPT !.counter = since[p].counter + q] \in [orders : SUBSET Carts, counter : Nat]
    BY <2>1 DEF ShopInv, ShopTypeOK
  <2>3. since' = [since EXCEPT ![p] = [since[p] EXCEPT !.counter = since[p].counter + q]]
    BY <1>2, Zenon DEF CounterSale
  <2>4. ShopTypeOK'
    BY <1>2, <2>1, <2>2, <2>3 DEF ShopInv, ShopTypeOK, CounterSale
  <2>5. CartsAgree'
    BY <1>2, <2>1 DEF ShopInv, ShopTypeOK, CartsAgree, CounterSale
  <2>6. SalesAgree'
    <3>1. \A r \in Products : since'[r].orders = since[r].orders
      BY <2>3 DEF ShopInv, ShopTypeOK
    <3>2. \A r \in Products : stock'[r] = NoProduct => since'[r] = since[r] /\ stock[r] = NoProduct
      BY <1>2, <2>1, <2>3 DEF ShopInv, ShopTypeOK, CounterSale
    <3> QED
      BY <1>2, <3>1, <3>2 DEF ShopInv, SalesAgree, CounterSale
  <2> QED
    BY <2>4, <2>5, <2>6 DEF ShopInv
<1>3. ASSUME NEW c \in Carts, NEW p \in Products, NEW q \in Quantity,
             AddToCart(c, p, q)
      PROVE  ShopInv'
  <2>1. cart' = [Opened(c) EXCEPT ![c] = [Opened(c)[c] EXCEPT !.qty =
                                             [Opened(c)[c].qty EXCEPT ![p] = @ + q]]]
    BY <1>3, Zenon DEF AddToCart
  <2>2. q \in Nat /\ cart[c].qty \in [Products -> Nat] /\ cart[c].qty[p] + q \in Nat
    BY DEF Quantity, ShopInv, ShopTypeOK
  <2> QED
    <3> DEFINE Row == [status : CartStatus, qty : [Products -> Nat]]
    <3>1. /\ Opened(c) \in [Carts -> Row]
          /\ Opened(c)[c].status = "active" /\ Opened(c)[c].qty = cart[c].qty
          /\ \A d \in Carts \ {c} : Opened(c)[d] = cart[d]
          /\ cart[c].status # "checked_out"
      BY <1>3, OpenedIs DEF AddToCart, ShopInv
    <3>2. cart' \in [Carts -> Row]
      BY <2>1, <2>2, <3>1
    <3>3. cart'[c].status = "active" /\ \A d \in Carts \ {c} : cart'[d] = cart[d]
      BY <2>1, <3>1
    <3>4. \A r \in Products : cart'[c].qty[r] > cart[c].qty[r] => r = p
      BY <2>1, <2>2, <3>1
    <3> QED
      BY <1>3, <3>1, <3>2, <3>3, <3>4, CartWritesKeepShop DEF AddToCart
<1>4. ASSUME NEW c \in Carts, NEW p \in Products, AddIsRefused(c, p)
      PROVE  ShopInv'
  BY <1>4, OpenedIs, CartWritesKeepShop DEF AddIsRefused, ShopInv
<1>5. ASSUME NEW c \in Carts, NEW p \in Products, NEW q \in Quantity,
             UpdateCartItem(c, p, q)
      PROVE  ShopInv'
  <2>1. cart' = [cart EXCEPT ![c] = [cart[c] EXCEPT !.qty = [cart[c].qty EXCEPT ![p] = q]]]
    BY <1>5, Zenon DEF UpdateCartItem
  <2>2. q \in Nat /\ cart[c].qty \in [Products -> Nat]
    BY DEF Quantity, ShopInv, ShopTypeOK
  <2> QED
    <3> DEFINE Row == [status : CartStatus, qty : [Products -> Nat]]
    <3>1. cart \in [Carts -> Row] /\ cart[c].status = "active" /\ stock[p] # NoProduct
      BY <1>5 DEF UpdateCartItem, Active, ShopInv, ShopTypeOK, CartsAgree
    <3>2. cart' \in [Carts -> Row]
      BY <2>1, <2>2, <3>1
    <3>3. cart'[c].status = "active" /\ \A d \in Carts \ {c} : cart'[d] = cart[d]
      BY <2>1, <3>1
    <3>4. \A r \in Products : cart'[c].qty[r] > cart[c].qty[r] => r = p
      BY <2>1, <2>2, <3>1
    <3> QED
      BY <1>5, <3>1, <3>2, <3>3, <3>4, CartWritesKeepShop DEF UpdateCartItem
<1>6. ASSUME NEW c \in Carts, Checkout(c)
      PROVE  ShopInv'
  <2>1. \A p \in Items(c) : stock[p] \in Nat /\ stock[p] - cart[c].qty[p] \in Nat
    BY <1>6 DEF Checkout, Items, ShopInv, ShopTypeOK, CartsAgree
  <2>2. stock' \in [Products -> Nat \cup {NoProduct}]
    BY <1>6, <2>1 DEF Checkout, Decremented, ShopInv, ShopTypeOK
  <2>3. since' \in [Products -> [orders : SUBSET Carts, counter : Nat]]
    <3>1. \A p \in Products :
            [since[p] EXCEPT !.orders = since[p].orders \cup {c}] \in [orders : SUBSET Carts, counter : Nat]
      BY DEF ShopInv, ShopTypeOK
    <3> QED
      BY <1>6, <3>1 DEF Checkout, ShopInv, ShopTypeOK
  <2>4. cart' \in [Carts -> [status : CartStatus, qty : [Products -> Nat]]]
    BY <1>6 DEF Checkout, ShopInv, ShopTypeOK, CartStatus
  <2>5. ShopTypeOK'
    BY <1>6, <2>2, <2>3, <2>4 DEF Checkout, ShopInv, ShopTypeOK, OrderStatus
  <2>6. /\ \A d \in Carts : cart'[d].qty = cart[d].qty
        /\ \A d \in Carts \ {c} : cart'[d].status = cart[d].status /\ order'[d] = order[d]
        /\ cart'[c].status = "checked_out"
    BY <1>6 DEF Checkout, ShopInv, ShopTypeOK
  <2>7. \A p \in Products : stock'[p] = NoProduct => stock[p] = NoProduct /\ p \notin Items(c)
    BY <1>6, <2>1 DEF Checkout, Decremented
  <2>8. CartsAgree'
    BY <2>6, <2>7 DEF CartsAgree, ShopInv
  <2>9. SalesAgree'
    <3>1. \A p \in Products : since'[p].orders \subseteq since[p].orders \cup {c}
      BY <1>6 DEF Checkout, ShopInv, ShopTypeOK
    <3>2. \A p \in Products : p \notin Items(c) => since'[p] = since[p]
      BY <1>6 DEF Checkout
    <3>3. \A p \in Products : \A d \in since'[p].orders : cart'[d].status = "checked_out"
      BY <2>6, <3>1 DEF ShopInv, ShopTypeOK, SalesAgree
    <3> QED
      BY <2>7, <3>2, <3>3 DEF ShopInv, SalesAgree
  <2> QED
    BY <2>5, <2>8, <2>9 DEF ShopInv
<1>7. ASSUME NEW c \in Carts, MarkOrderPaid(c) \/ CancelCustomerOrder(c)
      PROVE  ShopInv'
  BY <1>7, MovesKeepShop DEF MarkOrderPaid, CancelCustomerOrder, AwaitsPayment, OrderStatus
<1>8. ASSUME NEW c \in Carts, NEW new \in OrderStatus, MerchantTransition(c, new)
      PROVE  ShopInv'
  BY <1>8, MovesKeepShop DEF MerchantTransition, OrderMay
<1>9. ASSUME NEW c \in Carts, NEW new \in {"ready", "out_for_delivery"},
             OrderMay(c, "ready"), OrderMoves(c, new)
      PROVE  ShopInv'
  BY <1>9, MovesKeepShop DEF OrderMay, OrderStatus
<1>10. CASE UNCHANGED shopVars
  BY <1>10 DEF shopVars, ShopInv, ShopTypeOK, CartsAgree, SalesAgree
<1> QED
  BY <1>1, <1>2, <1>3, <1>4, <1>5, <1>6, <1>7, <1>8, <1>9, <1>10 DEF ShopStep, ShopNext

\* One product of StockIsCounted.
Counted(p) == counted[p] = stock[p] + since[p].counter + SumFunction(SoldSince(p))

\* What was sold of a product is a finite sum of naturals.
LEMMA SoldIsNat ==
    ASSUME ShopTypeOK, NEW p \in Products
    PROVE  SoldSince(p) \in [Carts -> Nat] /\ SumFunction(SoldSince(p)) \in Nat
<1>1. SoldSince(p) \in [Carts -> Nat]
  BY DEF SoldSince, ShopTypeOK
<1> QED
  BY <1>1, SumType, OrdersAssumption DEF OrdersAssumption

\* Nothing is sold of a product that was just counted.
LEMMA NothingSold ==
    ASSUME NEW p \in Products
    PROVE  /\ since[p] = NoSales => SumFunction(SoldSince(p)) = 0
           /\ since'[p] = NoSales => SumFunction(SoldSince(p)') = 0
<1>1. since[p] = NoSales => SoldSince(p) = [c \in Carts |-> 0]
  BY DEF SoldSince, NoSales
<1>2. since'[p] = NoSales => SoldSince(p)' = [c \in Carts |-> 0]
  BY DEF SoldSince, NoSales
<1> QED
  BY <1>1, <1>2, SumZero, OrdersAssumption DEF OrdersAssumption

\* What a step does not touch stays counted.
LEMMA UntouchedStaysCounted ==
    ASSUME NEW p \in Products, Counted(p), SoldSince(p)' = SoldSince(p),
           stock'[p] = stock[p], counted'[p] = counted[p],
           since'[p].counter = since[p].counter
    PROVE  Counted(p)'
  BY DEF Counted

\* A checkout takes from the shelf what it adds to the orders since the count.
LEMMA CheckoutIsCounted ==
    ASSUME ShopInv, NEW c \in Carts, Checkout(c), NEW p \in Items(c), Counted(p)
    PROVE  Counted(p)'
<1> DEFINE f == SoldSince(p)
           g == SoldSince(p)'
<1>1. /\ p \in Products /\ stock[p] \in Nat /\ cart[c].qty[p] \in Nat
      /\ counted[p] \in Nat /\ since[p].counter \in Nat
  BY DEF Items, Checkout, ShopInv, ShopTypeOK, CartsAgree
<1>2. c \notin since[p].orders
  BY <1>1 DEF Checkout, Active, ShopInv, SalesAgree
<1>3. /\ stock'[p] = stock[p] - cart[c].qty[p]
      /\ counted'[p] = counted[p]
      /\ since'[p].counter = since[p].counter
      /\ since'[p].orders = since[p].orders \cup {c}
  BY <1>1 DEF Checkout, Decremented, ShopInv, ShopTypeOK
<1>4. \A d \in Carts : cart'[d].qty[p] = cart[d].qty[p]
  BY DEF Checkout, ShopInv, ShopTypeOK
<1>5. ShopTypeOK'
  BY ShopInvStep DEF ShopStep, ShopNext, ShopInv
<1>6. f \in [Carts -> Nat] /\ g \in [Carts -> Nat] /\ SumFunction(f) \in Nat /\ SumFunction(g) \in Nat
  <2>1. f \in [Carts -> Nat] /\ SumFunction(f) \in Nat
    BY <1>1, SoldIsNat DEF ShopInv
  <2>2. g \in [Carts -> Nat]
    BY <1>1, <1>5 DEF SoldSince, ShopTypeOK
  <2> HIDE DEF f, g
  <2> QED
    BY <2>1, <2>2, SumType, OrdersAssumption DEF OrdersAssumption
<1>7. f[c] = 0 /\ g[c] = cart[c].qty[p] /\ \A d \in Carts \ {c} : g[d] = f[d]
  BY <1>2, <1>3, <1>4 DEF SoldSince
<1>8. SumFunction(g) + f[c] = SumFunction(f) + g[c]
  <2> HIDE DEF f, g
  <2> QED
    BY <1>6, <1>7, SumChange, OrdersAssumption DEF OrdersAssumption
<1>9. counted'[p] = stock'[p] + since'[p].counter + SumFunction(g)
  <2>1. counted[p] = stock[p] + since[p].counter + SumFunction(f)
    BY DEF Counted
  <2> HIDE DEF f, g
  <2> QED
    BY <1>1, <1>3, <1>6, <1>7, <1>8, <2>1
<1> QED
  BY <1>9 DEF Counted

\* Every step keeps the shelf equal to what was counted less what was sold.
LEMMA StockStep ==
    ASSUME ShopInv, StockIsCounted, ShopStep
    PROVE  StockIsCounted'
<1> USE OrdersAssumption DEF OrdersAssumption
<1> SUFFICES ASSUME NEW p \in Products, stock'[p] # NoProduct
             PROVE  Counted(p)'
  <2>1. ShopTypeOK'
    BY ShopInvStep DEF ShopInv
  <2>2. \A p \in Products : stock'[p] # NoProduct => stock'[p] >= 0
    BY <2>1 DEF ShopTypeOK
  <2> QED
    BY <2>2 DEF StockIsCounted, Counted
<1>1. stock[p] # NoProduct => Counted(p)
  BY DEF StockIsCounted, Counted
<1>2. ASSUME NEW r \in Products, NEW q \in Quantity, AddProduct(r, q) \/ UpdateStock(r, q)
      PROVE  Counted(p)'
  <2>1. q \in Nat
    BY DEF Quantity
  <2>2. CASE p = r
    <3>1. since'[p] = NoSales
      BY <1>2, <2>2 DEF AddProduct, UpdateStock, ShopInv, ShopTypeOK, SalesAgree
    <3>2. SumFunction(SoldSince(p)') = 0
      BY <3>1, NothingSold
    <3>3. stock'[p] = q /\ counted'[p] = q /\ since'[p].counter = 0
      BY <1>2, <2>2, <3>1 DEF AddProduct, UpdateStock, ShopInv, ShopTypeOK, NoSales
    <3>4. counted'[p] = stock'[p] + since'[p].counter + SumFunction(SoldSince(p)')
      BY <2>1, <3>2, <3>3
    <3> QED
      BY <3>4 DEF Counted
  <2>3. CASE p # r
    <3>1. /\ stock'[p] = stock[p] /\ counted'[p] = counted[p] /\ since'[p] = since[p]
          /\ cart' = cart
      BY <1>2, <2>3 DEF AddProduct, UpdateStock, ShopInv, ShopTypeOK
    <3>2. SoldSince(p)' = SoldSince(p)
      BY <3>1 DEF SoldSince
    <3> QED
      BY <1>1, <3>1, <3>2, UntouchedStaysCounted
  <2> QED
    BY <2>2, <2>3
<1>3. ASSUME NEW r \in Products, NEW q \in Quantity, CounterSale(r, q)
      PROVE  Counted(p)'
  <2>1. q \in Nat /\ stock[r] \in Nat /\ \A t \in Products : since[t].counter \in Nat /\ counted[t] \in Nat
    BY <1>3 DEF Quantity, CounterSale, ShopInv, ShopTypeOK
  <2>2. since' = [since EXCEPT ![r] = [since[r] EXCEPT !.counter = since[r].counter + q]]
    BY <1>3, Zenon DEF CounterSale
  <2>3. since'[p].orders = since[p].orders /\ cart' = cart /\ counted' = counted
    BY <1>3, <2>2 DEF CounterSale, ShopInv, ShopTypeOK
  <2>4. SoldSince(p)' = SoldSince(p)
    BY <2>3 DEF SoldSince
  <2>5. CASE p = r
    <3>1. stock'[p] = stock[p] - q /\ since'[p].counter = since[p].counter + q
      BY <1>3, <2>2, <2>5 DEF CounterSale, ShopInv, ShopTypeOK
    <3>2. Counted(p)
      BY <1>1, <1>3, <2>5 DEF CounterSale
    <3>3. SumFunction(SoldSince(p)) \in Nat
      BY SoldIsNat DEF ShopInv
    <3>4. counted'[p] = stock'[p] + since'[p].counter + SumFunction(SoldSince(p))
      BY <2>1, <2>3, <2>5, <3>1, <3>2, <3>3 DEF Counted
    <3> QED
      BY <2>4, <3>4 DEF Counted
  <2>6. CASE p # r
    <3>1. stock'[p] = stock[p] /\ since'[p].counter = since[p].counter
      BY <1>3, <2>2, <2>6 DEF CounterSale, ShopInv, ShopTypeOK
    <3> QED
      BY <1>1, <2>3, <2>4, <3>1, UntouchedStaysCounted
  <2> QED
    BY <2>5, <2>6
<1>4. ASSUME NEW c \in Carts, Checkout(c)
      PROVE  Counted(p)'
  <2>1. CASE p \in Items(c)
    <3>1. Counted(p)
      BY <1>1, <2>1 DEF Items, ShopInv, CartsAgree
    <3> QED
      BY <1>4, <2>1, <3>1, CheckoutIsCounted
  <2>2. CASE p \notin Items(c)
    <3>1. /\ stock'[p] = stock[p] /\ counted'[p] = counted[p] /\ since'[p] = since[p]
          /\ \A d \in Carts : cart'[d].qty = cart[d].qty
      BY <1>4, <2>2 DEF Checkout, Decremented, ShopInv, ShopTypeOK
    <3>2. SoldSince(p)' = SoldSince(p)
      BY <3>1 DEF SoldSince
    <3> QED
      BY <1>1, <3>1, <3>2, UntouchedStaysCounted
  <2> QED
    BY <2>1, <2>2
<1>5. ASSUME NEW c \in Carts, NEW r \in Products, NEW q \in Quantity,
             AddToCart(c, r, q) \/ UpdateCartItem(c, r, q) \/ AddIsRefused(c, r)
      PROVE  Counted(p)'
  <2>1. stock' = stock /\ counted' = counted /\ since' = since
    BY <1>5 DEF AddToCart, UpdateCartItem, AddIsRefused
  <2>2. SoldSince(p)' = SoldSince(p)
    <3>1. \A d \in since[p].orders : d \in Carts /\ cart[d].status = "checked_out"
      BY DEF ShopInv, ShopTypeOK, SalesAgree
    <3>2. c \notin since[p].orders
      BY <1>5, <3>1, OpenedIs DEF AddToCart, UpdateCartItem, AddIsRefused, Active, Insertable, ShopInv
    <3>3. \A d \in Carts \ {c} : cart'[d] = cart[d]
      BY <1>5, OpenedIs DEF AddToCart, UpdateCartItem, AddIsRefused, ShopInv, ShopTypeOK
    <3> QED
      BY <2>1, <3>2, <3>3 DEF SoldSince
  <2> QED
    BY <1>1, <2>1, <2>2, UntouchedStaysCounted
<1>6. CASE UNCHANGED <<stock, cart, counted, since>>
  <2>1. SoldSince(p)' = SoldSince(p)
    BY <1>6 DEF SoldSince
  <2> QED
    BY <1>1, <1>6, <2>1, UntouchedStaysCounted
<1>7. 0 \in Quantity
  BY DEF Quantity
<1>8. CASE ShopNext
  BY <1>2, <1>3, <1>4, <1>5, <1>6, <1>7, <1>8
     DEF ShopNext, MarkOrderPaid, CancelCustomerOrder, MerchantTransition, OrderMoves
<1> QED
  BY <1>6, <1>8 DEF ShopStep, shopVars, OrderMoves

\* The shop's tables agree in every reachable state.
THEOREM ShopInvariant == Spec => []ShopInv
<1>1. Init => ShopInv
  <2> HAVE Init
  <2>1. ShopTypeOK
    BY DEF Init, ShopInit, ShopTypeOK, Empty, NoSales, CartStatus, OrderStatus
  <2>2. CartsAgree
    BY DEF Init, ShopInit, CartsAgree, Empty
  <2>3. SalesAgree
    BY DEF Init, ShopInit, SalesAgree, NoSales
  <2> QED
    BY <2>1, <2>2, <2>3 DEF ShopInv
<1>2. ShopInv /\ [Next]_vars => ShopInv'
  BY ShopSteps, ShopInvStep
<1> QED
  BY <1>1, <1>2, PTL DEF Spec

\* The shelf holds what was counted less what was sold, for any customers,
\* counters and recounts.
THEOREM StockCounted == Spec => []StockIsCounted
<1>1. Init => StockIsCounted
  BY DEF Init, ShopInit, StockIsCounted
<1>2. ShopInv /\ StockIsCounted /\ [Next]_vars => StockIsCounted'
  BY ShopSteps, StockStep
<1> QED
  BY <1>1, <1>2, ShopInvariant, PTL DEF Spec

-----------------------------------------------------------------------------
(* Jobs and requests. *)

\* The case distinction of transition_delivery, one case at a time.
LEMMA RequestAfterIs ==
    ASSUME NEW c, NEW new
    PROVE  /\ new = "picked_up" /\ request[c].status = "accepted"
                => RequestAfter(c, new) = "in_progress"
           /\ new = "delivered" /\ request[c].status \in {"accepted", "in_progress"}
                => RequestAfter(c, new) = "completed"
           /\ new = "cancelled" /\ request[c].status # "completed"
                => RequestAfter(c, new) = "cancelled"
           /\ \/ RequestAfter(c, new) = request[c].status
              \/ new = "picked_up" /\ request[c].status = "accepted"
              \/ new = "delivered" /\ request[c].status \in {"accepted", "in_progress"}
              \/ new = "cancelled" /\ request[c].status # "completed"
<1> DEFINE was == request[c].status
<1>1. new = "picked_up" /\ was = "accepted" => RequestAfter(c, new) = "in_progress"
  BY ZenonT(30) DEF RequestAfter
<1>2. new = "delivered" /\ was \in {"accepted", "in_progress"} => RequestAfter(c, new) = "completed"
  BY ZenonT(30) DEF RequestAfter
<1>3. new = "cancelled" /\ was # "completed" => RequestAfter(c, new) = "cancelled"
  BY ZenonT(30) DEF RequestAfter
<1>4. \/ RequestAfter(c, new) = was
      \/ new = "picked_up" /\ was = "accepted"
      \/ new = "delivered" /\ was \in {"accepted", "in_progress"}
      \/ new = "cancelled" /\ was # "completed"
  BY ZenonT(30) DEF RequestAfter
<1> QED
  BY <1>1, <1>2, <1>3, <1>4

Job == [status : JobStatus, courier : Couriers \cup {NoCourier}]
Request == [status : RequestStatus, provider : Couriers \cup {NoCourier}]

\* A wave adds couriers to the offers.
LEMMA WaveIsTyped ==
    ASSUME TypeOK, NEW c \in Carts, NEW W \in SUBSET Couriers, Wave(c, W)
    PROVE  offers' \in [Carts -> [pending : SUBSET Couriers, asked : SUBSET Couriers]]
<1>1. [pending |-> offers[c].pending \cup W, asked |-> offers[c].asked \cup W]
          \in [pending : SUBSET Couriers, asked : SUBSET Couriers]
  BY DEF TypeOK
<1> QED
  BY <1>1 DEF Wave, TypeOK

\* A step of a request moves it to another of its statuses.
LEMMA RequestIsTyped ==
    ASSUME TypeOK, NEW c \in Carts, NEW new \in RequestStatus
    PROVE  [request EXCEPT ![c].status = new] \in [Carts -> Request]
<1>1. [request[c] EXCEPT !.status = new] \in Request
  BY DEF TypeOK, Request
<1> QED
  BY <1>1 DEF TypeOK, Request

\* Every table has its type in every reachable state.
THEOREM DeliveriesTypeCorrect == Spec => []TypeOK
<1>1. Init => TypeOK
  <2> HAVE Init
  <2>1. ShopTypeOK
    BY DEF Init, ShopInit, ShopTypeOK, Empty, NoSales, CartStatus, OrderStatus
  <2> QED
    BY <2>1 DEF Init, TypeOK, JobStatus, RequestStatus
<1>2. ShopInv /\ TypeOK /\ [Next]_vars => TypeOK'
  <2> SUFFICES ASSUME ShopInv, TypeOK, [Next]_vars
               PROVE  TypeOK'
    OBVIOUS
  <2> DEFINE JobsTyped == /\ job' \in [Carts -> Job]
                          /\ proven' \subseteq Carts /\ proving' \subseteq Carts
                          /\ request' \in [Carts -> Request]
                          /\ offers' \in [Carts -> [pending : SUBSET Couriers, asked : SUBSET Couriers]]
  <2>1. ShopTypeOK'
    BY ShopSteps, ShopInvStep DEF ShopInv
  <2>2. SUFFICES JobsTyped
    BY <2>1 DEF TypeOK, Job, Request
  <2>3. /\ job \in [Carts -> Job] /\ proven \subseteq Carts /\ proving \subseteq Carts
        /\ request \in [Carts -> Request]
        /\ offers \in [Carts -> [pending : SUBSET Couriers, asked : SUBSET Couriers]]
    BY DEF TypeOK, Job, Request
  <2>4. ASSUME NEW c \in Carts, NEW W \in SUBSET Couriers, Ready(c, W)
        PROVE  JobsTyped
    <3>1. CASE c \in Located
      <4>1. [job[c] EXCEPT !.status = "searching"] \in Job
        BY <2>3 DEF Job, JobStatus
      <4>2. job' \in [Carts -> Job]
        BY <2>4, <2>3, <3>1, <4>1 DEF Ready
      <4>3. request' \in [Carts -> Request]
        <5>1. \A new \in {"searching", "offered"} :
                [request EXCEPT ![c].status = new] \in [Carts -> Request]
          BY RequestIsTyped DEF RequestStatus
        <5>2. \E new \in {"searching", "offered"} : request' = [request EXCEPT ![c].status = new]
          BY <2>4, <3>1 DEF Ready
        <5> QED
          BY <5>1, <5>2
      <4>4. offers' \in [Carts -> [pending : SUBSET Couriers, asked : SUBSET Couriers]]
        BY <2>4, <3>1, WaveIsTyped DEF Ready
      <4> QED
        BY <2>4, <2>3, <3>1, <4>2, <4>3, <4>4 DEF Ready
    <3>2. CASE c \notin Located
      <4>1. UNCHANGED jobVars
        BY <2>4, <3>2 DEF Ready, jobVars
      <4> QED
        BY <2>3, <4>1 DEF jobVars
    <3> QED
      BY <3>1, <3>2
  <2>5. ASSUME NEW c \in Carts, NEW W \in SUBSET Couriers, DispatchMore(c, W) \/ Reassign(c, W)
        PROVE  JobsTyped
    <3>1. request' \in [Carts -> Request]
      <4>1. \A new \in {"searching", "offered"} : [request EXCEPT ![c].status = new] \in [Carts -> Request]
        BY RequestIsTyped DEF RequestStatus
      <4>2. \/ request' = request
            \/ request' = [request EXCEPT ![c].status = "offered"]
            \/ request' = [request EXCEPT ![c].status = "searching"]
        BY <2>5 DEF DispatchMore, Reassign
      <4> QED
        BY <2>3, <4>1, <4>2
    <3> QED
      BY <2>5, <2>3, <3>1, WaveIsTyped DEF DispatchMore, Reassign
  <2>6. ASSUME NEW c \in Carts, NEW p \in Couriers, OfferEnds(c, p) \/ AcceptOffer(c, p)
        PROVE  JobsTyped
    <3>1. [status |-> "accepted", provider |-> p] \in Request
      BY DEF Request, RequestStatus
    <3>2. \A P \in SUBSET Couriers : [offers[c] EXCEPT !.pending = P]
                      \in [pending : SUBSET Couriers, asked : SUBSET Couriers]
      BY <2>3
    <3>3. offers' \in [Carts -> [pending : SUBSET Couriers, asked : SUBSET Couriers]]
      BY <2>6, <2>3, <3>2 DEF OfferEnds, AcceptOffer
    <3> QED
      BY <2>6, <2>3, <3>1, <3>3 DEF OfferEnds, AcceptOffer
  <2>7. ASSUME NEW c \in Carts, NEW p \in Couriers, AssignCourier(c, p)
        PROVE  JobsTyped
    <3>1. [status |-> "assigned", courier |-> p] \in Job /\ Assigned(c, p) \in Request
      BY <2>3 DEF Job, JobStatus, Assigned, Request, RequestStatus
    <3> QED
      BY <2>7, <2>3, <3>1 DEF AssignCourier
  <2>8. ASSUME NEW c \in Carts, NEW new \in RequestStatus, TransitionRequest(c, new)
        PROVE  JobsTyped
    BY <2>8, <2>3, RequestIsTyped DEF TransitionRequest, RequestMoves
  <2>9. ASSUME NEW c \in Carts, NEW new \in JobStatus, TransitionDelivery(c, new)
        PROVE  JobsTyped
    <3>1. RequestAfter(c, new) \in RequestStatus
      BY <2>3, RequestAfterIs DEF Request, RequestStatus
    <3>2. request' \in [Carts -> Request]
      BY <2>9, <3>1, RequestIsTyped DEF TransitionDelivery
    <3>3. [job[c] EXCEPT !.status = new] \in Job
      BY <2>3 DEF Job
    <3> QED
      BY <2>9, <2>3, <3>2, <3>3 DEF TransitionDelivery
  <2>10. ASSUME NEW c \in Carts, ProofChecks(c) \/ ProofRecorded(c)
         PROVE  JobsTyped
    BY <2>10, <2>3 DEF ProofChecks, ProofRecorded
  <2>11. CASE UNCHANGED jobVars
    BY <2>11, <2>3 DEF jobVars
  <2> QED
    BY <2>4, <2>5, <2>6, <2>7, <2>8, <2>9, <2>10, <2>11 DEF Next, vars
<1> QED
  BY <1>1, <1>2, ShopInvariant, PTL DEF Spec

\* What one step of the shop can make of one order.
LEMMA OrderSteps ==
    ASSUME ShopInv, ShopNext, NEW d \in Carts
    PROVE  \/ order'[d] = order[d]
           \/ order[d] = "none" /\ order'[d] = "pending_payment"
           \/ order[d] = "pending_payment" /\ order'[d] \in {"paid", "cancelled"}
           \/ OrderMay(d, order'[d]) /\ order'[d] \in {"preparing", "completed", "cancelled"}
<1> USE DEF ShopInv, ShopTypeOK
<1>1. CASE \E c \in Carts : Checkout(c)
  BY <1>1 DEF Checkout, Active, CartsAgree
<1>2. CASE \E c \in Carts : MarkOrderPaid(c) \/ CancelCustomerOrder(c)
  BY <1>2 DEF MarkOrderPaid, CancelCustomerOrder, AwaitsPayment, OrderMoves
<1>3. ASSUME NEW c \in Carts, NEW new \in OrderStatus, MerchantTransition(c, new)
      PROVE  \/ order'[d] = order[d]
             \/ OrderMay(d, order'[d]) /\ order'[d] \in {"preparing", "completed", "cancelled"}
  <2>1. order' = [order EXCEPT ![c] = new] /\ OrderMay(c, new)
        /\ new \in {"preparing", "completed", "cancelled"}
    BY <1>3 DEF MerchantTransition, OrderMoves
  <2>2. CASE c = d
    <3>1. order'[d] = new
      BY <2>1, <2>2
    <3> QED
      BY <2>1, <2>2, <3>1
  <2>3. CASE c # d
    BY <2>1, <2>3
  <2> QED
    BY <2>2, <2>3
<1>4. CASE UNCHANGED order
  BY <1>4
<1> QED
  BY <1>1, <1>2, <1>3, <1>4
     DEF ShopNext, AddProduct, UpdateStock, CounterSale, AddToCart, UpdateCartItem, AddIsRefused

\* DeliveryAgrees for one cart, and a courier exactly on the way.
Agrees(c) ==
    /\ job[c].status # "none" <=> request[c].status # "none"
    /\ order[c] = "out_for_delivery" => job[c].status # "none"
    /\ job[c].status # "none" => order[c] \in {"out_for_delivery", "completed", "cancelled"}
    /\ job[c].courier # NoCourier => request[c].status \notin Open
    /\ job[c].status \in {"delivered", "cancelled"} => request[c].status \in {"completed", "cancelled"}
    /\ job[c].status = "delivered" => c \in proven
    /\ job[c].status \in {"none", "searching"} => job[c].courier = NoCourier
    /\ job[c].status \in {"assigned", "at_pickup", "picked_up", "in_transit"}
          => job[c].courier # NoCourier

JobsAgree == \A c \in Carts : Agrees(c)

\* What a step does not touch goes on agreeing.
LEMMA UntouchedAgrees ==
    ASSUME NEW d, Agrees(d), job'[d] = job[d], request'[d] = request[d], order'[d] = order[d],
           proven \subseteq proven'
    PROVE  Agrees(d)'
  BY DEF Agrees

\* Job, order and request go on telling one story.
LEMMA JobsAgreeStep ==
    ASSUME ShopInv, TypeOK, JobsAgree, [Next]_vars
    PROVE  JobsAgree'
<1> SUFFICES ASSUME NEW d \in Carts
             PROVE  Agrees(d)'
  BY DEF JobsAgree
<1>1. /\ Agrees(d)
      /\ job[d] \in Job /\ request[d] \in Request
      /\ order \in [Carts -> OrderStatus] /\ job \in [Carts -> Job] /\ request \in [Carts -> Request]
  BY DEF JobsAgree, TypeOK, Job, Request, ShopTypeOK
<1>2. CASE ShopNext /\ UNCHANGED jobVars
  BY <1>1, <1>2, OrderSteps DEF Agrees, jobVars, OrderMay
<1>3. ASSUME NEW c \in Carts, NEW W \in SUBSET Couriers, Ready(c, W)
      PROVE  Agrees(d)'
  <2>1. CASE d # c
    BY <1>1, <1>3, <2>1, UntouchedAgrees DEF Ready, OrderMoves
  <2>2. CASE d = c /\ c \in Located
    <3>1. order[c] = "preparing" /\ order'[c] = "out_for_delivery"
      BY <1>1, <1>3, <2>2 DEF Ready, OrderMay, OrderMoves
    <3>2. job'[c].status = "searching" /\ job'[c].courier = job[c].courier
          /\ request'[c].status \in {"searching", "offered"}
      BY <1>1, <1>3, <2>2 DEF Ready, Job, Request
    <3> QED
      BY <1>1, <2>2, <3>1, <3>2 DEF Agrees
  <2>3. CASE d = c /\ c \notin Located
    <3>1. order[c] = "preparing" /\ order'[c] = "ready" /\ UNCHANGED jobVars
      BY <1>1, <1>3, <2>3 DEF Ready, OrderMay, OrderMoves, jobVars
    <3> QED
      BY <1>1, <2>3, <3>1 DEF Agrees, jobVars
  <2> QED
    BY <2>1, <2>2, <2>3
<1>4. ASSUME NEW c \in Carts, NEW W \in SUBSET Couriers, DispatchMore(c, W) \/ Reassign(c, W)
      PROVE  Agrees(d)'
  <2>1. order' = order /\ job' = job /\ proven' = proven
    BY <1>4 DEF DispatchMore, Reassign, shopVars
  <2>2. CASE d # c
    <3>1. request'[d] = request[d]
      BY <1>1, <1>4, <2>2 DEF DispatchMore, Reassign
    <3> QED
      BY <1>1, <2>1, <3>1, UntouchedAgrees
  <2>3. CASE d = c
    <3>1. request[c].status \in Open /\ request'[c].status \in Open
      BY <1>1, <1>4, <2>3 DEF DispatchMore, Reassign, Open, Request
    <3> QED
      BY <1>1, <2>1, <2>3, <3>1 DEF Agrees, Open
  <2> QED
    BY <2>2, <2>3
<1>5. ASSUME NEW c \in Carts, NEW p \in Couriers, OfferEnds(c, p)
      PROVE  Agrees(d)'
  BY <1>1, <1>5, UntouchedAgrees DEF OfferEnds, shopVars
<1>6. ASSUME NEW c \in Carts, NEW p \in Couriers, AcceptOffer(c, p)
      PROVE  Agrees(d)'
  <2>1. order' = order /\ job' = job /\ proven' = proven
        /\ request' = [request EXCEPT ![c] = [status |-> "accepted", provider |-> p]]
    BY <1>6 DEF AcceptOffer, shopVars
  <2>2. request[c].status \in Open
    BY <1>6 DEF AcceptOffer
  <2> QED
    BY <1>1, <2>1, <2>2, UntouchedAgrees DEF Agrees, Open
<1>7. ASSUME NEW c \in Carts, NEW p \in Couriers, AssignCourier(c, p)
      PROVE  Agrees(d)'
  <2>1. order' = order /\ proven' = proven /\ job[c].status = "searching"
        /\ job' = [job EXCEPT ![c] = [status |-> "assigned", courier |-> p]]
        /\ request' = [request EXCEPT ![c] = Assigned(c, p)]
    BY <1>7 DEF AssignCourier, shopVars
  <2>2. p # NoCourier
    BY DeliveriesAssumption DEF DeliveriesAssumption
  <2>3. CASE d # c
    BY <1>1, <2>1, <2>3, UntouchedAgrees
  <2>4. CASE d = c
    <3>1. job'[c].status = "assigned" /\ job'[c].courier = p /\ request'[c] = Assigned(c, p)
      BY <1>1, <2>1
    <3>2. Assigned(c, p).status \notin Open \cup {"none"}
      BY <1>1, <2>1, <2>4 DEF Assigned, Agrees, Open
    <3> QED
      BY <1>1, <2>1, <2>2, <2>4, <3>1, <3>2 DEF Agrees
  <2> QED
    BY <2>3, <2>4
<1>8. ASSUME NEW c \in Carts, NEW new \in RequestStatus, TransitionRequest(c, new)
      PROVE  Agrees(d)'
  <2>1. order' = order /\ job' = job /\ proven' = proven
        /\ request' = [request EXCEPT ![c].status = new]
    BY <1>8 DEF TransitionRequest, RequestMoves, shopVars
  <2>2. CASE d # c
    BY <1>1, <2>1, <2>2, UntouchedAgrees
  <2>3. CASE d = c
    <3>1. /\ request'[c].status = new /\ new \in {"in_progress", "completed", "cancelled"}
          /\ request[c].status \notin {"none", "completed", "cancelled"}
      BY <1>1, <1>8, <2>1, <2>3 DEF TransitionRequest, Request, Open
    <3> QED
      BY <1>1, <2>1, <2>3, <3>1 DEF Agrees, Open
  <2> QED
    BY <2>2, <2>3
<1>9. ASSUME NEW c \in Carts, NEW new \in JobStatus, TransitionDelivery(c, new)
      PROVE  Agrees(d)'
  <2>1. order' = order /\ proven' = proven /\ JobMay(c, new)
        /\ job' = [job EXCEPT ![c].status = new]
        /\ request' = [request EXCEPT ![c].status = RequestAfter(c, new)]
    BY <1>9 DEF TransitionDelivery, shopVars
  <2>2. CASE d # c
    BY <1>1, <2>1, <2>2, UntouchedAgrees
  <2>3. CASE d = c
    <3>1. /\ job[c].status \in {"assigned", "at_pickup", "picked_up", "in_transit"}
          /\ new \in {"at_pickup", "picked_up", "in_transit", "delivered", "failed", "cancelled"}
          /\ new = "delivered" => c \in proven
      BY <2>1 DEF JobMay
    <3>2. /\ job'[c].status = new /\ job'[c].courier = job[c].courier
          /\ request'[c].status = RequestAfter(c, new)
      BY <1>1, <2>1, <2>3 DEF Job, Request
    <3>3. /\ request[c].status \notin Open \cup {"none"}
          /\ job[c].courier # NoCourier
      BY <1>1, <2>3, <3>1 DEF Agrees
    <3>4. RequestAfter(c, new) \notin Open \cup {"none"}
      BY <3>3, RequestAfterIs DEF Open
    <3>5. new \in {"delivered", "cancelled"} => RequestAfter(c, new) \in {"completed", "cancelled"}
      BY <1>1, <2>3, <3>3, RequestAfterIs DEF Open, Request, RequestStatus
    <3> QED
      BY <1>1, <2>1, <2>3, <3>1, <3>2, <3>3, <3>4, <3>5 DEF Agrees
  <2> QED
    BY <2>2, <2>3
<1>10. CASE UNCHANGED vars
  BY <1>1, <1>10, UntouchedAgrees DEF vars, shopVars, jobVars
<1>11. ASSUME NEW c \in Carts, ProofChecks(c) \/ ProofRecorded(c)
       PROVE  Agrees(d)'
  BY <1>1, <1>11, UntouchedAgrees DEF ProofChecks, ProofRecorded, shopVars
<1> QED
  BY <1>2, <1>3, <1>4, <1>5, <1>6, <1>7, <1>8, <1>9, <1>10, <1>11 DEF Next

\* The invariant of jobs, orders and requests.
THEOREM JobsInvariant == Spec => []JobsAgree
<1>1. Init => JobsAgree
  BY DEF Init, ShopInit, JobsAgree, Agrees
<1>2. ShopInv /\ TypeOK /\ JobsAgree /\ [Next]_vars => JobsAgree'
  BY JobsAgreeStep
<1> QED
  BY <1>1, <1>2, ShopInvariant, DeliveriesTypeCorrect, PTL DEF Spec

\* Job, order and request tell one story.
THEOREM DeliveriesAgree == Spec => []DeliveryAgrees
<1>1. JobsAgree => DeliveryAgrees
  BY DEF JobsAgree, Agrees, DeliveryAgrees
<1> QED
  BY <1>1, JobsInvariant, PTL

-----------------------------------------------------------------------------
(* Refinements. *)

\* The stage of an order, before a step and after it.
LEMMA Stages ==
    ASSUME NEW c
    PROVE  /\ order[c] \in {"none", "pending_payment"} => StageOf(c) = "waiting"
           /\ order[c] \in {"preparing", "ready"} => StageOf(c) = "kitchen"
           /\ order[c] = "out_for_delivery" => StageOf(c) = "away"
           /\ order[c] \in {"paid", "completed", "cancelled"} => StageOf(c) = order[c]
           /\ order'[c] \in {"none", "pending_payment"} => StageOf(c)' = "waiting"
           /\ order'[c] \in {"preparing", "ready"} => StageOf(c)' = "kitchen"
           /\ order'[c] = "out_for_delivery" => StageOf(c)' = "away"
           /\ order'[c] \in {"paid", "completed", "cancelled"} => StageOf(c)' = order'[c]
<1>1. order[c] \in {"none", "pending_payment"} => StageOf(c) = "waiting"
  BY ZenonT(30) DEF StageOf
<1>2. order[c] \in {"preparing", "ready"} => StageOf(c) = "kitchen"
  BY ZenonT(30) DEF StageOf
<1>3. order[c] = "out_for_delivery" => StageOf(c) = "away"
  BY ZenonT(30) DEF StageOf
<1>4. order[c] \in {"paid", "completed", "cancelled"} => StageOf(c) = order[c]
  BY ZenonT(30) DEF StageOf
<1>5. order'[c] \in {"none", "pending_payment"} => StageOf(c)' = "waiting"
  BY ZenonT(30) DEF StageOf
<1>6. order'[c] \in {"preparing", "ready"} => StageOf(c)' = "kitchen"
  BY ZenonT(30) DEF StageOf
<1>7. order'[c] = "out_for_delivery" => StageOf(c)' = "away"
  BY ZenonT(30) DEF StageOf
<1>8. order'[c] \in {"paid", "completed", "cancelled"} => StageOf(c)' = order'[c]
  BY ZenonT(30) DEF StageOf
<1> QED
  BY <1>1, <1>2, <1>3, <1>4, <1>5, <1>6, <1>7, <1>8

\* A step of the shop is for each order a step of its life.
LEMMA LifeStep ==
    ASSUME ShopInv, ShopStep, NEW d \in Carts
    PROVE  OrderLife(d)!Next \/ UNCHANGED StageOf(d)
<1> USE DEF OrderLife!Next, OrderLife!Pay, OrderLife!Cook, OrderLife!SendOut, OrderLife!HandOver,
            OrderLife!CallOff
<1>1. CASE order'[d] = order[d]
  BY <1>1, ZenonT(30) DEF StageOf
<1>2. CASE ShopNext
  <2>1. CASE order[d] = "none" /\ order'[d] = "pending_payment"
    BY <2>1, Stages
  <2>2. CASE order[d] = "pending_payment" /\ order'[d] \in {"paid", "cancelled"}
    BY <2>2, Stages
  <2>3. CASE OrderMay(d, order'[d]) /\ order'[d] \in {"preparing", "completed", "cancelled"}
    BY <2>3, Stages DEF OrderMay
  <2> QED
    BY <1>1, <1>2, <2>1, <2>2, <2>3, OrderSteps
<1>3. ASSUME NEW c \in Carts, NEW new \in {"ready", "out_for_delivery"},
             OrderMay(c, "ready"), OrderMoves(c, new)
      PROVE  OrderLife(d)!Next \/ UNCHANGED StageOf(d)
  <2>1. CASE c = d
    <3>1. order[d] = "preparing" /\ order'[d] = new
      BY <1>3, <2>1 DEF OrderMay, OrderMoves, ShopInv, ShopTypeOK
    <3> QED
      BY <3>1, Stages
  <2>2. CASE c # d
    <3>1. order'[d] = order[d]
      BY <1>3, <2>2 DEF OrderMoves, ShopInv, ShopTypeOK
    <3> QED
      BY <1>1, <3>1
  <2> QED
    BY <2>1, <2>2
<1>4. CASE UNCHANGED shopVars
  BY <1>1, <1>4 DEF shopVars
<1> QED
  BY <1>2, <1>3, <1>4 DEF ShopStep

\* Every order lives the life that README_V18.md promises.
THEOREM OrdersLive == Spec => ImplementsOrderLife
<1>1. Init => \A c \in Carts : OrderLife(c)!Init
  <2> HAVE Init
  <2>1. \A c \in Carts : order[c] = "none"
    BY DEF Init, ShopInit
  <2> QED
    BY <2>1, Stages DEF OrderLife!Init
<1>2. ShopInv /\ [Next]_vars
         => [\A c \in Carts : OrderLife(c)!Next \/ UNCHANGED StageOf(c)]_shopVars
  BY ShopSteps, LifeStep
<1> QED
  BY <1>1, <1>2, ShopInvariant, PTL DEF Spec, ImplementsOrderLife

\* A step that leaves a request as it is gives it to nobody.
LEMMA UntouchedAssignment ==
    ASSUME NEW d, request'[d] = request[d]
    PROVE  UNCHANGED OneCourier(d)!vars
  BY DEF OneCourier!vars, Open

\* Every step is for each request a step of its assignment.
LEMMA AssignmentStep ==
    ASSUME TypeOK, JobsAgree, [Next]_vars, NEW d \in Carts
    PROVE  OneCourier(d)!Next \/ UNCHANGED OneCourier(d)!vars
<1> DEFINE OpenBefore == request[d].status \in Open \cup {"none"}
           OpenAfter == request'[d].status \in Open \cup {"none"}
           Goal == OneCourier(d)!Next \/ UNCHANGED OneCourier(d)!vars
<1>1. request \in [Carts -> Request] /\ request[d] \in Request
  BY DEF TypeOK, Request
<1>2. ASSUME request'[d].provider = request[d].provider, OpenBefore <=> OpenAfter
      PROVE  Goal
  BY <1>2 DEF OneCourier!vars, Open
<1>3. ASSUME request'[d].provider = request[d].provider, OpenBefore, ~OpenAfter
      PROVE  Goal
  BY <1>3 DEF OneCourier!Next, OneCourier!CallOff, Open
<1>4. ASSUME NEW p \in Couriers, request'[d].provider = p, OpenBefore, ~OpenAfter
      PROVE  Goal
  BY <1>4 DEF OneCourier!Next, OneCourier!Assign, Open
<1>5. ASSUME request'[d] = request[d]
      PROVE  Goal
  BY <1>5, UntouchedAssignment
<1>6. ASSUME NEW c \in Carts, NEW new \in RequestStatus,
             request' = [request EXCEPT ![c].status = new],
             c = d => (OpenBefore \/ new \notin Open \cup {"none"})
      PROVE  Goal
  <2>1. CASE c # d
    BY <1>1, <1>5, <1>6, <2>1
  <2>2. CASE c = d
    <3>1. request'[d].provider = request[d].provider /\ request'[d].status = new
      BY <1>1, <1>6, <2>2 DEF Request
    <3> QED
      BY <1>2, <1>3, <1>6, <2>2, <3>1
  <2> QED
    BY <2>1, <2>2
<1> HIDE DEF Goal
<1>7. ASSUME NEW c \in Carts, NEW W \in SUBSET Couriers, Ready(c, W)
      PROVE  Goal
  <2>1. CASE c \in Located
    <3>1. order[c] = "preparing"
      BY <1>7 DEF Ready, OrderMay
    <3>2. request[c].status = "none"
      BY <3>1 DEF JobsAgree, Agrees
    <3> QED
      BY <1>6, <1>7, <2>1, <3>2 DEF Ready, RequestStatus
  <2>2. CASE c \notin Located
    BY <1>5, <1>7, <2>2 DEF Ready
  <2> QED
    BY <2>1, <2>2
<1>8. ASSUME NEW c \in Carts, NEW W \in SUBSET Couriers, DispatchMore(c, W) \/ Reassign(c, W)
      PROVE  Goal
  <2>1. request[c].status \in Open
    BY <1>8 DEF DispatchMore, Reassign, Open
  <2>2. \/ request' = request
        \/ request' = [request EXCEPT ![c].status = "offered"]
        \/ request' = [request EXCEPT ![c].status = "searching"]
    BY <1>8 DEF DispatchMore, Reassign
  <2> QED
    BY <1>5, <1>6, <2>1, <2>2 DEF RequestStatus
<1>9. ASSUME NEW c \in Carts, NEW p \in Couriers, AcceptOffer(c, p)
      PROVE  Goal
  <2>1. /\ request' = [request EXCEPT ![c] = [status |-> "accepted", provider |-> p]]
        /\ request[c].status \in Open
    BY <1>9 DEF AcceptOffer
  <2>2. CASE c # d
    BY <1>1, <1>5, <2>1, <2>2
  <2>3. CASE c = d
    <3>1. request'[d] = [status |-> "accepted", provider |-> p]
      BY <1>1, <2>1, <2>3
    <3> QED
      BY <1>4, <2>1, <2>3, <3>1 DEF Open
  <2> QED
    BY <2>2, <2>3
<1>10. ASSUME NEW c \in Carts, NEW p \in Couriers, AssignCourier(c, p)
       PROVE  Goal
  <2>1. request' = [request EXCEPT ![c] = Assigned(c, p)]
    BY <1>10 DEF AssignCourier
  <2>2. CASE c # d \/ request[c].status \notin Open
    <3>1. request'[d] = request[d]
      BY <1>1, <2>1, <2>2 DEF Assigned
    <3> QED
      BY <1>5, <3>1
  <2>3. CASE c = d /\ request[c].status \in Open
    <3>1. request'[d] = [status |-> "accepted", provider |-> p]
      BY <1>1, <2>1, <2>3 DEF Assigned
    <3> QED
      BY <1>4, <2>3, <3>1 DEF Open
  <2> QED
    BY <2>2, <2>3
<1>11. ASSUME NEW c \in Carts, NEW new \in RequestStatus, TransitionRequest(c, new)
       PROVE  Goal
  <2>1. /\ request' = [request EXCEPT ![c].status = new]
        /\ new \notin Open \cup {"none"}
    BY <1>11 DEF TransitionRequest, RequestMoves, Open
  <2> QED
    BY <1>6, <2>1
<1>12. ASSUME NEW c \in Carts, NEW new \in JobStatus, TransitionDelivery(c, new)
       PROVE  Goal
  <2>1. request' = [request EXCEPT ![c].status = RequestAfter(c, new)]
    BY <1>12 DEF TransitionDelivery
  <2>2. \/ RequestAfter(c, new) = request[c].status
        \/ RequestAfter(c, new) \in {"in_progress", "completed", "cancelled"}
    BY RequestAfterIs
  <2>3. request[c].status \in RequestStatus
    BY <1>1 DEF Request
  <2> QED
    BY <1>6, <2>1, <2>2, <2>3 DEF RequestStatus, Open
<1>13. CASE UNCHANGED request
  BY <1>13, UntouchedAssignment
<1> QED
  BY <1>7, <1>8, <1>9, <1>10, <1>11, <1>12, <1>13
     DEF Goal, Next, vars, jobVars, OfferEnds, ProofChecks, ProofRecorded

\* Offers and assignment together give a request to one courier, for good.
THEOREM DeliveriesImplementAssignment == Spec => ImplementsAssignment
<1>1. Init => \A c \in Carts : OneCourier(c)!Init
  BY DEF Init, OneCourier!Init
<1>2. TypeOK /\ JobsAgree /\ [Next]_vars
         => [\A c \in Carts : OneCourier(c)!Next \/ UNCHANGED OneCourier(c)!vars]_vars
  BY AssignmentStep
<1> QED
  BY <1>1, <1>2, DeliveriesTypeCorrect, JobsInvariant, PTL DEF Spec, ImplementsAssignment

-----------------------------------------------------------------------------
(* What follows for carts, couriers and ended orders. *)

\* The unique key of commerce_carts on user, merchant and status.
CartKeysUnique ==
    \A c, d \in Carts :
        c # d /\ CustomerOf[c] = CustomerOf[d] /\ cart[c].status = cart[d].status
            => cart[c].status = "none"

\* One cart gets another status that no other of its customer's carts has.
LEMMA KeyStaysUnique ==
    ASSUME CartKeysUnique, NEW c \in Carts,
           \A d \in Carts \ {c} : cart'[d].status = cart[d].status,
           \A d \in Carts \ {c} :
              CustomerOf[d] = CustomerOf[c] => cart[d].status # cart'[c].status
    PROVE  CartKeysUnique'
  BY DEF CartKeysUnique

\* Opening a cart because there is no active one, and a checkout that the key
\* does not refuse, are all that the key needs (get_or_create_cart, checkout).
THEOREM CartKeysHold == Spec => []CartKeysUnique
<1>1. Init => CartKeysUnique
  BY DEF Init, ShopInit, CartKeysUnique
<1>2. ShopInv /\ CartKeysUnique /\ [Next]_vars => CartKeysUnique'
  <2> SUFFICES ASSUME ShopInv, CartKeysUnique, ShopStep
               PROVE  CartKeysUnique'
    BY ShopSteps
  <2>1. ASSUME \A c \in Carts : cart'[c].status = cart[c].status
        PROVE  CartKeysUnique'
    BY <2>1 DEF CartKeysUnique
  <2>2. ASSUME NEW c \in Carts, Active(c) \/ Insertable(c),
               \A d \in Carts : cart'[d].status = Opened(c)[d].status
        PROVE  CartKeysUnique'
    <3>1. CASE Active(c)
      BY <2>1, <2>2, <3>1 DEF Opened
    <3>2. CASE ~Active(c)
      <4>1. \A d \in Carts \ {c} : CustomerOf[d] = CustomerOf[c] => cart[d].status # "active"
        BY <2>2, <3>2 DEF Insertable, Active
      <4>2. cart'[c].status = "active" /\ \A d \in Carts \ {c} : cart'[d].status = cart[d].status
        BY <2>2, OpenedIs DEF ShopInv
      <4> QED
        BY <4>1, <4>2, KeyStaysUnique
    <3> QED
      BY <3>1, <3>2
  <2>3. ASSUME NEW c \in Carts, NEW p \in Products, NEW q \in Quantity, AddToCart(c, p, q)
        PROVE  CartKeysUnique'
    <3>1. Opened(c) \in [Carts -> [status : CartStatus, qty : [Products -> Nat]]]
      BY <2>3, OpenedIs DEF AddToCart, ShopInv
    <3>2. \A d \in Carts : cart'[d].status = Opened(c)[d].status
      BY <2>3, <3>1 DEF AddToCart
    <3> QED
      BY <2>2, <2>3, <3>2 DEF AddToCart
  <2>4. ASSUME NEW c \in Carts, NEW p \in Products, AddIsRefused(c, p)
        PROVE  CartKeysUnique'
    BY <2>2, <2>4 DEF AddIsRefused
  <2>5. ASSUME NEW c \in Carts, NEW p \in Products, NEW q \in Quantity, UpdateCartItem(c, p, q)
        PROVE  CartKeysUnique'
    BY <2>1, <2>5 DEF UpdateCartItem, ShopInv, ShopTypeOK
  <2>6. ASSUME NEW c \in Carts, Checkout(c)
        PROVE  CartKeysUnique'
    <3>1. cart'[c].status = "checked_out" /\ \A d \in Carts \ {c} : cart'[d].status = cart[d].status
      BY <2>6 DEF Checkout, ShopInv, ShopTypeOK
    <3>2. \A d \in Carts : CustomerOf[d] = CustomerOf[c] => cart[d].status # "checked_out"
      BY <2>6 DEF Checkout, KeyIsFree
    <3> QED
      BY <3>1, <3>2, KeyStaysUnique
  <2>7. CASE UNCHANGED cart
    BY <2>1, <2>7
  <2> QED
    BY <2>3, <2>4, <2>5, <2>6, <2>7
       DEF ShopStep, ShopNext, shopVars, AddProduct, UpdateStock, CounterSale, MarkOrderPaid,
           CancelCustomerOrder, MerchantTransition, OrderMoves
<1> QED
  BY <1>1, <1>2, ShopInvariant, PTL DEF Spec

\* A customer has one order at a merchant, whatever became of it: the cart of a
\* cancelled or completed order keeps the key that the next checkout would need.
OneOrderEach ==
    \A c, d \in Carts :
        c # d /\ CustomerOf[c] = CustomerOf[d] => order[c] = "none" \/ order[d] = "none"

\* The key of the cart table counts for the orders (checkout, commerce_carts).
THEOREM CustomersOrderOnce == Spec => []OneOrderEach
<1>1. ShopInv /\ CartKeysUnique => OneOrderEach
  BY DEF ShopInv, CartsAgree, CartKeysUnique, OneOrderEach
<1> QED
  BY <1>1, ShopInvariant, CartKeysHold, PTL

\* A request that has a provider is not open.
TakenIsNotOpen ==
    \A c \in Carts : request[c].provider # NoCourier => request[c].status \notin Open \cup {"none"}

\* From the abstract assignment alone: a request is not open once it is taken,
\* and keeps its provider.
LEMMA AssignmentKeepsWinner ==
    ASSUME NEW c, OneCourier(c)!Next \/ UNCHANGED OneCourier(c)!vars,
           request[c].provider # NoCourier => request[c].status \notin Open \cup {"none"}
    PROVE  /\ request'[c].provider # NoCourier => request'[c].status \notin Open \cup {"none"}
           /\ request[c].provider # NoCourier => request'[c].provider = request[c].provider
  BY DEF OneCourier!Next, OneCourier!CallOff, OneCourier!Assign, OneCourier!vars

\* The provider of a request and the courier of a job stay who they are,
\* whoever else accepts, is assigned, or cancels (accept_offer, assign_courier,
\* transition_delivery).
CouriersStay ==
    [][\A c \in Carts :
          /\ request[c].provider # NoCourier => request'[c].provider = request[c].provider
          /\ job[c].courier # NoCourier => job'[c].courier = job[c].courier]_vars

\* Only an assignment writes the courier of a job.
LEMMA JobKeepsCourier ==
    ASSUME TypeOK, JobsAgree, [Next]_vars, NEW d \in Carts, job[d].courier # NoCourier
    PROVE  job'[d].courier = job[d].courier
<1>1. CASE UNCHANGED job
  BY <1>1
<1>2. ASSUME NEW c \in Carts, NEW W \in SUBSET Couriers, Ready(c, W)
      PROVE  job'[d].courier = job[d].courier
  <2>1. job' = [job EXCEPT ![c].status = "searching"] \/ job' = job
    BY <1>2 DEF Ready
  <2> QED
    BY <2>1 DEF TypeOK
<1>3. ASSUME NEW c \in Carts, NEW p \in Couriers, AssignCourier(c, p)
      PROVE  job'[d].courier = job[d].courier
  BY <1>3 DEF AssignCourier, TypeOK, JobsAgree, Agrees
<1>4. ASSUME NEW c \in Carts, NEW new \in JobStatus, TransitionDelivery(c, new)
      PROVE  job'[d].courier = job[d].courier
  BY <1>4 DEF TransitionDelivery, TypeOK
<1> QED
  BY <1>1, <1>2, <1>3, <1>4
     DEF Next, vars, jobVars, DispatchMore, Reassign, OfferEnds, AcceptOffer, TransitionRequest,
         RequestMoves, ProofChecks, ProofRecorded

\* Couriers stay, by the abstract assignment that the requests implement.
THEOREM CouriersAreFinal == Spec => CouriersStay
<1>1. Init => TakenIsNotOpen
  BY DEF Init, TakenIsNotOpen
<1>2. TypeOK /\ JobsAgree /\ TakenIsNotOpen /\ [Next]_vars => TakenIsNotOpen'
  BY AssignmentStep, AssignmentKeepsWinner DEF TakenIsNotOpen
<1>3. TypeOK /\ JobsAgree /\ TakenIsNotOpen /\ [Next]_vars
         => [\A c \in Carts :
               /\ request[c].provider # NoCourier => request'[c].provider = request[c].provider
               /\ job[c].courier # NoCourier => job'[c].courier = job[c].courier]_vars
  BY AssignmentStep, AssignmentKeepsWinner, JobKeepsCourier DEF TakenIsNotOpen
<1> QED
  BY <1>1, <1>2, <1>3, DeliveriesTypeCorrect, JobsInvariant, PTL DEF Spec, CouriersStay

\* An order that is completed or cancelled stays so, whatever still runs for it.
OrdersStayEnded ==
    [][\A c \in Carts : order[c] \in {"completed", "cancelled"} => order'[c] = order[c]]_vars

\* Ended orders stay ended.
THEOREM OrdersEndOnce == Spec => OrdersStayEnded
<1>1. ASSUME ShopInv, ShopStep, NEW d \in Carts, order[d] \in {"completed", "cancelled"}
      PROVE  order'[d] = order[d]
  <2>1. CASE ShopNext
    BY <1>1, <2>1, OrderSteps DEF OrderMay
  <2>2. CASE ~ShopNext
    BY <1>1, <2>2 DEF ShopStep, OrderMay, OrderMoves, shopVars, ShopInv, ShopTypeOK
  <2> QED
    BY <2>1, <2>2
<1>2. ShopInv /\ [Next]_vars
         => [\A c \in Carts : order[c] \in {"completed", "cancelled"} => order'[c] = order[c]]_vars
  BY <1>1, ShopSteps
<1> QED
  BY <1>2, ShopInvariant, PTL DEF Spec, OrdersStayEnded

-----------------------------------------------------------------------------
(* Types of payments. *)

\* Updates of one payment that leave it a payment.
LEMMA PaymentUpdates ==
    ASSUME NEW row \in Payment
    PROVE  /\ \A s \in PaymentStatus : [row EXCEPT !.status = s] \in Payment
           /\ \A s \in PaymentStatus, r \in Ref : [row EXCEPT !.status = s, !.ref = r] \in Payment
           /\ \A r \in Ref : [row EXCEPT !.ref = r] \in Payment
           /\ \A s \in PaymentStatus, b \in BOOLEAN :
                 [row EXCEPT !.status = s, !.captured = b] \in Payment
           /\ \A s \in PaymentStatus, r \in Ref, b \in BOOLEAN :
                 [row EXCEPT !.status = s, !.ref = r, !.captured = b] \in Payment
           /\ \A s \in PaymentStatus, n \in Nat :
                 [row EXCEPT !.refunded = n, !.status = s] \in Payment
  BY DEF Payment

\* Every reference a payment can get is a reference.
LEMMA References == \A p \in Payments : RefsOf(p) \subseteq Ref
  BY DEF RefsOf, Ref

\* Posting leaves a ledger to the naturals, and posts at most once.
LEMMA Posting ==
    ASSUME NEW ledger \in [Payments -> Nat], NEW p \in Payments
    PROVE  /\ Posted(ledger, p) \in [Payments -> Nat]
           /\ Posted(ledger, p)[p] > 0
           /\ Posted(ledger, p)[p] = IF ledger[p] > 0 THEN ledger[p] ELSE 1
           /\ \A q \in Payments \ {p} : Posted(ledger, p)[q] = ledger[q]
<1>1. ledger[p] \in Nat /\ ledger[p] + 1 \in Nat
  OBVIOUS
<1>2. ~(ledger[p] > 0) => ledger[p] + 1 = 1
  BY <1>1
<1> QED
  BY <1>1, <1>2 DEF Posted

\* The type invariant holds in every reachable state.
THEOREM PaymentsTypeCorrect == PaymentsSpec => []PaymentsTypeOK
<1>1. PaymentsInit => PaymentsTypeOK
  <2> HAVE PaymentsInit
  <2>1. NoPayment \in Payment
    BY DEF NoPayment, Payment, PaymentStatus
  <2> QED
    BY <2>1 DEF PaymentsInit, PaymentsTypeOK, SessionStatus, BoughtStatus
<1>2. PaymentsTypeOK /\ [PaymentsNext]_paymentsVars => PaymentsTypeOK'
  <2> SUFFICES ASSUME PaymentsTypeOK, [PaymentsNext]_paymentsVars
               PROVE  PaymentsTypeOK'
    OBVIOUS
  <2> USE DEF PaymentsTypeOK
  <2>1. ASSUME NEW p \in Payments, CreatePayment(p)
        PROVE  PaymentsTypeOK'
    <3>1. [payment[p] EXCEPT !.status = "pending"] \in Payment
      BY PaymentUpdates DEF PaymentStatus
    <3> QED
      BY <2>1, <3>1 DEF CreatePayment
  <2>2. ASSUME NEW p \in Payments, Verify(p)
        PROVE  PaymentsTypeOK'
    <3>1. payment[p] \in Payment /\ payment[p].captured \in BOOLEAN
      BY DEF Payment
    <3>2. Target(p) \in PaymentStatus
      BY <2>2 DEF Verify, Target, SessionStatus, PaymentStatus
    <3>3. [payment[p] EXCEPT !.status = Target(p),
                             !.captured = payment[p].captured \/ Target(p) = "paid"] \in Payment
      BY <3>1, <3>2, PaymentUpdates
    <3>4. payment' = [payment EXCEPT ![p] = [payment[p] EXCEPT !.status = Target(p),
                             !.captured = payment[p].captured \/ Target(p) = "paid"]]
      BY <2>2, Zenon DEF Verify
    <3> QED
      BY <2>2, <3>3, <3>4 DEF Verify
  <2>3. ASSUME NEW p \in Payments, SettlePayment(p)
        PROVE  PaymentsTypeOK'
    <3>1. journal[p] + 1 \in Nat
      OBVIOUS
    <3> QED
      BY <2>3, <3>1 DEF SettlePayment
  <2>4. ASSUME NEW p \in Payments, NEW r \in Ref, Initiate(p, r)
        PROVE  PaymentsTypeOK'
    <3>1. [payment[p] EXCEPT !.ref = r] \in Payment
      BY PaymentUpdates, References
    <3>2. session' \in [Sessions -> SessionStatus]
      BY <2>4 DEF Initiate, SessionStatus
    <3> QED
      BY <2>4, <3>1, <3>2 DEF Initiate
  <2>5. ASSUME NEW p \in Payments, NEW r \in Ref, Authorize(p, r)
        PROVE  PaymentsTypeOK'
    <3>1. [payment[p] EXCEPT !.status = "authorized", !.ref = r] \in Payment
      BY PaymentUpdates, References DEF PaymentStatus
    <3> QED
      BY <2>5, <3>1 DEF Authorize
  <2>6. ASSUME NEW p \in Payments, NEW r \in Ref, Capture(p, r)
        PROVE  PaymentsTypeOK'
    <3>1. [payment[p] EXCEPT !.status = "paid", !.ref = r, !.captured = TRUE] \in Payment
      BY PaymentUpdates, References DEF PaymentStatus
    <3>2. Captured(p, r) = [payment EXCEPT ![p] =
                [payment[p] EXCEPT !.status = "paid", !.ref = r, !.captured = TRUE]]
      BY Zenon DEF Captured
    <3> QED
      BY <2>6, <3>1, <3>2 DEF Capture
  <2>7. ASSUME NEW p \in Payments, NEW r \in Refunds, NEW amount \in 1..Amount[p],
               RequestRefund(r, p, amount)
        PROVE  PaymentsTypeOK'
    <3>1. amount \in Nat
      BY PaymentsAssumption DEF PaymentsAssumption
    <3>2. [payment |-> p, amount |-> amount, status |-> "requested"] \in RefundRow(Nat)
      BY <3>1 DEF RefundRow
    <3> QED
      BY <2>7, <3>2 DEF RequestRefund
  <2>8. ASSUME NEW x \in Sessions, NEW outcome \in {"success", "failed", "cancelled"},
               SessionEnds(x, outcome)
        PROVE  PaymentsTypeOK'
    BY <2>8 DEF SessionEnds, SessionStatus
  <2>9. ASSUME NEW h \in Events, WebhookFindsPaid(h)
        PROVE  PaymentsTypeOK'
    BY <2>9 DEF WebhookFindsPaid
  <2>10. ASSUME NEW h \in Events, NEW r \in Ref, WebhookSettles(h, r)
         PROVE  PaymentsTypeOK'
    <3>1. PaymentOf[h] \in Payments
      BY PaymentsAssumption DEF PaymentsAssumption
    <3>2. [payment[PaymentOf[h]] EXCEPT !.status = "paid", !.ref = r] \in Payment
      BY <3>1, PaymentUpdates, References DEF PaymentStatus
    <3>3. Posted(debits, PaymentOf[h]) \in [Payments -> Nat]
      BY <3>1, Posting
    <3>4. Earned(PaymentOf[h]) \in [Payments -> Nat]
      BY <3>1, Posting DEF Earned
    <3>5. MarkedPaid(PaymentOf[h]) \in [ForOrder -> BoughtStatus]
      BY DEF MarkedPaid, BoughtStatus
    <3> QED
      BY <2>10, <3>2, <3>3, <3>4, <3>5 DEF WebhookSettles
  <2>11. ASSUME NEW p \in ForOrder, CancelOrder(p)
         PROVE  PaymentsTypeOK'
    BY <2>11 DEF CancelOrder, BoughtStatus
  <2>12. ASSUME NEW p \in ForRequest, OfferAccepted(p)
         PROVE  PaymentsTypeOK'
    BY <2>12 DEF OfferAccepted
  <2>13. ASSUME NEW r \in Refunds, CompleteRefund(r)
         PROVE  PaymentsTypeOK'
    <3> DEFINE p == refund[r].payment
               total == payment[p].refunded + refund[r].amount
               status == IF total >= Amount[p] THEN "refunded" ELSE payment[p].status
    <3>1. refund[r] \in RefundRow(Nat)
      BY <2>13 DEF CompleteRefund, Completable
    <3>2. p \in Payments /\ refund[r].amount \in Nat
      BY <3>1 DEF RefundRow
    <3>3. payment[p] \in Payment
      BY <3>2
    <3>4. total \in Nat /\ status \in PaymentStatus
      BY <3>2, <3>3 DEF Payment, PaymentStatus
    <3>5. [payment[p] EXCEPT !.refunded = total, !.status = status] \in Payment
      BY <3>3, <3>4, PaymentUpdates
    <3>6. payment' = [payment EXCEPT ![p] = [payment[p] EXCEPT !.refunded = total, !.status = status]]
      BY <2>13, Zenon DEF CompleteRefund
    <3>7. payment' \in [Payments -> Payment]
      BY <3>2, <3>5, <3>6
    <3>8. [refund[r] EXCEPT !.status = "succeeded"] \in RefundRow(Nat)
      BY <3>1 DEF RefundRow
    <3> QED
      BY <2>13, <3>7, <3>8 DEF CompleteRefund
  <2>14. CASE UNCHANGED paymentsVars
    BY <2>14 DEF paymentsVars
  <2> QED
    BY References, <2>1, <2>2, <2>3, <2>4, <2>5, <2>6, <2>7, <2>8, <2>9, <2>10, <2>11, <2>12, <2>13, <2>14
       DEF PaymentsNext
<1> QED
  BY <1>1, <1>2, PTL DEF PaymentsSpec

-----------------------------------------------------------------------------
(* The ledger.  Only a webhook that settles writes debits, credits and a    *)
(* paid bought, so that the four properties about them are one invariant.   *)

LedgerInv == PostedOnce /\ EarningNeedsWebhook /\ OrderFollowsLedger /\ SettledOnce

\* Whatever is no webhook leaves the ledger as it is.
LEMMA OnlyWebhooksPost ==
    ASSUME [PaymentsNext]_paymentsVars,
           \A h \in Events : \A r \in Ref : ~WebhookSettles(h, r)
    PROVE  UNCHANGED <<debits, credits>>
  BY DEF PaymentsNext, paymentsVars, CreatePayment, Verify, SettlePayment, Initiate, Authorize, Capture,
         RequestRefund, SessionEnds, WebhookFindsPaid, CancelOrder, OfferAccepted, CompleteRefund

\* Events stay processed and assigned requests assigned.
LEMMA HistoryGrows ==
    ASSUME [PaymentsNext]_paymentsVars
    PROVE  hooks \subseteq hooks' /\ assigned \subseteq assigned'
  BY DEF PaymentsNext, paymentsVars, CreatePayment, Verify, SettlePayment, Initiate, Authorize, Capture,
         RequestRefund, SessionEnds, WebhookFindsPaid, WebhookSettles, CancelOrder, OfferAccepted,
         CompleteRefund

\* A settlement is the only step that writes the journal.
LEMMA OnlySettlementWritesJournal ==
    ASSUME [PaymentsNext]_paymentsVars, \A p \in Payments : ~SettlePayment(p)
    PROVE  UNCHANGED journal
  BY DEF PaymentsNext, paymentsVars, CreatePayment, Verify, Initiate, Authorize, Capture, RequestRefund,
         SessionEnds, WebhookFindsPaid, WebhookSettles, CancelOrder, OfferAccepted, CompleteRefund

\* A cancellation and a settling webhook are the only steps that write orders.
LEMMA OnlyTwoWriteOrders ==
    ASSUME [PaymentsNext]_paymentsVars,
           \A p \in ForOrder : ~CancelOrder(p),
           \A h \in Events : \A r \in Ref : ~WebhookSettles(h, r)
    PROVE  UNCHANGED bought
  BY DEF PaymentsNext, paymentsVars, CreatePayment, Verify, SettlePayment, Initiate, Authorize, Capture,
         RequestRefund, SessionEnds, WebhookFindsPaid, OfferAccepted, CompleteRefund

\* The webhook that settles keeps the four properties of the ledger.
LEMMA WebhookKeepsLedger ==
    ASSUME PaymentsTypeOK, LedgerInv,
           NEW h \in Events, NEW r \in Ref, WebhookSettles(h, r)
    PROVE  PostedOnce' /\ EarningNeedsWebhook' /\ OrderFollowsLedger'
<1> DEFINE p == PaymentOf[h]
<1>1. p \in Payments
  BY PaymentsAssumption DEF PaymentsAssumption
<1>2. debits' = Posted(debits, p) /\ credits' = Earned(p) /\ bought' = MarkedPaid(p)
      /\ hooks' = hooks \cup {h} /\ assigned' = assigned
  BY DEF WebhookSettles
<1>3. /\ debits'[p] = IF debits[p] > 0 THEN debits[p] ELSE 1
      /\ \A q \in Payments \ {p} : debits'[q] = debits[q]
  BY <1>1, <1>2, Posting DEF PaymentsTypeOK
<1>4. /\ credits'[p] = IF p \in assigned THEN IF credits[p] > 0 THEN credits[p] ELSE 1
                       ELSE credits[p]
      /\ \A q \in Payments \ {p} : credits'[q] = credits[q]
  BY <1>1, <1>2, Posting DEF PaymentsTypeOK, Earned
<1>5. \A q \in Payments : debits[q] \in Nat /\ credits[q] \in Nat
                            /\ debits[q] <= 1 /\ credits[q] <= debits[q]
  BY DEF PaymentsTypeOK, LedgerInv, PostedOnce
<1>6. debits'[p] = 1
  BY <1>1, <1>3, <1>5
<1>7. PostedOnce'
  <2> SUFFICES ASSUME NEW q \in Payments
               PROVE  debits'[q] <= 1 /\ credits'[q] <= debits'[q]
    BY DEF PostedOnce
  <2>1. CASE q = p
    <3>1. credits'[p] \in {credits[p], 1}
      BY <1>4
    <3> QED
      BY <2>1, <3>1, <1>1, <1>5, <1>6
  <2>2. CASE q # p
    BY <2>2, <1>3, <1>4, <1>5
  <2> QED
    BY <2>1, <2>2
<1>8. EarningNeedsWebhook'
  <2> SUFFICES ASSUME NEW q \in Payments, credits'[q] > 0
               PROVE  q \in assigned /\ debits'[q] > 0
                        /\ \E g \in hooks \cup {h} : PaymentOf[g] = q
    BY <1>2 DEF EarningNeedsWebhook
  <2>1. CASE q = p
    <3>1. p \in assigned
      BY <2>1, <1>1, <1>4 DEF LedgerInv, EarningNeedsWebhook
    <3> QED
      BY <2>1, <3>1, <1>6
  <2>2. CASE q # p
    BY <2>2, <1>3, <1>4 DEF LedgerInv, EarningNeedsWebhook
  <2> QED
    BY <2>1, <2>2
<1>9. OrderFollowsLedger'
  <2> SUFFICES ASSUME NEW q \in ForOrder
               PROVE  /\ bought'[q] = "paid" => debits'[q] > 0
                      /\ debits'[q] > 0 => bought'[q] # "pending_payment"
    BY DEF OrderFollowsLedger
  <2>1. q \in Payments
    BY PaymentsAssumption DEF PaymentsAssumption
  <2>2. CASE q = p
    <3>1. bought'[p] = IF bought[p] = "pending_payment" THEN "paid" ELSE bought[p]
      BY <2>2, <1>2 DEF MarkedPaid, PaymentsTypeOK
    <3> QED
      BY <2>2, <3>1, <1>6
  <2>3. CASE q # p
    <3>1. bought'[q] = bought[q]
      BY <2>3, <1>2 DEF MarkedPaid, PaymentsTypeOK
    <3> QED
      BY <2>1, <2>3, <3>1, <1>3 DEF LedgerInv, OrderFollowsLedger
  <2> QED
    BY <2>2, <2>3
<1> QED
  BY <1>7, <1>8, <1>9

\* Every step keeps ledger, earnings, order and settlement in agreement.
LEMMA LedgerInvStep ==
    ASSUME PaymentsTypeOK, LedgerInv, [PaymentsNext]_paymentsVars
    PROVE  LedgerInv'
<1>1. SettledOnce'
  <2>1. CASE \E p \in Payments : SettlePayment(p)
    <3> PICK p \in Payments : SettlePayment(p)
      BY <2>1
    <3>1. journal' = [journal EXCEPT ![p] = 1]
      BY DEF SettlePayment, Unsettled, PaymentsTypeOK
    <3> QED
      BY <3>1 DEF SettledOnce, LedgerInv, PaymentsTypeOK
  <2>2. CASE ~\E p \in Payments : SettlePayment(p)
    BY <2>2, OnlySettlementWritesJournal DEF SettledOnce, LedgerInv
  <2> QED
    BY <2>1, <2>2
<1>2. CASE \E h \in Events : \E r \in Ref : WebhookSettles(h, r)
  BY <1>1, <1>2, WebhookKeepsLedger DEF LedgerInv
<1>3. CASE ~\E h \in Events : \E r \in Ref : WebhookSettles(h, r)
  <2>1. UNCHANGED <<debits, credits>>
    BY <1>3, OnlyWebhooksPost
  <2>2. PostedOnce'
    BY <2>1 DEF LedgerInv, PostedOnce
  <2>3. EarningNeedsWebhook'
    BY <2>1, HistoryGrows DEF LedgerInv, EarningNeedsWebhook
  <2>4. OrderFollowsLedger'
    <3>1. CASE \E p \in ForOrder : CancelOrder(p)
      <4> PICK p \in ForOrder : CancelOrder(p)
        BY <3>1
      <4>1. bought' = [bought EXCEPT ![p] = "cancelled"]
        BY DEF CancelOrder
      <4> QED
        BY <2>1, <4>1 DEF LedgerInv, OrderFollowsLedger, PaymentsTypeOK
    <3>2. CASE ~\E p \in ForOrder : CancelOrder(p)
      BY <2>1, <3>2, <1>3, OnlyTwoWriteOrders DEF LedgerInv, OrderFollowsLedger
    <3> QED
      BY <3>1, <3>2
  <2> QED
    BY <1>1, <2>2, <2>3, <2>4 DEF LedgerInv
<1> QED
  BY <1>2, <1>3

\* Ledger, earnings, order and settlement agree in every reachable state.
THEOREM LedgerInvariant == PaymentsSpec => []LedgerInv
<1>1. PaymentsInit => LedgerInv
  BY PaymentsAssumption
     DEF PaymentsAssumption, PaymentsInit, LedgerInv, PostedOnce, EarningNeedsWebhook,
         OrderFollowsLedger, SettledOnce
<1>2. PaymentsTypeOK /\ LedgerInv /\ [PaymentsNext]_paymentsVars => LedgerInv'
  BY LedgerInvStep
<1> QED
  BY <1>1, <1>2, PaymentsTypeCorrect, PTL DEF PaymentsSpec

\* A payment is posted once, however events, queries and captures are ordered.
THEOREM PaymentPostedOnce == PaymentsSpec => []PostedOnce
  BY LedgerInvariant, PTL DEF LedgerInv

\* A provider earns only through a webhook, for a request it was assigned to.
THEOREM EarningsNeedWebhooks == PaymentsSpec => []EarningNeedsWebhook
  BY LedgerInvariant, PTL DEF LedgerInv

\* An order is paid only with its payment in the ledger, and then never waits.
THEOREM OrdersFollowLedger == PaymentsSpec => []OrderFollowsLedger
  BY LedgerInvariant, PTL DEF LedgerInv

\* A payment is settled once.
THEOREM PaymentSettledOnce == PaymentsSpec => []SettledOnce
  BY LedgerInvariant, PTL DEF LedgerInv

-----------------------------------------------------------------------------
(* Paid at some time.  The status forgets it, because a status query may    *)
(* write any other over it; the ledger and captured_at do not.              *)

WasPaid(p) == debits[p] > 0 \/ payment[p].captured

RefundedWasPaid == \A r \in Refunds : refund[r] # NoRefund => WasPaid(refund[r].payment)

PaidInv ==
    /\ \A p \in Payments : payment[p].status = "paid" => WasPaid(p)
    /\ PaidBefore
    /\ ProcessedIsPosted
    /\ RefundedWasPaid

\* What has been paid stays so.
LEMMA PaidStays ==
    ASSUME PaymentsTypeOK, [PaymentsNext]_paymentsVars, NEW p \in Payments, WasPaid(p)
    PROVE  WasPaid(p)'
<1>1. debits'[p] = debits[p] \/ debits'[p] > 0
  <2>1. CASE \E h \in Events : \E r \in Ref : WebhookSettles(h, r)
    <3> PICK h \in Events : \E r \in Ref : WebhookSettles(h, r)
      BY <2>1
    <3>1. PaymentOf[h] \in Payments
      BY PaymentsAssumption DEF PaymentsAssumption
    <3>2. debits' = Posted(debits, PaymentOf[h])
      BY DEF WebhookSettles
    <3>3. CASE p = PaymentOf[h]
      BY <3>2, <3>3, Posting DEF PaymentsTypeOK
    <3>4. CASE p # PaymentOf[h]
      BY <3>1, <3>2, <3>4, Posting DEF PaymentsTypeOK
    <3> QED
      BY <3>3, <3>4
  <2>2. CASE ~\E h \in Events : \E r \in Ref : WebhookSettles(h, r)
    BY <2>2, OnlyWebhooksPost
  <2> QED
    BY <2>1, <2>2
<1>2. payment[p].captured => payment'[p].captured
  <2> SUFFICES ASSUME payment[p].captured
               PROVE  payment'[p].captured
    OBVIOUS
  <2>1. CASE UNCHANGED payment
    BY <2>1
  <2>2. ASSUME NEW q \in Payments, CreatePayment(q) \/ Verify(q)
        PROVE  payment'[p].captured
    BY <2>2 DEF CreatePayment, Verify, PaymentsTypeOK, Payment
  <2>3. ASSUME NEW q \in Payments, NEW r \in Ref,
               Initiate(q, r) \/ Authorize(q, r) \/ Capture(q, r)
        PROVE  payment'[p].captured
    BY <2>3 DEF Initiate, Authorize, Capture, Captured, PaymentsTypeOK, Payment
  <2>4. ASSUME NEW h \in Events, NEW r \in Ref, WebhookSettles(h, r)
        PROVE  payment'[p].captured
    BY <2>4 DEF WebhookSettles, PaymentsTypeOK, Payment
  <2>5. ASSUME NEW r \in Refunds, CompleteRefund(r)
        PROVE  payment'[p].captured
    BY <2>5 DEF CompleteRefund, PaymentsTypeOK, Payment
  <2> QED
    BY References, <2>1, <2>2, <2>3, <2>4, <2>5
       DEF PaymentsNext, paymentsVars, SettlePayment, RequestRefund, SessionEnds,
           WebhookFindsPaid, CancelOrder, OfferAccepted
<1> QED
  BY <1>1, <1>2 DEF WasPaid

\* Every step keeps processed events, refunds and settlements on payments that were paid.
LEMMA PaidInvStep ==
    ASSUME PaymentsTypeOK, PaidInv, [PaymentsNext]_paymentsVars
    PROVE  PaidInv'
<1>1. \A p \in Payments : WasPaid(p) => WasPaid(p)'
  BY PaidStays
<1>2. \A h \in Events : PaymentOf[h] \in Payments
  BY PaymentsAssumption DEF PaymentsAssumption
<1>3. \A r \in Refunds : refund[r] # NoRefund => refund[r].payment \in Payments
  BY DEF PaymentsTypeOK, RefundRow
<1>4. ASSUME NEW h \in Events, NEW r \in Ref, WebhookSettles(h, r)
      PROVE  WasPaid(PaymentOf[h])'
  <2>1. debits'[PaymentOf[h]] > 0
    <3>1. debits' = Posted(debits, PaymentOf[h])
      BY <1>4 DEF WebhookSettles
    <3> QED
      BY <3>1, <1>2, Posting DEF PaymentsTypeOK
  <2> QED
    BY <2>1 DEF WasPaid
<1>5. (\A p \in Payments : payment[p].status = "paid" => WasPaid(p))'
  <2> SUFFICES ASSUME NEW p \in Payments, payment'[p].status = "paid", payment[p].status # "paid"
               PROVE  WasPaid(p)'
    BY <1>1 DEF PaidInv
  <2>1. ASSUME NEW q \in Payments, CreatePayment(q)
        PROVE  FALSE
    BY <2>1 DEF CreatePayment, PaymentsTypeOK, Payment
  <2>2. ASSUME NEW q \in Payments, Verify(q)
        PROVE  WasPaid(p)'
    BY <2>2 DEF Verify, PaymentsTypeOK, Payment, WasPaid
  <2>3. ASSUME NEW q \in Payments, NEW r \in Ref, Initiate(q, r) \/ Authorize(q, r)
        PROVE  FALSE
    <3>1. CASE Initiate(q, r)
      <4>1. payment' = [payment EXCEPT ![q] = [payment[q] EXCEPT !.ref = r]]
        BY <3>1, Zenon DEF Initiate
      <4> QED
        BY <4>1 DEF PaymentsTypeOK, Payment
    <3>2. CASE Authorize(q, r)
      BY <3>2 DEF Authorize, PaymentsTypeOK, Payment
    <3> QED
      BY <2>3, <3>1, <3>2
  <2>4. ASSUME NEW q \in Payments, NEW r \in Ref, Capture(q, r)
        PROVE  WasPaid(p)'
    BY <2>4 DEF Capture, Captured, PaymentsTypeOK, Payment, WasPaid
  <2>5. ASSUME NEW h \in Events, NEW r \in Ref, WebhookSettles(h, r)
        PROVE  WasPaid(p)'
    <3>1. payment' = [payment EXCEPT ![PaymentOf[h]] =
                        [payment[PaymentOf[h]] EXCEPT !.status = "paid", !.ref = r]]
      BY <2>5, Zenon DEF WebhookSettles
    <3>2. p = PaymentOf[h]
      BY <3>1 DEF PaymentsTypeOK
    <3> QED
      BY <2>5, <3>2, <1>4
  <2>6. ASSUME NEW r \in Refunds, CompleteRefund(r)
        PROVE  FALSE
    BY <2>6, <1>3 DEF CompleteRefund, Completable, PaymentsTypeOK, Payment
  <2> QED
    BY References, <2>1, <2>2, <2>3, <2>4, <2>5, <2>6
       DEF PaymentsNext, paymentsVars, SettlePayment, RequestRefund, SessionEnds,
           WebhookFindsPaid, CancelOrder, OfferAccepted
<1>6. PaidBefore'
  <2> SUFFICES ASSUME NEW p \in Payments, payment'[p].refunded > 0 \/ journal'[p] > 0
               PROVE  WasPaid(p)'
    BY DEF PaidBefore, WasPaid
  <2>1. CASE payment'[p].refunded = payment[p].refunded /\ journal'[p] = journal[p]
    BY <2>1, <1>1 DEF PaidInv, PaidBefore, WasPaid
  <2>2. ASSUME NEW q \in Payments, SettlePayment(q)
        PROVE  WasPaid(p)'
    <3>1. q = p \/ (payment'[p].refunded = payment[p].refunded /\ journal'[p] = journal[p])
      BY <2>2 DEF SettlePayment, PaymentsTypeOK
    <3>2. q = p => WasPaid(p)
      BY <2>2 DEF SettlePayment, Capturable, PaidInv
    <3> QED
      BY <2>1, <3>1, <3>2, <1>1
  <2>3. ASSUME NEW r \in Refunds, CompleteRefund(r)
        PROVE  WasPaid(p)'
    <3>1. refund[r] # NoRefund
      BY <2>3 DEF CompleteRefund, Completable
    <3>2. refund[r].payment = p => WasPaid(p)
      BY <3>1 DEF PaidInv, RefundedWasPaid
    <3>3. refund[r].payment # p =>
            payment'[p].refunded = payment[p].refunded /\ journal'[p] = journal[p]
      BY <2>3, <1>3, <3>1 DEF CompleteRefund, PaymentsTypeOK
    <3> QED
      BY <2>1, <3>2, <3>3, <1>1
  <2>4. ASSUME NEW q \in Payments,
               \/ CreatePayment(q) \/ Verify(q)
               \/ \E r \in Ref : Initiate(q, r) \/ Authorize(q, r) \/ Capture(q, r)
        PROVE  payment'[p].refunded = payment[p].refunded /\ journal'[p] = journal[p]
    <3>1. journal'[p] = journal[p]
      BY <2>4 DEF CreatePayment, Verify, Initiate, Authorize, Capture
    <3>2. CASE CreatePayment(q)
      BY <3>1, <3>2 DEF CreatePayment, PaymentsTypeOK, Payment
    <3>3. CASE Verify(q)
      BY <3>1, <3>3 DEF Verify, PaymentsTypeOK, Payment
    <3>4. ASSUME NEW r \in Ref, Initiate(q, r)
          PROVE  payment'[p].refunded = payment[p].refunded
      <4>1. payment' = [payment EXCEPT ![q] = [payment[q] EXCEPT !.ref = r]]
        BY <3>4, Zenon DEF Initiate
      <4> QED
        BY <4>1 DEF PaymentsTypeOK, Payment
    <3>5. ASSUME NEW r \in Ref, Authorize(q, r)
          PROVE  payment'[p].refunded = payment[p].refunded
      BY <3>5 DEF Authorize, PaymentsTypeOK, Payment
    <3>6. ASSUME NEW r \in Ref, Capture(q, r)
          PROVE  payment'[p].refunded = payment[p].refunded
      BY <3>6 DEF Capture, Captured, PaymentsTypeOK, Payment
    <3> QED
      BY <2>4, <3>1, <3>2, <3>3, <3>4, <3>5, <3>6
  <2>5. ASSUME NEW h \in Events, NEW r \in Ref, WebhookSettles(h, r)
        PROVE  payment'[p].refunded = payment[p].refunded /\ journal'[p] = journal[p]
    BY <2>5 DEF WebhookSettles, PaymentsTypeOK, Payment
  <2> QED
    BY References, <2>1, <2>2, <2>3, <2>4, <2>5
       DEF PaymentsNext, paymentsVars, RequestRefund, SessionEnds, WebhookFindsPaid, CancelOrder,
           OfferAccepted
<1>7. ProcessedIsPosted'
  <2> SUFFICES ASSUME NEW h \in hooks'
               PROVE  WasPaid(PaymentOf[h])'
    BY DEF ProcessedIsPosted, WasPaid
  <2>1. CASE h \in hooks
    BY <2>1, <1>1, <1>2 DEF PaidInv, ProcessedIsPosted, WasPaid, PaymentsTypeOK
  <2>2. ASSUME NEW g \in Events, WebhookFindsPaid(g), h \notin hooks
        PROVE  WasPaid(PaymentOf[h])'
    <3>1. g = h /\ payment[PaymentOf[h]].status = "paid"
      BY <2>2 DEF WebhookFindsPaid
    <3> QED
      BY <3>1, <1>1, <1>2 DEF PaidInv
  <2>3. ASSUME NEW g \in Events, NEW r \in Ref, WebhookSettles(g, r), h \notin hooks
        PROVE  WasPaid(PaymentOf[h])'
    <3>1. g = h
      BY <2>3 DEF WebhookSettles
    <3> QED
      BY <2>3, <3>1, <1>4
  <2>4. CASE UNCHANGED hooks
    BY <2>1, <2>4
  <2> QED
    BY <2>1, <2>2, <2>3, <2>4
       DEF PaymentsNext, paymentsVars, CreatePayment, Verify, SettlePayment, Initiate, Authorize,
           Capture,
           RequestRefund, SessionEnds, CancelOrder, OfferAccepted, CompleteRefund
<1>8. RefundedWasPaid'
  <2> SUFFICES ASSUME NEW r \in Refunds, refund'[r] # NoRefund
               PROVE  WasPaid(refund[r].payment)'
    BY DEF RefundedWasPaid, WasPaid
  <2>1. CASE refund[r] # NoRefund /\ refund'[r].payment = refund[r].payment
    BY <2>1, <1>1, <1>3 DEF PaidInv, RefundedWasPaid, WasPaid
  <2>2. ASSUME NEW s \in Refunds, NEW p \in Payments, NEW amount \in 1..Amount[p],
               RequestRefund(s, p, amount)
        PROVE  WasPaid(refund[r].payment)'
    <3>1. CASE s = r
      <4>1. refund'[r].payment = p /\ payment[p].status = "paid"
        BY <2>2, <3>1 DEF RequestRefund, PaymentsTypeOK
      <4> QED
        BY <4>1, <1>1 DEF PaidInv, WasPaid
    <3>2. CASE s # r
      BY <2>1, <2>2, <3>2 DEF RequestRefund, PaymentsTypeOK
    <3> QED
      BY <3>1, <3>2
  <2>3. ASSUME NEW s \in Refunds, CompleteRefund(s)
        PROVE  WasPaid(refund[r].payment)'
    <3>1. refund[r] # NoRefund
      BY <2>3 DEF CompleteRefund, Completable, PaymentsTypeOK
    <3>2. refund[r] \in RefundRow(Nat)
      BY <3>1 DEF PaymentsTypeOK
    <3>3. refund'[r].payment = refund[r].payment
      BY <2>3, <3>2 DEF CompleteRefund, PaymentsTypeOK, RefundRow
    <3> QED
      BY <2>1, <3>1, <3>3
  <2>4. CASE UNCHANGED refund
    BY <2>1, <2>4
  <2> QED
    BY <2>2, <2>3, <2>4
       DEF PaymentsNext, paymentsVars, CreatePayment, Verify, SettlePayment, Initiate, Authorize,
           Capture,
           SessionEnds, WebhookFindsPaid, WebhookSettles, CancelOrder, OfferAccepted
<1> QED
  BY <1>5, <1>6, <1>7, <1>8 DEF PaidInv

\* The four properties about what was paid, together.
THEOREM PaidInvariant == PaymentsSpec => []PaidInv
<1>1. PaymentsInit => PaidInv
  BY DEF PaymentsInit, PaidInv, PaidBefore, ProcessedIsPosted, RefundedWasPaid, NoPayment
<1>2. PaymentsTypeOK /\ PaidInv /\ [PaymentsNext]_paymentsVars => PaidInv'
  BY PaidInvStep
<1> QED
  BY <1>1, <1>2, PaymentsTypeCorrect, PTL DEF PaymentsSpec

\* No processed event is without its ledger entry, but for a capture or query.
THEOREM ProcessedEventsPosted == PaymentsSpec => []ProcessedIsPosted
  BY PaidInvariant, PTL DEF PaidInv

\* Refunds and settlements are of payments that were paid.
THEOREM RefundsAndSettlementsWerePaid == PaymentsSpec => []PaidBefore
  BY PaidInvariant, PTL DEF PaidInv

-----------------------------------------------------------------------------
(* Refunds. *)

\* What was given back of a payment is a finite sum of naturals.
LEMMA GivenBackIsNat ==
    ASSUME PaymentsTypeOK, NEW p
    PROVE  GivenBack(p) \in [Refunds -> Nat] /\ SumFunction(GivenBack(p)) \in Nat
<1>1. GivenBack(p) \in [Refunds -> Nat]
  BY DEF GivenBack, Succeeded, PaymentsTypeOK, RefundRow
<1> QED
  BY <1>1, SumType, PaymentsAssumption DEF PaymentsAssumption

\* A request gives nothing back.
LEMMA RequestGivesNothing ==
    ASSUME PaymentsTypeOK, NEW r \in Refunds, NEW q, NEW amount, RequestRefund(r, q, amount), NEW p
    PROVE  GivenBack(p)' = GivenBack(p)
<1>1. /\ refund[r] = NoRefund
      /\ refund'[r] = [payment |-> q, amount |-> amount, status |-> "requested"]
      /\ \A s \in Refunds \ {r} : refund'[s] = refund[s]
  BY DEF RequestRefund, PaymentsTypeOK
<1>2. r \notin Succeeded(p) /\ r \notin Succeeded(p)'
  BY <1>1 DEF Succeeded
<1>3. Succeeded(p)' = Succeeded(p)
  BY <1>1, <1>2 DEF Succeeded
<1> QED
  BY <1>1, <1>2, <1>3 DEF GivenBack

\* A refund that is completed adds its amount to what was given back of its
\* payment, and nothing to another.
LEMMA CompletionIsCounted ==
    ASSUME PaymentsTypeOK, RefundsAreCounted, NEW r \in Refunds, CompleteRefund(r),
           NEW p \in Payments
    PROVE  payment'[p].refunded = SumFunction(GivenBack(p)')
<1> DEFINE q == refund[r].payment
           amount == refund[r].amount
           f == GivenBack(p)
           g == GivenBack(p)'
<1>1. /\ refund[r] \in RefundRow(Nat) /\ refund[r] # NoRefund
      /\ refund[r].status = "requested"
  BY DEF CompleteRefund, Completable, PaymentsTypeOK
<1>2. q \in Payments /\ amount \in Nat
  BY <1>1 DEF RefundRow
<1>3. /\ refund'[r].payment = q /\ refund'[r].amount = amount /\ refund'[r].status = "succeeded"
      /\ \A s \in Refunds \ {r} : refund'[s] = refund[s]
  BY <1>1 DEF CompleteRefund, PaymentsTypeOK, RefundRow
<1>4. refund'[r] # NoRefund
  <2>1. refund'[r] = [refund[r] EXCEPT !.status = "succeeded"]
    BY DEF CompleteRefund, PaymentsTypeOK
  <2>2. refund'[r] \in RefundRow(Nat)
    BY <1>1, <2>1 DEF RefundRow
  <2> QED
    BY <2>2, PaymentsAssumption DEF PaymentsAssumption
<1>5. r \notin Succeeded(p)
  BY <1>1 DEF Succeeded
<1>6. \A s \in Refunds \ {r} : g[s] = f[s]
  <2>1. \A s \in Refunds \ {r} : s \in Succeeded(p)' <=> s \in Succeeded(p)
    BY <1>3 DEF Succeeded
  <2> QED
    BY <1>3, <2>1 DEF GivenBack
<1>7. payment[p] \in Payment /\ payment[p].refunded \in Nat
  BY DEF PaymentsTypeOK, Payment
<1>8. CASE p = q
  <2>1. f[r] = 0 /\ g[r] = amount
    BY <1>3, <1>4, <1>5, <1>8 DEF GivenBack, Succeeded
  <2>2. payment'[p].refunded = payment[p].refunded + amount
    BY <1>2, <1>7, <1>8 DEF CompleteRefund, PaymentsTypeOK, Payment
  <2>3. f \in [Refunds -> Nat] /\ SumFunction(f) \in Nat
    BY GivenBackIsNat
  <2>4. g = [s \in Refunds |-> g[s]]
    BY DEF GivenBack
  <2>5. payment[p].refunded = SumFunction(f)
    BY DEF RefundsAreCounted
  <2> HIDE DEF f, g
  <2>6. g \in [Refunds -> Nat]
    BY <1>2, <1>6, <2>1, <2>3, <2>4
  <2>7. SumFunction(g) + f[r] = SumFunction(f) + g[r] /\ SumFunction(g) \in Nat
    BY <1>6, <2>3, <2>6, SumChange, SumType, PaymentsAssumption DEF PaymentsAssumption
  <2>8. payment'[p].refunded = SumFunction(g)
    BY <1>2, <2>1, <2>2, <2>3, <2>5, <2>7
  <2> QED
    BY <2>8 DEF g
<1>9. CASE p # q
  <2>1. r \notin Succeeded(p)'
    BY <1>3, <1>9 DEF Succeeded
  <2>2. GivenBack(p)' = GivenBack(p)
    BY <1>3, <1>5, <2>1 DEF GivenBack, Succeeded
  <2>3. payment'[p] = payment[p]
    BY <1>9 DEF CompleteRefund, PaymentsTypeOK
  <2> QED
    BY <2>2, <2>3 DEF RefundsAreCounted
<1> QED
  BY <1>8, <1>9

\* Only a completed refund changes what was given back.
LEMMA OnlyCompletionsGiveBack ==
    ASSUME PaymentsTypeOK, [PaymentsNext]_paymentsVars, \A r \in Refunds : ~CompleteRefund(r),
           NEW p \in Payments
    PROVE  payment'[p].refunded = payment[p].refunded
<1>1. CASE UNCHANGED payment
  BY <1>1
<1>2. ASSUME NEW q \in Payments, CreatePayment(q) \/ Verify(q)
      PROVE  payment'[p].refunded = payment[p].refunded
  BY <1>2 DEF CreatePayment, Verify, PaymentsTypeOK, Payment
<1>3. ASSUME NEW q \in Payments, NEW r \in Ref,
             Initiate(q, r) \/ Authorize(q, r) \/ Capture(q, r)
      PROVE  payment'[p].refunded = payment[p].refunded
  <2> USE DEF PaymentsTypeOK, Payment
  <2>1. CASE Initiate(q, r)
    BY <2>1 DEF Initiate
  <2>2. CASE Authorize(q, r)
    BY <2>2 DEF Authorize
  <2>3. CASE Capture(q, r)
    BY <2>3 DEF Capture, Captured
  <2> QED
    BY <1>3, <2>1, <2>2, <2>3
<1>4. ASSUME NEW h \in Events, NEW r \in Ref, WebhookSettles(h, r)
      PROVE  payment'[p].refunded = payment[p].refunded
  BY <1>4 DEF WebhookSettles, PaymentsTypeOK, Payment
<1> QED
  BY References, <1>1, <1>2, <1>3, <1>4
     DEF PaymentsNext, paymentsVars, SettlePayment, RequestRefund, SessionEnds, WebhookFindsPaid,
         CancelOrder, OfferAccepted

\* Every step keeps refunded_amount equal to the refunds that succeeded.
LEMMA RefundsStep ==
    ASSUME PaymentsTypeOK, RefundsAreCounted, [PaymentsNext]_paymentsVars
    PROVE  RefundsAreCounted'
<1> SUFFICES ASSUME NEW p \in Payments
             PROVE  payment'[p].refunded = SumFunction(GivenBack(p)')
  BY DEF RefundsAreCounted
<1>1. CASE \E r \in Refunds : CompleteRefund(r)
  BY <1>1, CompletionIsCounted
<1>2. CASE ~\E r \in Refunds : CompleteRefund(r)
  <2>1. payment'[p].refunded = payment[p].refunded
    BY <1>2, OnlyCompletionsGiveBack
  <2>2. CASE UNCHANGED refund
    BY <2>1, <2>2 DEF RefundsAreCounted, GivenBack, Succeeded
  <2>3. CASE \E q \in Payments : \E r \in Refunds, amount \in 1..Amount[q] : RequestRefund(r, q, amount)
    BY <2>1, <2>3, RequestGivesNothing DEF RefundsAreCounted
  <2> QED
    BY <1>2, <2>2, <2>3
       DEF PaymentsNext, paymentsVars, CreatePayment, Verify, SettlePayment, Initiate, Authorize,
           Capture, SessionEnds, WebhookFindsPaid, WebhookSettles, CancelOrder, OfferAccepted
<1> QED
  BY <1>1, <1>2

\* refunded_amount is the sum of the refunds that succeeded, for any refunds,
\* requested and completed in any order.
THEOREM RefundsCounted == PaymentsSpec => []RefundsAreCounted
<1>1. PaymentsInit => RefundsAreCounted
  <2> HAVE PaymentsInit
  <2>1. ASSUME NEW p \in Payments
        PROVE  GivenBack(p) = [r \in Refunds |-> 0]
    BY DEF GivenBack, Succeeded, PaymentsInit
  <2>2. SumFunction([r \in Refunds |-> 0]) = 0
    BY SumZero, PaymentsAssumption DEF PaymentsAssumption
  <2>3. \A p \in Payments : payment[p].refunded = 0
    BY DEF PaymentsInit, NoPayment
  <2> QED
    BY <2>1, <2>2, <2>3 DEF RefundsAreCounted
<1>2. PaymentsTypeOK /\ RefundsAreCounted /\ [PaymentsNext]_paymentsVars => RefundsAreCounted'
  BY RefundsStep
<1> QED
  BY <1>1, <1>2, PaymentsTypeCorrect, PTL DEF PaymentsSpec
=============================================================================
