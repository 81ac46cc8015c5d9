--------------------------------- MODULE Orders ---------------------------------
(***************************************************************************)
(* Carts, stock and orders of one merchant (app/services/commerce.py,      *)
(* food_delivery.py, merchant_os.py, pos.py, their routes, and the         *)
(* WhatsApp commands of whatsapp_router.py that call them).                *)
(*                                                                         *)
(* Every operation locks the rows it reads before it writes and is one     *)
(* step.  An order belongs to one cart, whose items never change after     *)
(* checkout, so that both go by the name of the cart.                      *)
(***************************************************************************)
EXTENDS Naturals, FiniteSets, Functions

CONSTANTS
    Products,    \* rows of pos_products that can be created
    Carts,       \* rows of commerce_carts that can be created
    CustomerOf,  \* [Carts -> customers]
    MaxStock,    \* bound: the largest quantity a stock is set to
    NoProduct    \* the row does not exist

ASSUME OrdersAssumption ==
    /\ MaxStock \in Nat
    /\ NoProduct \notin Nat
    /\ IsFiniteSet(Carts)

VARIABLES
    stock,    \* pos_products.stock_quantity
    cart,     \* commerce_carts with their commerce_cart_items
    order,    \* commerce_orders.status
    counted,  \* history: the quantity a stock was last set to
    since     \* history: the orders and counter sales made since then

shopVars == <<stock, cart, order, counted, since>>

Quantity == 0..MaxStock
OrderStatus == {"none", "pending_payment", "paid", "preparing", "ready",
                "out_for_delivery", "completed", "cancelled"}

Empty == [p \in Products |-> 0]
NoSales == [orders |-> {}, counter |-> 0]

ShopInit ==
    /\ stock = [p \in Products |-> NoProduct]
    /\ cart = [c \in Carts |-> [status |-> "none", qty |-> Empty]]
    /\ order = [c \in Carts |-> "none"]
    /\ counted = [p \in Products |-> 0]
    /\ since = [p \in Products |-> NoSales]

-----------------------------------------------------------------------------
(* Mistakes the properties are tested against.                             *)

DecrementedOnce(c) == [p \in Products |-> IF cart[c].qty[p] > 0 THEN stock[p] - 1 ELSE stock[p]]
AnyWaiting(c) == order[c] # "none"

-----------------------------------------------------------------------------
(* The merchant's shelf. *)

\* add_menu_item and create_product.
AddProduct(p, q) ==
    /\ stock[p] = NoProduct
    /\ stock' = [stock EXCEPT ![p] = q]
    /\ counted' = [counted EXCEPT ![p] = q]
    /\ UNCHANGED <<cart, order, since>>

\* update_stock overwrites whatever orders have left.
UpdateStock(p, q) ==
    /\ stock[p] # NoProduct
    /\ stock' = [stock EXCEPT ![p] = q]
    /\ counted' = [counted EXCEPT ![p] = q]
    /\ since' = [since EXCEPT ![p] = NoSales]
    /\ UNCHANGED <<cart, order>>

\* pos.create_order.
CounterSale(p, q) ==
    /\ stock[p] # NoProduct /\ q > 0 /\ q <= stock[p]
    /\ stock' = [stock EXCEPT ![p] = @ - q]
    /\ since' = [since EXCEPT ![p].counter = @ + q]
    /\ UNCHANGED <<cart, order, counted>>

-----------------------------------------------------------------------------
(* The customer's cart. *)

Active(c) == cart[c].status = "active"

\* get_or_create_cart inserts a row if the customer has no active one.
Insertable(c) ==
    /\ cart[c].status = "none"
    /\ \A d \in Carts : CustomerOf[d] = CustomerOf[c] => ~Active(d)

Opened(c) == IF Active(c) THEN cart ELSE [cart EXCEPT ![c].status = "active"]

\* add_to_cart: what is in the cart counts, nothing is reserved.
AddToCart(c, p, q) ==
    /\ stock[p] # NoProduct /\ q > 0
    /\ Active(c) \/ Insertable(c)
    /\ cart[c].qty[p] + q <= stock[p]
    /\ cart' = [Opened(c) EXCEPT ![c].qty[p] = @ + q]
    /\ UNCHANGED <<stock, order, counted, since>>

\* Refused for lack of stock: the route rolls the new cart back, _commerce of
\* the router answers with the error and lets the inbox worker commit it.
AddIsRefused(c, p) ==
    /\ stock[p] # NoProduct /\ Insertable(c)
    /\ cart' = Opened(c)
    /\ UNCHANGED <<stock, order, counted, since>>

\* update_cart_item; 0 deletes the item.
UpdateCartItem(c, p, q) ==
    /\ Active(c) /\ cart[c].qty[p] > 0 /\ q <= stock[p]
    /\ cart' = [cart EXCEPT ![c].qty[p] = q]
    /\ UNCHANGED <<stock, order, counted, since>>

Items(c) == {p \in Products : cart[c].qty[p] > 0}

Decremented(c) == [p \in Products |-> IF p \in Items(c) THEN stock[p] - cart[c].qty[p] ELSE stock[p]]

\* The unique key on user, merchant and status: one checked out cart for ever.
KeyIsFree(c) ==
    \A d \in Carts : CustomerOf[d] = CustomerOf[c] => cart[d].status # "checked_out"

\* checkout and food_checkout.  A payment that cannot be started rolls the
\* second back and leaves the first, reached over WhatsApp, as it is.
Checkout(c) ==
    /\ Active(c) /\ Items(c) # {}
    /\ \A p \in Items(c) : cart[c].qty[p] <= stock[p]
    /\ KeyIsFree(c)
    /\ stock' = Decremented(c)
    /\ order' = [order EXCEPT ![c] = "pending_payment"]
    /\ cart' = [cart EXCEPT ![c].status = "checked_out"]
    /\ since' = [p \in Products |->
                    IF p \in Items(c) THEN [since[p] EXCEPT !.orders = @ \cup {c}] ELSE since[p]]
    /\ UNCHANGED counted

-----------------------------------------------------------------------------
(* The order, up to its delivery. *)

OrderMoves(c, new) ==
    /\ order' = [order EXCEPT ![c] = new]
    /\ UNCHANGED <<stock, cart, counted, since>>

AwaitsPayment(c) == order[c] = "pending_payment"

\* mark_order_paid, called by the payment webhook.
MarkOrderPaid(c) == AwaitsPayment(c) /\ OrderMoves(c, "paid")

\* cancel_customer_order; what was taken from the shelf is not put back.
CancelCustomerOrder(c) == AwaitsPayment(c) /\ OrderMoves(c, "cancelled")

\* ORDER_STATES.
OrderMay(c, new) ==
    \/ order[c] = "paid" /\ new \in {"preparing", "cancelled"}
    \/ order[c] = "preparing" /\ new \in {"ready", "cancelled"}
    \/ order[c] = "ready" /\ new \in {"out_for_delivery", "completed", "cancelled"}
    \/ order[c] = "out_for_delivery" /\ new \in {"completed", "cancelled"}

\* merchant_transition for accept, preparing, reject, cancel and complete; ready
\* is in Deliveries.
MerchantTransition(c, new) ==
    /\ new \in {"preparing", "completed", "cancelled"}
    /\ OrderMay(c, new)
    /\ OrderMoves(c, new)

ShopNext ==
    \/ \E p \in Products, q \in Quantity :
        \/ AddProduct(p, q) \/ UpdateStock(p, q) \/ CounterSale(p, q)
        \/ \E c \in Carts : AddToCart(c, p, q) \/ UpdateCartItem(c, p, q)
    \/ \E c \in Carts, p \in Products : AddIsRefused(c, p)
    \/ \E c \in Carts :
        \/ Checkout(c) \/ MarkOrderPaid(c) \/ CancelCustomerOrder(c)
        \/ \E new \in OrderStatus : MerchantTransition(c, new)

-----------------------------------------------------------------------------

CartStatus == {"none", "active", "checked_out"}

\* The types of the shop's tables; no stock is below zero.
ShopTypeOK ==
    /\ stock \in [Products -> Nat \cup {NoProduct}]
    /\ cart \in [Carts -> [status : CartStatus, qty : [Products -> Nat]]]
    /\ order \in [Carts -> OrderStatus]
    /\ counted \in [Products -> Nat]
    /\ since \in [Products -> [orders : SUBSET Carts, counter : Nat]]

\* What each order since the last count took of p.
SoldSince(p) == [c \in Carts |-> IF c \in since[p].orders THEN cart[c].qty[p] ELSE 0]

\* What was last counted is on the shelf, or was sold since over the counter or
\* in an order, whichever of them were cancelled: two customers, the counter and
\* a recount together never sell a thing twice, nor one that is not there (checkout,
\* create_order).
StockIsCounted ==
    \A p \in Products :
        stock[p] # NoProduct =>
            /\ stock[p] >= 0
            /\ counted[p] = stock[p] + since[p].counter + SumFunction(SoldSince(p))

\* Stages of an order in the words of README_V18.md.
StageOf(c) ==
    CASE order[c] \in {"none", "pending_payment"} -> "waiting"
      [] order[c] \in {"preparing", "ready"} -> "kitchen"
      [] order[c] = "out_for_delivery" -> "away"
      [] OTHER -> order[c]

OrderLife(c) == INSTANCE OrderLife WITH stage <- StageOf(c)

\* However webhook, customer, kitchen and courier interleave, an order is worked
\* on only after it is paid and ends once (mark_order_paid,
\* cancel_customer_order, merchant_transition).
ImplementsOrderLife ==
    /\ \A c \in Carts : OrderLife(c)!Init
    /\ [][\A c \in Carts : OrderLife(c)!Next \/ UNCHANGED StageOf(c)]_shopVars
=============================================================================
