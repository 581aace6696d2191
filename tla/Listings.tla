------------------------------ MODULE Listings ------------------------------
(***************************************************************************)
(* The paged listings of the API, read by a client that walks through all  *)
(* pages while rows are inserted and changed.                              *)
(*                                                                         *)
(* A listing is two statements without a transaction: a COUNT and a SELECT *)
(* with LIMIT and OFFSET.  products, catalog, sales and inventory count    *)
(* first, audit, memberships, invitations and stores select first.  Count  *)
(* and select repeat one WHERE clause in two texts.                        *)
(*                                                                         *)
(* One table is walked in a behaviour.  A row has the columns some WHERE   *)
(* clause or order looks at; ids and names are numbers, which gives them   *)
(* their order.  A search matches the rows with that name, and so does the *)
(* one for the address of an invitation.                                   *)
(***************************************************************************)
EXTENDS Integers, Sequences, FiniteSets, Functions

CONSTANTS
    Lists,          \* listings that are walked
    Ids,            \* ids of rows
    Tenants, Stores,
    OrgOf,          \* the organization of each store
    Events,         \* what audit events say: see NoEvent
    Contents,       \* what the rows of each listing may be written with
    PageSizes,
    MaxTime,        \* bound on the clock
    MaxInt,         \* the largest integer an offset is converted to
    Unset

KnownLists ==
    Lists \subseteq {"sales", "members", "invitations", "audit", "stores", "movements",
                     "products", "categories", "catalog", "inventory"}
NumbersForIds == Ids \subseteq Nat /\ PageSizes \subseteq Nat \ {0}
TimeGoesOn == MaxTime \in Nat \ {0} /\ MaxInt \in Nat
StoresHaveOrgs == OrgOf \in [Stores -> Tenants] /\ Unset \notin Tenants \cup Stores

-----------------------------------------------------------------------------
(* What rows are written with. *)

Labels == 1..2
NoStock == 0 - 1

(* What an audit event says, or a filter asks of one: columns that may be  *)
(* NULL, filters that may be left out.                                     *)
NoEvent == [user |-> Unset, membership |-> Unset, type |-> Unset, outcome |-> Unset,
            entityType |-> Unset, entity |-> Unset]

(* kind is the category of a product or the type of a movement; stock is   *)
(* the quantity in the store, NoStock without a row of inventory; expires  *)
(* is when an invitation does.                                             *)
Content == [name : Labels, kind : Labels \cup {Unset}, stock : Nat \cup {NoStock},
            expires : Nat, event : Events \cup {NoEvent}]
RowsWithContent == Contents \in [Lists -> SUBSET Content]

ASSUME ListingsAssumption ==
    KnownLists /\ NumbersForIds /\ TimeGoesOn /\ StoresHaveOrgs /\ RowsWithContent

VARIABLES
    list,       \* the listing that is walked
    table,      \* its table: id -> row, for the ids there are
    clock,
    walk        \* the client

listings == <<list, table, clock, walk>>

-----------------------------------------------------------------------------
(* Tables. *)

Statuses == {"OPEN", "DONE"}
Times == 0..MaxTime

(* A row of a store. *)
NewRow(s, when, c) ==
    [org |-> OrgOf[s], store |-> s, status |-> "OPEN", at |-> when, active |-> TRUE,
     name |-> c.name, kind |-> c.kind, stock |-> c.stock, expires |-> c.expires,
     event |-> c.event]

Catalogs == {"products", "categories", "catalog", "inventory"}

(* Rows an insert can make at time t; the time of a row is that of the     *)
(* beginning of its transaction.  It is left out where the order is that   *)
(* of names.                                                               *)
NewRows(t) ==
    {NewRow(s, when, c) :
        s \in Stores, c \in Contents[list],
        when \in IF list \in Catalogs \cup {"stores"} THEN {0} ELSE {t, t - 1} \cap Times}

(* Audit events and movements are append-only; everything else is closed,  *)
(* switched, renamed or restocked.                                         *)
Changed(row) ==
    CASE list \in {"audit", "movements"} -> {}
      [] list \in {"sales", "members", "invitations", "stores"} -> {[row EXCEPT !.status = "DONE"]}
      [] list \in {"products", "categories"} -> {[row EXCEPT !.active = ~@]}
                                                 \cup {[row EXCEPT !.name = n] : n \in Labels \ {row.name}}
      [] list \in {"catalog", "inventory"} -> {[row EXCEPT !.active = FALSE], [row EXCEPT !.stock = 0]}

-----------------------------------------------------------------------------
(* Queries.  A filter is Unset, or the value it asks for.  A query that is  *)
(* scoped to a store gets store and organization from the actor.           *)

Optional(filter, value) == filter = Unset \/ filter = value

(* Rows in their order, from the number of rows before each. *)
InOrder(before) ==
    [k \in 1..Cardinality(DOMAIN before) |-> CHOOSE i \in DOMAIN before : before[i] = k - 1]

Newer(a, b) == table[a].at > table[b].at \/ (table[a].at = table[b].at /\ a > b)
Newest(ids) == InOrder([i \in ids |-> Cardinality({j \in ids : Newer(j, i)})])

NamedBefore(a, b) == table[a].name < table[b].name \/ (table[a].name = table[b].name /\ a < b)
ByName(ids) == InOrder([i \in ids |-> Cardinality({j \in ids : NamedBefore(j, i)})])

ListSalesForStore(q) ==
    Newest({i \in DOMAIN table : /\ table[i].org = q.org /\ table[i].store = q.store
                                 /\ Optional(q.status, table[i].status)})
CountSalesForStore(q) ==
    Cardinality({i \in DOMAIN table : /\ table[i].org = q.org /\ table[i].store = q.store
                                      /\ Optional(q.status, table[i].status)})

ListMemberships(q) ==
    Newest({i \in DOMAIN table : /\ table[i].org = q.org
                                 /\ Optional(q.status, table[i].status)
                                 /\ Optional(q.search, table[i].name)})
CountMemberships(q) ==
    Cardinality({i \in DOMAIN table : /\ table[i].org = q.org
                                      /\ Optional(q.status, table[i].status)
                                      /\ Optional(q.search, table[i].name)})

(* A pending invitation that is over is EXPIRED although its row says      *)
(* PENDING.                                                                *)
InvitationStatus(row) ==
    IF row.status = "OPEN" /\ row.expires <= clock THEN "EXPIRED" ELSE row.status

ListInvitations(q) ==
    Newest({i \in DOMAIN table : /\ table[i].org = q.org
                                 /\ Optional(q.status, InvitationStatus(table[i]))
                                 /\ Optional(q.search, table[i].name)
                                 /\ q.from # Unset => table[i].at >= q.from
                                 /\ q.to # Unset => table[i].at < q.to})

(* Mutant: the status is compared as it is stored. *)
CountInvitationsAsStored(q) ==
    Cardinality({i \in DOMAIN table : /\ table[i].org = q.org
                                      /\ Optional(q.status, table[i].status)
                                      /\ Optional(q.search, table[i].name)
                                      /\ q.from # Unset => table[i].at >= q.from
                                      /\ q.to # Unset => table[i].at < q.to})

CountInvitations(q) ==
    Cardinality({i \in DOMAIN table : /\ table[i].org = q.org
                                      /\ Optional(q.status, InvitationStatus(table[i]))
                                      /\ Optional(q.search, table[i].name)
                                      /\ q.from # Unset => table[i].at >= q.from
                                      /\ q.to # Unset => table[i].at < q.to})

ListAuditEvents(q) ==
    Newest({i \in DOMAIN table : /\ table[i].org = q.org
                                 /\ Optional(q.store, table[i].store)
                                 /\ Optional(q.event.user, table[i].event.user)
                                 /\ Optional(q.event.membership, table[i].event.membership)
                                 /\ Optional(q.event.type, table[i].event.type)
                                 /\ Optional(q.event.outcome, table[i].event.outcome)
                                 /\ Optional(q.event.entityType, table[i].event.entityType)
                                 /\ Optional(q.event.entity, table[i].event.entity)
                                 /\ q.from # Unset => table[i].at >= q.from
                                 /\ q.to # Unset => table[i].at < q.to})
CountAuditEvents(q) ==
    Cardinality({i \in DOMAIN table : /\ table[i].org = q.org
                                      /\ Optional(q.store, table[i].store)
                                      /\ Optional(q.event.user, table[i].event.user)
                                      /\ Optional(q.event.membership, table[i].event.membership)
                                      /\ Optional(q.event.type, table[i].event.type)
                                      /\ Optional(q.event.outcome, table[i].event.outcome)
                                      /\ Optional(q.event.entityType, table[i].event.entityType)
                                      /\ Optional(q.event.entity, table[i].event.entity)
                                      /\ q.from # Unset => table[i].at >= q.from
                                      /\ q.to # Unset => table[i].at < q.to})

ListStoresForOrganization(q) ==
    ByName({i \in DOMAIN table : /\ table[i].org = q.org
                                 /\ Optional(q.status, table[i].status)
                                 /\ Optional(q.search, table[i].name)})
CountStoresForOrganization(q) ==
    Cardinality({i \in DOMAIN table : /\ table[i].org = q.org
                                      /\ Optional(q.status, table[i].status)
                                      /\ Optional(q.search, table[i].name)})

ListProductsForOrganization(q) ==
    ByName({i \in DOMAIN table : /\ table[i].org = q.org
                                 /\ Optional(q.search, table[i].name)
                                 /\ Optional(q.kind, table[i].kind)
                                 /\ q.activeOnly => table[i].active})
CountProductsForOrganization(q) ==
    Cardinality({i \in DOMAIN table : /\ table[i].org = q.org
                                      /\ Optional(q.search, table[i].name)
                                      /\ Optional(q.kind, table[i].kind)
                                      /\ q.activeOnly => table[i].active})

(* LEFT JOIN inventory, with COALESCE(quantity, 0). *)
Quantity(row, s) == IF row.store = s /\ row.stock # NoStock THEN row.stock ELSE 0

(* The inner join with stores leaves nothing for a store of another        *)
(* organization.                                                           *)
ListCatalogProductsForStore(q) ==
    ByName({i \in DOMAIN table : /\ table[i].org = q.org /\ OrgOf[q.store] = q.org
                                 /\ Optional(q.search, table[i].name)
                                 /\ Optional(q.kind, table[i].kind)
                                 /\ q.activeOnly => table[i].active
                                 /\ q.inStockOnly => Quantity(table[i], q.store) > 0})
CountCatalogProductsForStore(q) ==
    Cardinality({i \in DOMAIN table : /\ table[i].org = q.org /\ OrgOf[q.store] = q.org
                                      /\ Optional(q.search, table[i].name)
                                      /\ Optional(q.kind, table[i].kind)
                                      /\ q.activeOnly => table[i].active
                                      /\ q.inStockOnly => Quantity(table[i], q.store) > 0})

(* Mutant: the stock of all stores of the organization. *)
ListInventoryForOrganization(q) ==
    ByName({i \in DOMAIN table : /\ table[i].org = q.org /\ table[i].stock # NoStock
                                 /\ Optional(q.search, table[i].name)
                                 /\ q.activeOnly => table[i].active})

ListInventoryForStore(q) ==
    ByName({i \in DOMAIN table : /\ table[i].org = q.org /\ table[i].store = q.store
                                 /\ table[i].stock # NoStock
                                 /\ Optional(q.search, table[i].name)
                                 /\ q.activeOnly => table[i].active})
CountInventoryForStore(q) ==
    Cardinality({i \in DOMAIN table : /\ table[i].org = q.org /\ table[i].store = q.store
                                      /\ table[i].stock # NoStock
                                      /\ Optional(q.search, table[i].name)
                                      /\ q.activeOnly => table[i].active})

(* The name of a movement is the product it is about, which is required. *)
ListInventoryMovementsByProductIDForStore(q) ==
    Newest({i \in DOMAIN table : /\ table[i].org = q.org /\ table[i].store = q.store
                                 /\ table[i].name = q.search
                                 /\ Optional(q.kind, table[i].kind)})
CountInventoryMovementsByProductIDForStore(q) ==
    Cardinality({i \in DOMAIN table : /\ table[i].org = q.org /\ table[i].store = q.store
                                      /\ table[i].name = q.search
                                      /\ Optional(q.kind, table[i].kind)})

ListCategoriesForOrganization(q) ==
    ByName({i \in DOMAIN table : /\ table[i].org = q.org
                                 /\ Optional(q.search, table[i].name)
                                 /\ q.activeOnly => table[i].active})

-----------------------------------------------------------------------------
(* Pages. *)

(* A conversion to a signed integer. *)
Wrap(n) ==
    LET low == n % (2 * (MaxInt + 1))
    IN  IF low > MaxInt THEN low - 2 * (MaxInt + 1) ELSE low

(* Whether page and size are accepted.  All packages ask for page >= 1;    *)
(* audit alone also asks that the offset fits.                             *)
normalizePagination(page, size) == page >= 1 /\ size \in PageSizes

normalizeAuditPagination(page, size) ==
    /\ page >= 1 /\ size \in PageSizes
    /\ page - 1 <= MaxInt \div size

PageAccepted(l, page, size) ==
    IF l = "audit" THEN normalizeAuditPagination(page, size)
                   ELSE normalizePagination(page, size)

paginationResponse(size, total) == (total + size - 1) \div size

(* LIMIT and OFFSET; a negative offset is an error of the database, which  *)
(* answers no rows.                                                        *)
PageOf(seq, page, size) ==
    LET offset == Wrap((page - 1) * size)
    IN  IF offset < 0 THEN <<>>
        ELSE SubSeq(seq, offset + 1, IF offset + size < Len(seq) THEN offset + size ELSE Len(seq))

-----------------------------------------------------------------------------
(* The client. *)

NoFilter == [org |-> Unset, store |-> Unset, status |-> Unset, search |-> Unset,
             from |-> Unset, to |-> Unset, activeOnly |-> FALSE, inStockOnly |-> FALSE,
             kind |-> Unset, event |-> NoEvent]

(* From and to: the audit trail asks for a to that is after from. *)
Periods == {<<Unset, Unset>>, <<1, Unset>>, <<Unset, 1>>, <<0, 1>>}

(* A filter on one column of the audit trail, with a value some event has. *)
OneColumn == {[NoEvent EXCEPT ![column] = e[column]] : e \in Events, column \in DOMAIN NoEvent}

(* What an actor of store s can ask for. *)
Queries(s) ==
    LET scope == [NoFilter EXCEPT !.org = OrgOf[s], !.store = s]
        organization == [NoFilter EXCEPT !.org = OrgOf[s]]
    IN  CASE list = "sales" -> {[scope EXCEPT !.status = f] : f \in {Unset, "OPEN"}}
          [] list = "audit" -> {[organization EXCEPT !.store = t, !.from = p[1], !.to = p[2]] :
                                   t \in {Unset, s}, p \in Periods}
                               \cup {[organization EXCEPT !.event = e] : e \in OneColumn}
          [] list = "members" -> {[organization EXCEPT !.status = f, !.search = n] :
                                     f \in {Unset, "OPEN"}, n \in {Unset, 1}}
          [] list = "invitations" -> {[organization EXCEPT !.status = f, !.from = p[1], !.to = p[2]] :
                                         f \in {Unset, "OPEN", "EXPIRED"}, p \in Periods}
                                     \cup {[organization EXCEPT !.search = n] : n \in Labels}
          [] list = "stores" -> {[organization EXCEPT !.status = f, !.search = n] :
                                    f \in {Unset, "OPEN"}, n \in {Unset, 2}}
          [] list = "movements" -> {[scope EXCEPT !.search = n] : n \in Labels}
          [] list \in Catalogs -> {[scope EXCEPT !.search = n, !.activeOnly = a, !.inStockOnly = i] :
                                      n \in {Unset, 2}, a \in BOOLEAN,
                                      i \in IF list = "catalog" THEN BOOLEAN ELSE {FALSE}}
                                  \cup {[scope EXCEPT !.kind = k] :
                                          k \in IF list \in {"products", "catalog"}
                                                  THEN Labels ELSE {}}

(* The statement for the movements can also be asked for those of one      *)
(* type, which no handler does yet.                                        *)
Filters(s) ==
    Queries(s) \cup {[q EXCEPT !.kind = k] : q \in Queries(s),
                                            k \in IF list = "movements" THEN Labels ELSE {}}

NoWalk == [pc |-> "idle", q |-> NoFilter, size |-> 1, page |-> 0, total |-> 0,
           seen |-> {}, began |-> {}]

CountThenList(l, count, seq) ==
    /\ list = l
    /\ \/ /\ walk.pc = "first"
          /\ walk' = [walk EXCEPT !.pc = "second", !.total = count]
       \/ /\ walk.pc = "second"
          /\ walk' = [walk EXCEPT !.pc = "next",
                                  !.seen = @ \cup Range(PageOf(seq, walk.page, walk.size))]
    /\ UNCHANGED <<list, table, clock>>

ListThenCount(l, seq, count) ==
    /\ list = l
    /\ \/ /\ walk.pc = "first"
          /\ walk' = [walk EXCEPT !.pc = "second",
                                  !.seen = @ \cup Range(PageOf(seq, walk.page, walk.size))]
       \/ /\ walk.pc = "second"
          /\ walk' = [walk EXCEPT !.pc = "next", !.total = count]
    /\ UNCHANGED <<list, table, clock>>

SalesList == CountThenList("sales", CountSalesForStore(walk.q), ListSalesForStore(walk.q))
ProductsList == CountThenList("products", CountProductsForOrganization(walk.q),
                                          ListProductsForOrganization(walk.q))
CatalogList == CountThenList("catalog", CountCatalogProductsForStore(walk.q),
                                        ListCatalogProductsForStore(walk.q))
InventoryList == CountThenList("inventory", CountInventoryForStore(walk.q),
                                            ListInventoryForStore(walk.q))

(* The first page, whatever the client asks for. *)
ListMovements ==
    /\ walk.page = 1
    /\ CountThenList("movements", CountInventoryMovementsByProductIDForStore(walk.q),
                                  ListInventoryMovementsByProductIDForStore(walk.q))

(* One statement: all rows are on one page. *)
CategoriesList ==
    /\ list = "categories" /\ walk.pc = "first"
    /\ walk' = [walk EXCEPT !.pc = "done", !.seen = Range(ListCategoriesForOrganization(walk.q))]
    /\ UNCHANGED <<list, table, clock>>

(* Mutant: audit counts before it lists. *)
AuditCountFirst == CountThenList("audit", CountAuditEvents(walk.q), ListAuditEvents(walk.q))

AuditList == ListThenCount("audit", ListAuditEvents(walk.q), CountAuditEvents(walk.q))
MembershipsList == ListThenCount("members", ListMemberships(walk.q), CountMemberships(walk.q))
InvitationsList == ListThenCount("invitations", ListInvitations(walk.q), CountInvitations(walk.q))
StoresList == ListThenCount("stores", ListStoresForOrganization(walk.q),
                                      CountStoresForOrganization(walk.q))

RowsOf(q) ==
    CASE list = "sales" -> ListSalesForStore(q)
      [] list = "members" -> ListMemberships(q)
      [] list = "invitations" -> ListInvitations(q)
      [] list = "audit" -> ListAuditEvents(q)
      [] list = "stores" -> ListStoresForOrganization(q)
      [] list = "products" -> ListProductsForOrganization(q)
      [] list = "catalog" -> ListCatalogProductsForStore(q)
      [] list = "inventory" -> ListInventoryForStore(q)
      [] list = "movements" -> ListInventoryMovementsByProductIDForStore(q)
      [] list = "categories" -> ListCategoriesForOrganization(q)

TotalOf(q) ==
    CASE list = "sales" -> CountSalesForStore(q)
      [] list = "members" -> CountMemberships(q)
      [] list = "invitations" -> CountInvitations(q)
      [] list = "audit" -> CountAuditEvents(q)
      [] list = "stores" -> CountStoresForOrganization(q)
      [] list = "products" -> CountProductsForOrganization(q)
      [] list = "catalog" -> CountCatalogProductsForStore(q)
      [] list = "inventory" -> CountInventoryForStore(q)
      [] list = "movements" -> CountInventoryMovementsByProductIDForStore(q)
      [] list = "categories" -> Len(ListCategoriesForOrganization(q))

Open(s, q, size) ==
    /\ walk.pc = "idle"
    /\ walk' = [NoWalk EXCEPT !.pc = "first", !.q = q, !.size = size, !.page = 1,
                              !.began = Range(RowsOf(q))]
    /\ UNCHANGED <<list, table, clock>>

(* The answer says how many pages there are; of movements no client can    *)
(* get the second.  A page that is not accepted ends the walk.             *)
Turn ==
    /\ walk.pc = "next"
    /\ walk' = IF list = "movements" \/ walk.page >= paginationResponse(walk.size, walk.total)
               THEN [walk EXCEPT !.pc = "done"]
               ELSE IF PageAccepted(list, walk.page + 1, walk.size)
                    THEN [walk EXCEPT !.pc = "first", !.page = @ + 1]
                    ELSE [walk EXCEPT !.pc = "refused"]
    /\ UNCHANGED <<list, table, clock>>

(* Other requests. *)
Insert(i, row) ==
    /\ i \notin DOMAIN table
    /\ table' = [j \in DOMAIN table \cup {i} |-> IF j = i THEN row ELSE table[j]]
    /\ UNCHANGED <<list, clock, walk>>

Change(i, row) ==
    /\ table' = [table EXCEPT ![i] = row]
    /\ UNCHANGED <<list, clock, walk>>

Tick ==
    /\ clock < MaxTime
    /\ clock' = clock + 1
    /\ UNCHANGED <<list, table, walk>>

ListingsInit ==
    /\ list \in Lists
    /\ table = [i \in {} |-> Unset]
    /\ clock = 0
    /\ walk = NoWalk

ListingsNext ==
    \/ \E s \in Stores, size \in PageSizes : \E q \in Queries(s) : Open(s, q, size)
    \/ SalesList
    \/ ProductsList
    \/ CatalogList
    \/ InventoryList
    \/ ListMovements
    \/ CategoriesList
    \/ AuditList
    \/ MembershipsList
    \/ InvitationsList
    \/ StoresList
    \/ Turn
    \/ \E i \in Ids, row \in NewRows(clock) : Insert(i, row)
    \/ \E i \in DOMAIN table : \E row \in Changed(table[i]) : Change(i, row)
    \/ Tick

ListingsSpec == ListingsInit /\ [][ListingsNext]_listings

-----------------------------------------------------------------------------
(* Properties. *)

(* Whatever is listed belongs to the organization of the actor, and to the *)
(* store where the listing is one of a store.                              *)
OwnTenantOnly ==
    \A i \in walk.seen :
        /\ table[i].org = walk.q.org
        /\ list \in {"sales", "inventory", "movements"} => table[i].store = walk.q.store

(* A client that reads the audit trail page by page until the last has     *)
(* read every event that was there when it began, although new events push *)
(* the old ones to later pages as it reads.  So it is with the unfiltered  *)
(* memberships and invitations.                                            *)
NothingMissed ==
    /\ walk.pc = "done"
    /\ list \in {"audit", "members", "invitations"}
    /\ list = "audit" \/ walk.q = [NoFilter EXCEPT !.org = walk.q.org]
    => walk.began \subseteq walk.seen

(* Pages a client can ask for, up to twice what an offset can be. *)
Pages == 1..4 * (MaxInt + 1)

(* The total is the number of rows on all pages together, whatever filters *)
(* the two texts, the count and the select, are given.  Every page that the audit listing accepts has the rows  *)
(* of that page and none beyond the last: "page is too large" refuses an   *)
(* offset that would wrap around.                                          *)
TotalIsComplete ==
    \A s \in Stores :
        /\ \A q \in Filters(s) : TotalOf(q) = Len(RowsOf(q))
        /\ list = "audit" =>
              LET q == [NoFilter EXCEPT !.org = OrgOf[s]]
              IN  \A page \in Pages, size \in PageSizes :
                     PageAccepted(list, page, size) =>
                         \A i \in DOMAIN PageOf(RowsOf(q), page, size) :
                             (page - 1) * size + i <= TotalOf(q)
=============================================================================
