----------------------------- MODULE Catalogue -----------------------------
(***************************************************************************)
(* The products and categories of organizations (internal/products,        *)
(* internal/categories).                                                   *)
(*                                                                         *)
(* Their handlers run without a transaction: each statement commits by     *)
(* itself, so whatever a handler looked up may have changed when it        *)
(* writes.  The lookups only make better messages; uniqueness and tenancy  *)
(* rest on the indexes, the foreign key and the WHERE clauses.             *)
(*                                                                         *)
(* Product names, prices and costs are left out: no rule is about them     *)
(* (amounts are in Decimals).                                              *)
(***************************************************************************)
EXTENDS Integers, Sequences, SequencesExt

CONSTANTS
    Requests,
    Orgs,           \* organizations
    ProductIds,       \* ids of products
    Categories,     \* ids of categories
    Skus,
    Barcodes,
    Names,          \* names of categories, as sequences of characters
    Ops,            \* handlers that are called
    None

NoneIsNothing == None \notin Orgs \cup ProductIds \cup Categories \cup Skus \cup Barcodes
NamesAreTexts == \A name \in Names : name # <<>>

ASSUME CatalogueAssumption == NoneIsNothing /\ NamesAreTexts

VARIABLES
    products,        \* rows of products
    category,       \* rows of categories
    req             \* what each request is at, and its answer

catalogue == <<products, category, req>>

-----------------------------------------------------------------------------
(* Rows. *)

(* Of the characters a name can have, these are letters; "A" is the        *)
(* capital of "a".                                                         *)
Letters == {"a", "b"}
ToLower(c) == IF c = "A" THEN "a" ELSE c

TrimDashes(s) ==
    LET kept == {i \in DOMAIN s : s[i] # "-"}
    IN  IF kept = {} THEN <<>>
        ELSE SubSeq(s, CHOOSE i \in kept : \A j \in kept : i <= j,
                       CHOOSE i \in kept : \A j \in kept : i >= j)

(* Letters stay, every run of other characters becomes one dash. *)
slugify(name) ==
    TrimDashes(FoldLeft(LAMBDA slug, c :
        CASE ToLower(c) \in Letters -> Append(slug, ToLower(c))
          [] ToLower(c) \notin Letters /\ slug # <<>> /\ Last(slug) = "-" -> slug
          [] OTHER -> Append(slug, "-"), <<>>, name))

NoProduct == [org |-> None, sku |-> None, barcode |-> None, category |-> None, active |-> FALSE]
NoCategory == [org |-> None, name |-> <<>>, slug |-> <<>>, active |-> FALSE]

(* What a handler was asked: id is the row that is made or changed, read   *)
(* the row read first; canonical says whether the id in the path is        *)
(* written the way UUID.String writes it.                                  *)
ProductRequest(op, pc, o, id, sku, barcode, cat, read) ==
    [op |-> op, pc |-> pc, org |-> o, id |-> id, canonical |-> TRUE, sku |-> sku,
     barcode |-> barcode, category |-> cat, name |-> <<>>, read |-> read, answer |-> "none"]

CategoryRequest(op, pc, o, id, canonical, name) ==
    [op |-> op, pc |-> pc, org |-> o, id |-> id, canonical |-> canonical, sku |-> None,
     barcode |-> None, category |-> None, name |-> name, read |-> NoProduct, answer |-> "none"]

Idle ==
    [op |-> "none", pc |-> "idle", org |-> None, id |-> None, canonical |-> TRUE, sku |-> None,
     barcode |-> None, category |-> None, name |-> <<>>, read |-> NoProduct, answer |-> "none"]

At(r, op, pc) == req[r].op = op /\ req[r].pc = pc

Goto(r, pc) == req' = [req EXCEPT ![r].pc = pc]

Answer(r, answer) == req' = [req EXCEPT ![r] = [Idle EXCEPT !.answer = answer]]

Begin(r, request) ==
    /\ req[r].pc = "idle"
    /\ request.op \in Ops
    /\ req' = [req EXCEPT ![r] = request]
    /\ UNCHANGED <<products, category>>

-----------------------------------------------------------------------------
(* Queries of products. *)

GetProductByIDForOrganization(o, id) == {p \in ProductIds : p = id /\ products[p].org = o}
GetProductBySKUForOrganization(o, sku) ==
    {p \in ProductIds : products[p].org = o /\ products[p].sku = sku}
GetProductByBarcodeForOrganization(o, barcode) ==
    {p \in ProductIds : products[p].org = o /\ products[p].barcode = barcode /\ barcode # None}

(* Constraints that refuse a row. *)
Violated(o, id, sku, barcode, cat) ==
    (IF GetProductBySKUForOrganization(o, sku) \ {id} # {} THEN {"sku_unique"} ELSE {})
    \cup (IF GetProductByBarcodeForOrganization(o, barcode) \ {id} # {}
          THEN {"barcode_unique"} ELSE {})
    \cup (IF cat # None /\ category[cat].org # o THEN {"category_fkey"} ELSE {})

(* Mutant: the name of the constraint on barcodes is not known. *)
translateOnlySKU(constraint) == IF constraint = "sku_unique" THEN "conflict" ELSE "failed"

translatePersistenceError(constraint) ==
    IF constraint \in {"sku_unique", "barcode_unique"} THEN "conflict" ELSE "failed"

CreateProductForOrganization(o, id, sku, barcode, cat) ==
    products' = [products EXCEPT ![id] =
        [org |-> o, sku |-> sku, barcode |-> barcode, category |-> cat, active |-> TRUE]]

(* is_active is not written. *)
UpdateProductForOrganization(o, id, sku, barcode, cat) ==
    products' = [products EXCEPT ![id].sku = sku, ![id].barcode = barcode, ![id].category = cat]

(* Mutant: the row that was read is written back. *)
ActivateProductAsRead(id, read) == products' = [products EXCEPT ![id] = [read EXCEPT !.active = TRUE]]

ActivateProductForOrganization(id, read) == products' = [products EXCEPT ![id].active = TRUE]
DeactivateProductForOrganization(id, read) == products' = [products EXCEPT ![id].active = FALSE]

-----------------------------------------------------------------------------
(* internal/products/service_commands.go *)

(* Create always looks for the barcode, Update when it is another one. *)
AfterSKU(barcode, read) ==
    IF barcode # None /\ barcode # read.barcode THEN "barcode" ELSE "write"

(* The id of the new row is one that no row and no request has. *)
NewIds(ids, rows, none) ==
    {id \in ids : rows[id] = none /\ \A r \in Requests : req[r].pc = "idle" \/ req[r].id # id}

CreateProduct(r, o, id, sku, barcode, cat) ==
    /\ id \in NewIds(ProductIds, products, NoProduct)
    /\ Begin(r, ProductRequest("create", "sku", o, id, sku, barcode, cat, NoProduct))

(* With the read of the current row; without one, ErrProductNotFound. *)
UpdateProduct(r, o, id, sku, barcode, cat) ==
    LET read == [NoProduct EXCEPT !.barcode = products[id].barcode]
        pc == IF sku # products[id].sku THEN "sku" ELSE AfterSKU(barcode, read)
    IN  /\ GetProductByIDForOrganization(o, id) # {}
        /\ Begin(r, ProductRequest("update", pc, o, id, sku, barcode, cat, read))

ensureSKUAvailable(r) ==
    /\ req[r].op \in {"create", "update"} /\ req[r].pc = "sku"
    /\ IF GetProductBySKUForOrganization(req[r].org, req[r].sku) \ {req[r].id} # {}
       THEN Answer(r, "conflict")
       ELSE Goto(r, AfterSKU(req[r].barcode, req[r].read))
    /\ UNCHANGED <<products, category>>

ensureBarcodeAvailable(r) ==
    /\ req[r].op \in {"create", "update"} /\ req[r].pc = "barcode"
    /\ IF GetProductByBarcodeForOrganization(req[r].org, req[r].barcode) \ {req[r].id} # {}
       THEN Answer(r, "conflict")
       ELSE Goto(r, "write")
    /\ UNCHANGED <<products, category>>

WriteProduct(r) ==
    LET q == req[r]
        violated == Violated(q.org, q.id, q.sku, q.barcode, q.category)
    IN  /\ q.op \in {"create", "update"} /\ q.pc = "write"
        /\ \/ \E c \in violated : /\ Answer(r, translatePersistenceError(c))
                                  /\ UNCHANGED products
           \/ /\ violated = {} /\ q.op = "create"
              /\ CreateProductForOrganization(q.org, q.id, q.sku, q.barcode, q.category)
              /\ Answer(r, "ok")
           \/ /\ violated = {} /\ q.op = "update"
              /\ UpdateProductForOrganization(q.org, q.id, q.sku, q.barcode, q.category)
              /\ Answer(r, "ok")
        /\ UNCHANGED category

(* With the read of the current row: without one, ErrProductNotFound, and  *)
(* there is nothing to do if it already is what is asked for.              *)
SwitchProduct(r, o, id, op) ==
    /\ GetProductByIDForOrganization(o, id) # {}
    /\ products[id].active # (op = "activate")
    /\ Begin(r, ProductRequest(op, "write", o, id, None, None, None, products[id]))

Activate(r) ==
    /\ At(r, "activate", "write")
    /\ ActivateProductForOrganization(req[r].id, req[r].read)
    /\ Answer(r, "ok")
    /\ UNCHANGED category

Deactivate(r) ==
    /\ At(r, "deactivate", "write")
    /\ DeactivateProductForOrganization(req[r].id, req[r].read)
    /\ Answer(r, "ok")
    /\ UNCHANGED category

-----------------------------------------------------------------------------
(* internal/categories/service_commands.go *)

GetCategoryByNameForOrganization(o, name) ==
    {c \in Categories : category[c].org = o /\ category[c].name = name}
GetCategoryBySlugForOrganization(o, slug) ==
    {c \in Categories : category[c].org = o /\ category[c].slug = slug}

CategoryViolated(o, id, name) ==
    (IF GetCategoryByNameForOrganization(o, name) \ {id} # {} THEN {"name_unique"} ELSE {})
    \cup (IF GetCategoryBySlugForOrganization(o, slugify(name)) \ {id} # {}
          THEN {"slug_unique"} ELSE {})
    \cup (IF slugify(name) = <<>> THEN {"slug_not_blank"} ELSE {})

translateCategoryError(constraint) ==
    IF constraint \in {"name_unique", "slug_unique"} THEN "conflict" ELSE "failed"

(* The row itself is in nobody's way, but only if the id is recognized. *)
Others(r, found) ==
    IF req[r].op = "recategorize" /\ req[r].canonical THEN found \ {req[r].id} ELSE found

CreateCategory(r, o, id, name) ==
    /\ id \in NewIds(Categories, category, NoCategory)
    /\ Begin(r, CategoryRequest("categorize", "name", o, id, TRUE, name))

UpdateCategory(r, o, id, canonical, name) ==
    Begin(r, CategoryRequest("recategorize", "name", o, id, canonical, name))

ensureNameAvailable(r) ==
    /\ req[r].pc = "name"
    /\ IF Others(r, GetCategoryByNameForOrganization(req[r].org, req[r].name)) # {}
       THEN Answer(r, "conflict")
       ELSE Goto(r, "slug")
    /\ UNCHANGED <<products, category>>

ensureSlugAvailable(r) ==
    /\ req[r].pc = "slug"
    /\ IF Others(r, GetCategoryBySlugForOrganization(req[r].org, slugify(req[r].name))) # {}
       THEN Answer(r, "conflict")
       ELSE Goto(r, "write")
    /\ UNCHANGED <<products, category>>

CreateCategoryForOrganization(r) ==
    LET q == req[r]
        violated == CategoryViolated(q.org, q.id, q.name)
    IN  /\ At(r, "categorize", "write")
        /\ \/ \E c \in violated : /\ Answer(r, translateCategoryError(c))
                                  /\ UNCHANGED category
           \/ /\ violated = {}
              /\ category' = [category EXCEPT ![q.id] =
                    [org |-> q.org, name |-> q.name, slug |-> slugify(q.name), active |-> TRUE]]
              /\ Answer(r, "ok")
        /\ UNCHANGED products

(* Mutant: the row is found by its id alone. *)
UpdateCategoryByID(r) ==
    LET q == req[r]
        violated == CategoryViolated(q.org, q.id, q.name)
    IN  /\ At(r, "recategorize", "write")
        /\ violated = {} /\ category[q.id] # NoCategory
        /\ category' = [category EXCEPT ![q.id].name = q.name, ![q.id].slug = slugify(q.name)]
        /\ Answer(r, "ok")
        /\ UNCHANGED products

(* No row has the id in the organization: ErrCategoryNotFound. *)
UpdateCategoryForOrganization(r) ==
    LET q == req[r]
        violated == CategoryViolated(q.org, q.id, q.name)
        mine == category[q.id].org = q.org
    IN  /\ At(r, "recategorize", "write")
        /\ \/ ~mine /\ Answer(r, "notfound") /\ UNCHANGED category
           \/ mine /\ \E c \in violated : /\ Answer(r, translateCategoryError(c))
                                          /\ UNCHANGED category
           \/ /\ mine /\ violated = {}
              /\ category' = [category EXCEPT ![q.id].name = q.name,
                                              ![q.id].slug = slugify(q.name)]
              /\ Answer(r, "ok")
        /\ UNCHANGED products

SetActive(r, o, id, op) ==
    Begin(r, CategoryRequest(op, "write", o, id, TRUE, <<>>))

ActivateCategoryForOrganization(r) ==
    /\ At(r, "open", "write")
    /\ \/ /\ category[req[r].id].org = req[r].org
          /\ category' = [category EXCEPT ![req[r].id].active = TRUE]
          /\ Answer(r, "ok")
       \/ category[req[r].id].org # req[r].org /\ Answer(r, "notfound") /\ UNCHANGED category
    /\ UNCHANGED products

DeactivateCategoryForOrganization(r) ==
    /\ At(r, "close", "write")
    /\ \/ /\ category[req[r].id].org = req[r].org
          /\ category' = [category EXCEPT ![req[r].id].active = FALSE]
          /\ Answer(r, "ok")
       \/ category[req[r].id].org # req[r].org /\ Answer(r, "notfound") /\ UNCHANGED category
    /\ UNCHANGED products

-----------------------------------------------------------------------------

Call(r) ==
    \E o \in Orgs :
        \/ \E id \in ProductIds, sku \in Skus, barcode \in Barcodes \cup {None},
              cat \in Categories \cup {None} :
              \/ CreateProduct(r, o, id, sku, barcode, cat)
              \/ UpdateProduct(r, o, id, sku, barcode, cat)
        \/ \E id \in ProductIds, op \in {"activate", "deactivate"} : SwitchProduct(r, o, id, op)
        \/ \E id \in Categories, name \in Names :
              \/ CreateCategory(r, o, id, name)
              \/ \E canonical \in BOOLEAN : UpdateCategory(r, o, id, canonical, name)
        \/ \E id \in Categories, op \in {"open", "close"} : SetActive(r, o, id, op)

Step(r) ==
    \/ ensureSKUAvailable(r)
    \/ ensureBarcodeAvailable(r)
    \/ WriteProduct(r)
    \/ Activate(r)
    \/ Deactivate(r)
    \/ ensureNameAvailable(r)
    \/ ensureSlugAvailable(r)
    \/ CreateCategoryForOrganization(r)
    \/ UpdateCategoryForOrganization(r)
    \/ ActivateCategoryForOrganization(r)
    \/ DeactivateCategoryForOrganization(r)

(* Some categories may be there already. *)
CatalogueInit ==
    /\ products = [p \in ProductIds |-> NoProduct]
    /\ category \in [Categories -> {NoCategory} \cup
          {[org |-> o, name |-> name, slug |-> slugify(name), active |-> TRUE] :
              o \in Orgs, name \in {n \in Names : slugify(n) # <<>>}}]
    /\ \A c, d \in Categories : c # d /\ category[c].org = category[d].org =>
          category[c] = NoCategory \/ category[c].slug # category[d].slug
    /\ req = [r \in Requests |-> Idle]

CatalogueNext == \E r \in Requests : Call(r) \/ Step(r)

CatalogueSpec == CatalogueInit /\ [][CatalogueNext]_catalogue

-----------------------------------------------------------------------------
(* Properties. *)

(* A category that is not the organization's, or a name without letters.   *)
Hopeless(r) ==
    \/ req[r].category # None /\ category[req[r].category].org # req[r].org
    \/ req[r].name # <<>> /\ slugify(req[r].name) = <<>>

(* ErrSKUAlreadyExists, ErrBarcodeAlreadyExists and the two of categories: *)
(* who loses a race is told what is taken.  Only what is hopeless fails as *)
(* an internal error.                                                      *)
RaceAnswered ==
    \A r \in Requests : req[r].pc # "idle" /\ req'[r].answer = "failed" => Hopeless(r)

RacesAnswered == [][RaceAnswered]_catalogue

(* Switching a product on or off between the read and the write of an edit *)
(* survives the edit, and an edit survives a switch that read before it.   *)
SwitchKeeps ==
    \A p \in ProductIds :
        products[p] # NoProduct /\ products'[p].active # products[p].active =>
            products'[p] = [products[p] EXCEPT !.active = ~@]

SwitchKeepsEdits == [][SwitchKeeps]_catalogue

(* A request changes rows of its own organization only, and a product has  *)
(* an "Optional category from the same organization."                      *)
OwnRows ==
    /\ \A r \in Requests : req'[r] # req[r] =>
          /\ \A p \in ProductIds : products'[p] # products[p] =>
                products[p].org \in {None, req[r].org} /\ products'[p].org = req[r].org
          /\ \A c \in Categories : category'[c] # category[c] =>
                category[c].org \in {None, req[r].org} /\ category'[c].org = req[r].org
    /\ \A p \in ProductIds : products'[p].category # None =>
          category'[products'[p].category].org = products'[p].org

OwnRowsOnly == [][OwnRows]_catalogue
=============================================================================
