------------------------------ MODULE Workspace ------------------------------
(***************************************************************************)
(* The items an account keeps on the server.  A handler awaits the body    *)
(* of a POST or PUT between what it reads before and what it does after;   *)
(* other handlers run meanwhile.  The rest of each handler is one step.    *)
(*                                                                         *)
(* Who is signed in comes from Accounts and is only asked before the body. *)
(* A payload is the type whose validation it has passed.                   *)
(***************************************************************************)
EXTENDS ServerProcess, FiniteSets

CONSTANTS
  ItemIds, Types,
  MaxItems   \* items of one account (1000 in the code)

ASSUME WorkspaceAssumption ==
  /\ IsFiniteSet(ItemIds)
  /\ MaxItems \in Nat
  /\ None \notin ItemIds /\ None \notin Types

VARIABLES
  items,   \* table items: id -> row
  drawn,   \* ids that randomUUID has given
  itemPc, itemCtx  \* where each request is, and the rows it read before its body

itemVars == <<items, drawn, itemPc, itemCtx>>

ItemRow == [user : Users \cup {None}, type : Types \cup {None}, payload : Types \cup {None}]
NoItem == [user |-> None, type |-> None, payload |-> None]
NoItemCtx == [user |-> None, id |-> None, type |-> None]

Owned(user) == {id \in ItemIds : items[id].user = user}

ItemsInit ==
  /\ items = [id \in ItemIds |-> NoItem]
  /\ drawn = {}
  /\ itemPc = [r \in Requests |-> "idle"]
  /\ itemCtx = [r \in Requests |-> NoItemCtx]

ItemAnswered(r) ==
  /\ itemPc' = [itemPc EXCEPT ![r] = "idle"]
  /\ itemCtx' = [itemCtx EXCEPT ![r] = NoItemCtx]

-----------------------------------------------------------------------------
(* POST items, up to its body.                                             *)
BeginPostItem(r, user) ==
  /\ itemPc[r] = "idle"
  /\ itemPc' = [itemPc EXCEPT ![r] = "post"]
  /\ itemCtx' = [itemCtx EXCEPT ![r] = [NoItemCtx EXCEPT !.user = user]]
  /\ UNCHANGED <<items, drawn>>

(* PUT items/id: the row is read, then the body is awaited.                *)
BeginPutItem(r, user, id) ==
  /\ itemPc[r] = "idle"
  /\ id \in Owned(user)
  /\ itemPc' = [itemPc EXCEPT ![r] = "put"]
  /\ itemCtx' = [itemCtx EXCEPT ![r] = [user |-> user, id |-> id, type |-> items[id].type]]
  /\ UNCHANGED <<items, drawn>>

(* The body is too large, not JSON, cut, or no valid item.                 *)
RejectItem(r) ==
  /\ itemPc[r] # "idle"
  /\ ItemAnswered(r)
  /\ UNCHANGED <<items, drawn>>

(* Mutant of HasRoom: one item more than the limit.                        *)
HasRoomForOneMore(user) == Cardinality(Owned(user)) <= MaxItems

HasRoom(user) == Cardinality(Owned(user)) < MaxItems

(* Counted and inserted after the body, with nothing in between.           *)
PostItem(r, type, id) ==
  /\ itemPc[r] = "post"
  /\ IF HasRoom(itemCtx[r].user)
       THEN /\ id \notin drawn /\ drawn' = drawn \cup {id}
            /\ items' = [items EXCEPT ![id] =
                           [user |-> itemCtx[r].user, type |-> type, payload |-> type]]
       ELSE UNCHANGED <<items, drawn>>
  /\ ItemAnswered(r)

(* Mutant of PutItem: the payload is validated as the client says.         *)
PutItemAsSent(r, type) ==
  /\ itemPc[r] = "put"
  /\ items' = [id \in ItemIds |->
                 IF id = itemCtx[r].id /\ items[id].user = itemCtx[r].user
                   THEN [items[id] EXCEPT !.payload = type] ELSE items[id]]
  /\ ItemAnswered(r)
  /\ UNCHANGED drawn

(* Mutant of PutItem: INSERT OR REPLACE of the row that was read.          *)
PutItemReplacing(r, type) ==
  /\ itemPc[r] = "put"
  /\ type = itemCtx[r].type
  /\ items' = [items EXCEPT ![itemCtx[r].id] =
                 [user |-> itemCtx[r].user, type |-> itemCtx[r].type, payload |-> type]]
  /\ ItemAnswered(r)
  /\ UNCHANGED drawn

(* UPDATE ... WHERE id=? AND user_id=?: it may find no row any more, and   *)
(* answers as if it had.  The body is a valid item of the row's type.      *)
PutItem(r, type) ==
  /\ itemPc[r] = "put"
  /\ type = itemCtx[r].type
  /\ items' = [id \in ItemIds |->
                 IF id = itemCtx[r].id /\ items[id].user = itemCtx[r].user
                   THEN [items[id] EXCEPT !.payload = type] ELSE items[id]]
  /\ ItemAnswered(r)
  /\ UNCHANGED drawn

(* DELETE items/id has no body and is one step.                            *)
DeleteItem(user, id) ==
  /\ id \in Owned(user)
  /\ items' = [items EXCEPT ![id] = NoItem]
  /\ UNCHANGED <<drawn, itemPc, itemCtx>>

(* The process is killed: the requests are gone, the table stays.          *)
ItemsRestart ==
  /\ itemPc' = [r \in Requests |-> "idle"]
  /\ itemCtx' = [r \in Requests |-> NoItemCtx]
  /\ UNCHANGED <<items, drawn>>

ItemsNext ==
  \/ \E r \in Requests :
       \/ \E user \in Users : BeginPostItem(r, user) \/ \E id \in ItemIds : BeginPutItem(r, user, id)
       \/ RejectItem(r)
       \/ \E type \in Types : PutItem(r, type) \/ \E id \in ItemIds : PostItem(r, type, id)
  \/ \E user \in Users, id \in ItemIds : DeleteItem(user, id)
  \/ ItemsRestart

ItemsSpec == ItemsInit /\ [][ItemsNext]_itemVars

-----------------------------------------------------------------------------
ItemsTypeOK ==
  /\ items \in [ItemIds -> ItemRow]
  /\ drawn \subseteq ItemIds
  /\ itemPc \in [Requests -> {"idle", "post", "put"}]
  /\ itemCtx \in [Requests -> [user : Users \cup {None}, id : ItemIds \cup {None},
                           type : Types \cup {None}]]

(* Overlapping POSTs of one account cannot pass its limit together.        *)
ItemLimit == \A user \in Users : Cardinality(Owned(user)) <= MaxItems

(* An item's payload is one of its own type, though the type a PUT         *)
(* validates by was read before its body: allItems puts the rows under     *)
(* their type and the page takes their fields for granted.                 *)
PayloadFitsType == \A id \in ItemIds : items[id].payload = items[id].type

(* An item that was deleted stays deleted, whatever a PUT in flight had    *)
(* read, and no item changes its owner.                                    *)
DeletedForGood ==
  [][\A id \in drawn : items'[id].user \in {items[id].user, None}]_itemVars
=============================================================================
