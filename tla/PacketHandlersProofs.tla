------------------------ MODULE PacketHandlersProofs ------------------------
(***************************************************************************)
(* Proofs about PacketHandlers, for any sessions, connections of the pool, *)
(* texts, logins elsewhere and sizes of chunks.  First its database side:  *)
(* what a statement handle is left with, and what the table counts.  Then  *)
(* its bytes: what the makers leave in a chunk, what the structs of the    *)
(* other program find in a packet, and what chunks are used again for.     *)
(***************************************************************************)
EXTENDS PacketHandlers, SequenceTheorems, FiniteSetTheorems, TLAPS

InLogin == pc \in {"login.bind", "login.insert"}
InChat == pc \in {"chat.bind", "chat.select", "chat.fetch", "chat.update", "chat.insert"}
HasConn == pc \in {"login.insert", "chat.select", "chat.fetch", "chat.update",
                  "chat.insert"}

DbTypes ==
    /\ idGenerator \in Nat \ {0} /\ nextRow \in Nat \ {0} /\ count \in Int
    /\ player \in [Sessions -> Nat] /\ said \in [Sessions -> Nat]
    /\ DOMAIN stmt = Connections /\ dbPool \subseteq Connections
    /\ HasConn => dbConn \in Connections
    /\ InLogin \/ InChat => at \in Sessions
    /\ InChat => player[at] # 0

\* Players differ, and no row has an id that was not given out.
PlayersInv ==
    /\ \A s \in Sessions : player[s] < idGenerator
    /\ \A r, s \in Sessions : player[r] = player[s] => r = s \/ player[s] = 0
    /\ nextRow <= idGenerator
    /\ InLogin => nextRow < idGenerator

\* Of the ids, those drawn are ahead of the rows by the logins under way, here and
\* elsewhere, and the rows end with INT_MAX: no two ids are the same int32.
IdsInv ==
    /\ nextRow <= INT_MAX + 1
    /\ idGenerator <= nextRow + (IF others THEN INT_MAX ELSE 0)
                             + (IF InLogin THEN 1 ELSE 0)
    /\ pc = "start" => nextRow = 1

\* A row counts what the player said; who has none, or one never written, said nothing.
RowsInv ==
    /\ DOMAIN rows \subseteq 1 .. nextRow - 1
    /\ \A s \in Sessions :
           IF player[s] \in DOMAIN rows THEN rows[player[s]] = ToInt(said[s])
           ELSE said[s] = 0
    /\ pc = "start" => rows = <<>>

\* What the handler has bound, at each of its statements.
ToInsert == BindParam(NewStatement, 1, Local("count"))
ToSelect == BindCol(BindParam(NewStatement, 1, Local("targetId")), 1, Local("count"))
ToUpdate == BindParam(BindParam(NewStatement, 1, Local("count")), 2, Local("targetId"))

StatementInv ==
    /\ pc = "login.insert" => stmt[dbConn] = ToInsert /\ count = 0
    /\ pc = "chat.select" => stmt[dbConn] = ToSelect
    /\ pc = "chat.fetch" => stmt[dbConn] = Select(ToSelect, Row(targetId))
    /\ pc \in {"chat.update", "chat.insert"} => stmt[dbConn] = ToUpdate
    /\ InChat /\ pc # "chat.bind" => targetId = ToInt(player[at])
    /\ pc = "chat.update" => targetId = player[at] /\ targetId < nextRow
                             /\ count = ToInt(said[at] + 1)

IInv == DbTypes /\ PlayersInv /\ IdsInv /\ RowsInv /\ StatementInv /\ StatementsAccepted

-----------------------------------------------------------------------------

(***************************************************************************)
(* What an int32 holds.                                                    *)
(***************************************************************************)
LEMMA DivMod ==
    ASSUME NEW m \in Nat \ {0}, NEW x \in Int
    PROVE  /\ x % m \in 0 .. m - 1 /\ x \div m \in Int
           /\ x = m * (x \div m) + (x % m)
OBVIOUS

\* The remainder is determined by what is left of a multiple.
LEMMA Remainder ==
    ASSUME NEW m \in Nat \ {0}, NEW x \in Int, NEW k \in Int, NEW r \in 0 .. m - 1,
           x = m * k + r
    PROVE  x % m = r
<1>. DEFINE d == (x \div m) - k
<1>1. /\ x % m \in 0 .. m - 1 /\ x \div m \in Int
      /\ x = m * (x \div m) + (x % m)
  BY DivMod
<1>2. m * d = r - (x % m) /\ d \in Int
  BY <1>1
<1>. HIDE DEF d
<1>3. ASSUME d >= 1 PROVE FALSE
  <2>1. m * d >= m
    BY <1>2, <1>3
  <2>. QED  BY <2>1, <1>1, <1>2
<1>4. ASSUME d <= -1 PROVE FALSE
  <2>1. m * d <= -m
    BY <1>2, <1>4
  <2>. QED  BY <2>1, <1>1, <1>2
<1>5. d = 0
  BY <1>2, <1>3, <1>4
<1>. QED  BY <1>1, <1>2, <1>5

LEMMA IntWidthIs ==
    INT_MAX \in Nat \ {0} /\ IntWidth \in Nat \ {0} /\ IntWidth = 2 * INT_MAX + 2
<1>1. INT_MAX \in Nat \ {0}
  BY SMT, IntAssumption
<1>2. IntWidth = 2 * (INT_MAX + 1)
  BY DEF IntWidth
<1>. QED  BY <1>1, <1>2, SMT

\* An int32 that counts on from what it holds of v holds what it would of v + 1.
LEMMA CountsOn ==
    ASSUME NEW v \in Nat
    PROVE  ToInt(v) \in Int /\ ToInt(ToInt(v) + 1) = ToInt(v + 1)
<1>1. PICK a \in 0 .. IntWidth - 1, q \in Int : v % IntWidth = a /\ v = IntWidth * q + a
  <2>. DEFINE w == IntWidth
  <2>1. w \in Nat \ {0} /\ v \in Int
    BY IntWidthIs
  <2>. HIDE DEF w
  <2>2. v % w \in 0 .. w - 1 /\ v \div w \in Int /\ v = w * (v \div w) + (v % w)
    BY <2>1, DivMod
  <2>. QED  BY <2>2 DEF w
<1>2. PICK e \in {0, 1} : ToInt(v) = a - IntWidth * e
  BY <1>1, IntWidthIs DEF ToInt
<1>3. ASSUME NEW k \in Int, NEW x \in Int, x = IntWidth * k + a + 1
      PROVE  x % IntWidth = IF a + 1 = IntWidth THEN 0 ELSE a + 1
  <2>1. CASE a + 1 = IntWidth
    <3>1. x = IntWidth * (k + 1) + 0 /\ k + 1 \in Int /\ 0 \in 0 .. IntWidth - 1
      BY <1>1, <1>3, <2>1, IntWidthIs
    <3>. QED  BY <3>1, <2>1, <1>3, IntWidthIs, Remainder
  <2>2. CASE a + 1 # IntWidth
    <3>1. x = IntWidth * k + (a + 1) /\ a + 1 \in 0 .. IntWidth - 1
      BY <1>1, <1>3, <2>2, IntWidthIs
    <3>. QED  BY <3>1, <2>2, <1>3, IntWidthIs, Remainder
  <2>. QED  BY <2>1, <2>2
<1>4. (v + 1) % IntWidth = (ToInt(v) + 1) % IntWidth
  <2>1. v + 1 = IntWidth * q + a + 1 /\ v + 1 \in Int
    BY <1>1, IntWidthIs
  <2>2. ToInt(v) + 1 = IntWidth * (-e) + a + 1 /\ ToInt(v) + 1 \in Int /\ -e \in Int
    BY <1>1, <1>2, IntWidthIs
  <2>. QED  BY <1>1, <1>3, <2>1, <2>2
<1>5. ToInt(v) \in Int
  BY <1>1, <1>2, IntWidthIs
<1>. QED  BY <1>4, <1>5 DEF ToInt

\* A number up to INT_MAX is itself in an int32; of as many after it, all are negative.
LEMMA ToIntIs ==
    ASSUME NEW v \in 0 .. IntWidth - 1
    PROVE  IF v <= INT_MAX THEN ToInt(v) = v ELSE ToInt(v) \in Int /\ ToInt(v) < 0
<1>1. v % IntWidth = v
  BY IntWidthIs
<1>. QED  BY <1>1, IntWidthIs DEF ToInt

\* An id that has a row is the same in an int32, and no other id is taken for it.
LEMMA TargetIs ==
    ASSUME DbTypes, PlayersInv, IdsInv, NEW s \in Sessions, player[s] # 0
    PROVE  /\ ToInt(player[s]) \in Int
           /\ ToInt(player[s]) \in 1 .. nextRow - 1 => ToInt(player[s]) = player[s]
<1>1. player[s] \in 0 .. IntWidth - 1
  BY IntWidthIs DEF DbTypes, PlayersInv, IdsInv
<1>. QED  BY <1>1, ToIntIs, IntWidthIs DEF DbTypes

-----------------------------------------------------------------------------
(***************************************************************************)
(* The statements.                                                         *)
(***************************************************************************)
LEMMA ToInsertIs ==
    /\ Accepts(ToInsert, 1) /\ Variables(ToInsert) = {Local("count")}
    /\ ToInsert.params[1] = Local("count")
BY DEF ToInsert, BindParam, Bound, NewStatement, Closed, Accepts, Variables, Range

LEMMA ToSelectIs ==
    /\ Accepts(ToSelect, 1)
    /\ Variables(ToSelect) = {Local("count"), Local("targetId")}
    /\ ToSelect.params[1] = Local("targetId") /\ ToSelect.cols[1] = Local("count")
BY DEF ToSelect, BindParam, BindCol, Bound, NewStatement, Closed, Accepts, Variables, Range

\* A SELECT changes the cursor only, and so does a fetch.
LEMMA SelectIs ==
    ASSUME NEW result
    PROVE  /\ Variables(Select(ToSelect, result)) = Variables(ToSelect)
           /\ Select(ToSelect, result).cursor.rows = result
           /\ Fetch(Select(ToSelect, result)).cols[1] = Local("count")
BY DEF ToSelect, BindParam, BindCol, Bound, NewStatement, Closed, Variables, Range,
       Select, Fetch, HasRow

LEMMA ToUpdateIs ==
    /\ Accepts(ToUpdate, 2)
    /\ Variables(ToUpdate) = {Local("count"), Local("targetId")}
    /\ ToUpdate.params[1] = Local("count") /\ ToUpdate.params[2] = Local("targetId")
BY DEF ToUpdate, BindParam, Bound, NewStatement, Closed, Accepts, Variables, Range

LEMMA ValueIs ==
    ASSUME NEW st, NEW index
    PROVE  /\ st.params[index] = Local("count") => Value(st, index) = count
           /\ st.params[index] = Local("targetId") => Value(st, index) = targetId
BY DEF Value, Local

\* The row found for the int32 of an id is the player's own.
LEMMA RowIs ==
    ASSUME DbTypes, PlayersInv, IdsInv, RowsInv, NEW s \in Sessions, player[s] # 0,
           Row(ToInt(player[s])) # <<>>
    PROVE  /\ ToInt(player[s]) = player[s] /\ player[s] < nextRow
           /\ Head(Row(ToInt(player[s]))) = ToInt(said[s])
<1>1. ToInt(player[s]) \in 1 .. nextRow - 1
  BY DEF Row
<1>2. ToInt(player[s]) = player[s]
  BY <1>1, TargetIs
<1>3. ToInt(0) = 0
  BY ToIntIs, IntWidthIs
<1>. QED  BY <1>1, <1>2, <1>3 DEF DbTypes, RowsInv, Row

-----------------------------------------------------------------------------
(***************************************************************************)
(* The steps.                                                              *)
(***************************************************************************)
\* Steps that leave the database, the players and the handler alone.
LEMMA OtherKeeps ==
    ASSUME IInv, UNCHANGED <<pc, idVars, localVars, dbVars, others, crashed>>
    PROVE  IInv'
<1>1. UNCHANGED <<pc, idGenerator, player, at, call, targetId, count, dbConn, dbPool,
                  stmt, nextRow, rows, said, others, crashed>>
  BY DEF idVars, localVars, dbVars
<1>2. /\ InLogin' = InLogin /\ InChat' = InChat /\ HasConn' = HasConn
      /\ ToInsert' = ToInsert /\ ToSelect' = ToSelect /\ ToUpdate' = ToUpdate
      /\ Row(targetId)' = Row(targetId)
  BY <1>1 DEF InLogin, InChat, HasConn, ToInsert, ToSelect, ToUpdate, Local, Row
<1>3. DbTypes' /\ PlayersInv' /\ IdsInv'
  BY <1>1, <1>2 DEF IInv, DbTypes, PlayersInv, IdsInv
<1>4. RowsInv'
  BY <1>1 DEF IInv, RowsInv
<1>5. StatementInv'
  BY <1>1, <1>2 DEF IInv, StatementInv
<1>. QED  BY <1>1, <1>3, <1>4, <1>5 DEF IInv, StatementsAccepted

LEMMA StartKeeps ==
    ASSUME IInv, Connect \/ CreateTable \/ Elsewhere
    PROVE  IInv'
<1>1. ~InLogin /\ ~InChat /\ ~InLogin' /\ ~InChat' /\ ~HasConn'
  BY DEF Connect, CreateTable, Elsewhere, InLogin, InChat, HasConn
<1>2. /\ UNCHANGED <<player, said, count>>
      /\ DOMAIN stmt' = Connections /\ dbPool' \subseteq Connections
      /\ crashed' # "refused"
  BY DEF Connect, CreateTable, Elsewhere, idVars, localVars, IInv, DbTypes,
         StatementsAccepted
<1>3. /\ idGenerator' \in Nat \ {0} /\ nextRow' \in Nat \ {0} /\ nextRow' <= idGenerator'
      /\ idGenerator <= idGenerator'
      /\ rows' = rows /\ (nextRow <= nextRow' \/ rows = <<>>)
      /\ pc' = "start" => rows' = <<>>
  <2>1. CASE Connect
    BY <2>1 DEF Connect, idVars, IInv, DbTypes, PlayersInv, RowsInv
  <2>2. CASE CreateTable
    BY <2>2 DEF CreateTable, idVars, IInv, DbTypes, PlayersInv, RowsInv
  <2>3. CASE Elsewhere
    <3>1. PICK e \in Elsewheres :
               idGenerator' = idGenerator + e[1] /\ nextRow' = nextRow + e[2]
      BY <2>3 DEF Elsewhere
    <3>2. PICK n, m \in Nat :
               n >= m /\ idGenerator' = idGenerator + n /\ nextRow' = nextRow + m
      BY <3>1, HandlersAssumption
    <3>3. rows' = rows /\ pc' # "start"
      BY <2>3 DEF Elsewhere
    <3>. QED  BY <3>2, <3>3 DEF IInv, DbTypes, PlayersInv
  <2>. QED  BY <2>1, <2>2, <2>3
<1>4. DbTypes'
  BY <1>1, <1>2, <1>3 DEF IInv, DbTypes
<1>5. PlayersInv'
  <2>1. \A s \in Sessions : player'[s] < idGenerator'
    BY <1>2, <1>3 DEF IInv, DbTypes, PlayersInv
  <2>. QED  BY <1>1, <1>2, <1>3, <2>1 DEF IInv, PlayersInv
<1>6. RowsInv'
  BY <1>2, <1>3 DEF IInv, DbTypes, RowsInv
<1>7. StatementInv'
  BY <1>1 DEF StatementInv, InChat, InLogin
<1>8. IdsInv'
  <2>1. CASE Connect
    BY <2>1, <1>1 DEF Connect, idVars, IInv, IdsInv
  <2>2. CASE CreateTable
    BY <2>2, <1>1, IntWidthIs DEF CreateTable, idVars, IInv, IdsInv
  <2>3. CASE Elsewhere
    <3>1. PICK e \in Elsewheres :
               /\ idGenerator' = idGenerator + e[1] /\ nextRow' = nextRow + e[2]
               /\ nextRow + e[2] <= INT_MAX + 1
      BY <2>3 DEF Elsewhere
    <3>2. e[1] \in Nat /\ e[2] \in Nat /\ e[1] - e[2] <= INT_MAX
      BY HandlersAssumption, UnderWayAssumption
    <3>3. ~others /\ others' /\ pc' = "idle"
      BY <2>3 DEF Elsewhere
    <3>4. idGenerator <= nextRow /\ idGenerator \in Nat /\ nextRow \in Nat
      BY <1>1, <3>3 DEF IInv, DbTypes, IdsInv
    <3>. QED  BY <3>1, <3>2, <3>3, <3>4, <1>1, IntWidthIs DEF IdsInv
  <2>. QED  BY <2>1, <2>2, <2>3
<1>. QED  BY <1>2, <1>4, <1>5, <1>6, <1>7, <1>8 DEF IInv, StatementsAccepted

LEMMA Handle_C_LOGINKeeps ==
    ASSUME IInv, NEW s \in Sessions, Handle_C_LOGIN(s)
    PROVE  IInv'
<1>1. /\ pc = "idle" /\ pc' = "login.bind" /\ at' = s
      /\ player' = [player EXCEPT ![s] = idGenerator]
      /\ idGenerator' = idGenerator + 1
      /\ said' = [said EXCEPT ![s] = 0]
      /\ UNCHANGED <<count, dbPool, stmt, nextRow, rows, others, crashed>>
  BY DEF Handle_C_LOGIN, ToServer
<1>2. InLogin' /\ ~InLogin /\ ~InChat' /\ ~HasConn'
  BY <1>1 DEF InLogin, InChat, HasConn
<1>3. DbTypes'
  BY <1>1, <1>2 DEF IInv, DbTypes
<1>4. /\ player'[s] = idGenerator /\ said'[s] = 0
      /\ \A r \in Sessions \ {s} : player'[r] = player[r] /\ said'[r] = said[r]
  BY <1>1 DEF IInv, DbTypes
<1>5. PlayersInv'
  BY <1>1, <1>4 DEF IInv, DbTypes, PlayersInv
<1>6. RowsInv'
  <2>1. idGenerator \notin DOMAIN rows
    BY DEF IInv, DbTypes, PlayersInv, RowsInv
  <2>. QED  BY <1>1, <1>4, <2>1 DEF IInv, RowsInv
<1>7. StatementInv'
  BY <1>1, <1>2 DEF StatementInv
<1>8. IdsInv'
  BY <1>1, <1>2, IntWidthIs DEF IInv, DbTypes, IdsInv
<1>. QED  BY <1>1, <1>3, <1>5, <1>6, <1>7, <1>8 DEF IInv, StatementsAccepted

\* A handler takes a connection of the pool, whatever was bound to it before.
LEMMA BindKeeps ==
    ASSUME IInv, LoginBind \/ ChatBind
    PROVE  IInv'
<1>1. PICK c \in dbPool :
           /\ dbConn' = c /\ dbPool' = dbPool \ {c} /\ count' = 0
           /\ stmt' = [stmt EXCEPT ![c] = IF pc = "login.bind" THEN ToInsert ELSE ToSelect]
  BY DEF LoginBind, ChatBind, ToInsert, ToSelect, Unbind
<1>2. /\ UNCHANGED <<at, call, nextRow, rows, said, idGenerator, player, others, crashed>>
      /\ \/ pc = "login.bind" /\ pc' = "login.insert"
         \/ pc = "chat.bind" /\ pc' = "chat.select" /\ targetId' = ToInt(player[at])
  BY DEF LoginBind, ChatBind, idVars
<1>3. InLogin' = InLogin /\ InChat' = InChat /\ HasConn' /\ pc' # "start"
  BY <1>2 DEF InLogin, InChat, HasConn
<1>4. DbTypes'
  BY <1>1, <1>2, <1>3 DEF IInv, DbTypes
<1>5. PlayersInv' /\ IdsInv' /\ RowsInv'
  BY <1>2, <1>3 DEF IInv, PlayersInv, IdsInv, RowsInv
<1>6. StatementInv'
  <2>1. ToInsert' = ToInsert /\ ToSelect' = ToSelect
    BY <1>2 DEF ToInsert, ToSelect, Local
  <2>2. stmt'[dbConn'] = IF pc = "login.bind" THEN ToInsert ELSE ToSelect
    BY <1>1 DEF IInv, DbTypes
  <2>. QED  BY <1>1, <1>2, <2>1, <2>2 DEF StatementInv, InChat
<1>. QED  BY <1>2, <1>4, <1>5, <1>6 DEF IInv, StatementsAccepted

\* The new row counts no chat; its id is below the one just drawn.
LEMMA LoginInsertKeeps ==
    ASSUME IInv, LoginInsert
    PROVE  IInv'
<1>1. /\ pc = "login.insert" /\ stmt[dbConn] = ToInsert /\ count = 0
      /\ InLogin /\ dbConn \in Connections
  BY DEF LoginInsert, IInv, StatementInv, DbTypes, InLogin, HasConn
<1>2. Accepts(stmt[dbConn], 1) /\ Value(stmt[dbConn], 1) = 0
  BY <1>1, ToInsertIs, ValueIs
<1>a. CASE nextRow <= INT_MAX
  <2>3. /\ rows' = Bound(rows, nextRow, 0) /\ nextRow' = nextRow + 1
        /\ dbPool' = dbPool \cup {dbConn} /\ pc' = "idle"
        /\ UNCHANGED <<count, stmt, said, idGenerator, player, others, crashed>>
    BY <1>2, <1>a DEF LoginInsert, Return, idVars
  <2>4. ~InLogin' /\ ~InChat' /\ ~HasConn'
    BY <2>3 DEF InLogin, InChat, HasConn
  <2>5. DbTypes'
    BY <1>1, <2>3, <2>4 DEF IInv, DbTypes
  <2>6. PlayersInv'
    BY <1>1, <2>3, <2>4 DEF IInv, DbTypes, PlayersInv
  <2>7. IdsInv'
    BY <1>1, <1>a, <2>3, <2>4, IntWidthIs DEF IInv, DbTypes, IdsInv
  <2>8. RowsInv'
    <3>1. /\ DOMAIN rows' = DOMAIN rows \cup {nextRow} /\ rows'[nextRow] = 0
          /\ nextRow \notin DOMAIN rows
          /\ \A i \in DOMAIN rows : rows'[i] = rows[i]
      BY <2>3 DEF Bound, IInv, DbTypes, RowsInv
    <3>2. DOMAIN rows' \subseteq 1 .. nextRow' - 1
      BY <2>3, <3>1 DEF IInv, DbTypes, RowsInv
    <3>3. ToInt(0) = 0
      BY ToIntIs, IntWidthIs
    <3>. QED  BY <2>3, <3>1, <3>2, <3>3 DEF IInv, RowsInv
  <2>9. StatementInv'
    BY <2>3, <2>4 DEF StatementInv
  <2>. QED  BY <2>3, <2>5, <2>6, <2>7, <2>8, <2>9 DEF IInv, StatementsAccepted
<1>b. CASE ~(nextRow <= INT_MAX)
  <2>1. /\ crashed' = "no id left"
        /\ UNCHANGED <<pc, at, call, targetId, count, dbConn, dbPool, stmt, nextRow,
                       rows, said, idGenerator, player, others>>
    BY <1>2, <1>b DEF LoginInsert, idVars
  <2>2. /\ InLogin' = InLogin /\ InChat' = InChat /\ HasConn' = HasConn
        /\ ToInsert' = ToInsert
    BY <2>1 DEF InLogin, InChat, HasConn, ToInsert, Local
  <2>3. DbTypes' /\ PlayersInv' /\ IdsInv'
    BY <2>1, <2>2 DEF IInv, DbTypes, PlayersInv, IdsInv
  <2>4. RowsInv'
    BY <2>1 DEF IInv, RowsInv
  <2>5. StatementInv'
    BY <1>1, <2>1, <2>2 DEF StatementInv, InChat
  <2>. QED  BY <2>1, <2>3, <2>4, <2>5 DEF IInv, StatementsAccepted
<1>. QED  BY <1>a, <1>b

LEMMA Handle_C_CHATKeeps ==
    ASSUME IInv, NEW s \in Sessions, Handle_C_CHAT(s)
    PROVE  IInv'
<1>1. /\ pc = "idle"
      /\ UNCHANGED <<count, dbPool, stmt, nextRow, rows, said, idGenerator, player,
                     others>>
      /\ \/ pc' = pc /\ crashed' = "no player"
         \/ pc' = "chat.bind" /\ at' = s /\ player[s] # 0 /\ crashed' = crashed
  BY DEF Handle_C_CHAT, ToServer, dbVars, idVars
<1>2. ~InLogin /\ ~InLogin' /\ ~HasConn' /\ (InChat' => pc' = "chat.bind")
  BY <1>1 DEF InLogin, InChat, HasConn
<1>3. DbTypes'
  BY <1>1, <1>2 DEF IInv, DbTypes
<1>4. PlayersInv' /\ IdsInv' /\ RowsInv'
  BY <1>1, <1>2 DEF IInv, PlayersInv, IdsInv, RowsInv
<1>5. StatementInv'
  BY <1>1, <1>2 DEF StatementInv
<1>. QED  BY <1>1, <1>3, <1>4, <1>5 DEF IInv, StatementsAccepted

LEMMA ChatSelectKeeps ==
    ASSUME IInv, ChatSelect
    PROVE  IInv'
<1>1. /\ pc = "chat.select" /\ stmt[dbConn] = ToSelect /\ targetId = ToInt(player[at])
      /\ dbConn \in Connections
  BY DEF ChatSelect, IInv, StatementInv, DbTypes, InChat, HasConn
<1>2. Accepts(stmt[dbConn], 1) /\ Value(stmt[dbConn], 1) = targetId
  BY <1>1, ToSelectIs, ValueIs
<1>3. /\ stmt' = [stmt EXCEPT ![dbConn] = Select(ToSelect, Row(targetId))]
      /\ pc' = "chat.fetch"
      /\ UNCHANGED <<at, call, targetId, count, dbConn, dbPool, nextRow, rows, said,
                     idGenerator, player, others, crashed>>
  BY <1>1, <1>2 DEF ChatSelect, localVars, idVars
<1>4. InLogin' = InLogin /\ InChat' = InChat /\ HasConn' = HasConn
  BY <1>1, <1>3 DEF InLogin, InChat, HasConn
<1>5. DbTypes'
  BY <1>3, <1>4 DEF IInv, DbTypes
<1>6. PlayersInv' /\ IdsInv' /\ RowsInv'
  BY <1>1, <1>3, <1>4 DEF IInv, PlayersInv, IdsInv, RowsInv
<1>7. StatementInv'
  <2>1. ToSelect' = ToSelect /\ Row(targetId)' = Row(targetId)
    BY <1>3 DEF ToSelect, Local, Row
  <2>2. stmt'[dbConn'] = Select(ToSelect, Row(targetId))
    BY <1>1, <1>3 DEF IInv, DbTypes
  <2>. QED  BY <1>1, <1>3, <2>1, <2>2 DEF StatementInv
<1>. QED  BY <1>3, <1>5, <1>6, <1>7 DEF IInv, StatementsAccepted

\* What is fetched is what the player has said so far.
LEMMA ChatFetchKeeps ==
    ASSUME IInv, ChatFetch
    PROVE  IInv'
<1>. DEFINE row == Row(targetId)
<1>1. /\ pc = "chat.fetch" /\ stmt[dbConn] = Select(ToSelect, row)
      /\ targetId = ToInt(player[at]) /\ at \in Sessions /\ player[at] # 0
      /\ dbConn \in Connections
  BY DEF ChatFetch, IInv, StatementInv, DbTypes, InChat, HasConn
<1>2. row # <<>> => /\ targetId = player[at] /\ targetId < nextRow
                    /\ Head(row) = ToInt(said[at])
  BY <1>1, RowIs DEF IInv
<1>3. /\ stmt[dbConn].cursor.rows = row
      /\ Fetch(stmt[dbConn]).cols[1] = Local("count")
  BY <1>1, SelectIs
<1>4. /\ UNCHANGED <<at, call, targetId, dbConn, dbPool, nextRow, rows, said,
                     idGenerator, player, others, crashed>>
      /\ stmt' = [stmt EXCEPT ![dbConn] = ToUpdate]
      /\ count' = IF row # <<>> THEN ToInt(Head(row) + 1) ELSE count
      /\ pc' = IF row # <<>> THEN "chat.update" ELSE "chat.insert"
  BY <1>3 DEF ChatFetch, HasRow, ToUpdate, Unbind, idVars
<1>. HIDE DEF row
<1>a. row # <<>> => count' = ToInt(said[at] + 1) /\ count' \in Int
  <2>1. said[at] \in Nat /\ said[at] + 1 \in Nat
    BY <1>1 DEF IInv, DbTypes
  <2>. QED  BY <1>2, <1>4, <2>1, CountsOn
<1>5. InLogin' = InLogin /\ InChat' = InChat /\ HasConn' = HasConn /\ pc' # "start"
  BY <1>1, <1>4 DEF InLogin, InChat, HasConn
<1>6. DbTypes'
  BY <1>1, <1>a, <1>4, <1>5 DEF IInv, DbTypes
<1>7. PlayersInv' /\ IdsInv' /\ RowsInv'
  BY <1>1, <1>4, <1>5 DEF IInv, PlayersInv, IdsInv, RowsInv
<1>8. StatementInv'
  <2>1. ToUpdate' = ToUpdate
    BY <1>4 DEF ToUpdate, Local
  <2>2. stmt'[dbConn'] = ToUpdate
    BY <1>1, <1>4 DEF IInv, DbTypes
  <2>. QED  BY <1>1, <1>2, <1>a, <1>4, <2>1, <2>2 DEF StatementInv
<1>. QED  BY <1>4, <1>6, <1>7, <1>8 DEF IInv, StatementsAccepted

\* The count goes to the row of the player, and to no other.
LEMMA ChatUpdateKeeps ==
    ASSUME IInv, ChatUpdate
    PROVE  IInv'
<1>1. /\ pc = "chat.update" /\ stmt[dbConn] = ToUpdate
      /\ targetId = player[at] /\ targetId < nextRow /\ count = ToInt(said[at] + 1)
      /\ at \in Sessions /\ dbConn \in Connections /\ player[at] # 0
  BY DEF ChatUpdate, IInv, StatementInv, DbTypes, InChat, HasConn
<1>2. /\ Accepts(stmt[dbConn], 2)
      /\ Value(stmt[dbConn], 1) = count /\ Value(stmt[dbConn], 2) = targetId
      /\ targetId \in 1 .. nextRow - 1
  BY <1>1, ToUpdateIs, ValueIs DEF IInv, DbTypes
<1>3. /\ rows' = Bound(rows, targetId, count)
      /\ said' = [said EXCEPT ![at] = @ + 1]
      /\ stmt' = [stmt EXCEPT ![dbConn] = Unbind(@)]
      /\ dbPool' = dbPool \cup {dbConn} /\ pc' = "idle"
      /\ UNCHANGED <<count, nextRow, idGenerator, player, others, crashed>>
  BY <1>1, <1>2 DEF ChatUpdate, Return, idVars
<1>4. ~InLogin' /\ ~InChat' /\ ~HasConn'
  BY <1>3 DEF InLogin, InChat, HasConn
<1>5. /\ said'[at] = said[at] + 1 /\ \A s \in Sessions \ {at} : said'[s] = said[s]
      /\ player[at] \in Nat
  BY <1>1, <1>3 DEF IInv, DbTypes
<1>6. DbTypes'
  <2>1. said' \in [Sessions -> Nat]
    BY <1>1, <1>3 DEF IInv, DbTypes
  <2>. QED  BY <1>1, <1>3, <1>4, <2>1 DEF IInv, DbTypes
<1>7. PlayersInv' /\ IdsInv'
  <2>1. ~InLogin /\ pc' # "start"
    BY <1>1, <1>3 DEF InLogin
  <2>. QED  BY <2>1, <1>3, <1>4 DEF IInv, PlayersInv, IdsInv
<1>8. RowsInv'
  <2>1. /\ DOMAIN rows' = DOMAIN rows \cup {targetId} /\ rows'[targetId] = count
        /\ \A i \in DOMAIN rows \ {targetId} : rows'[i] = rows[i]
    BY <1>3 DEF Bound
  <2>2. DOMAIN rows' \subseteq 1 .. nextRow' - 1
    BY <1>1, <1>3, <1>5, <2>1 DEF IInv, DbTypes, RowsInv
  <2>3. \A s \in Sessions \ {at} : player[s] # targetId
    BY <1>1 DEF IInv, PlayersInv
  <2>. QED  BY <1>1, <1>3, <1>5, <2>1, <2>2, <2>3 DEF IInv, RowsInv
<1>9. StatementInv'
  BY <1>3, <1>4 DEF StatementInv
<1>. QED  BY <1>3, <1>6, <1>7, <1>8, <1>9 DEF IInv, StatementsAccepted

LEMMA ChatInsertKeeps ==
    ASSUME IInv, ChatInsert
    PROVE  IInv'
<1>1. /\ pc = "chat.insert" /\ stmt[dbConn] = ToUpdate
      /\ UNCHANGED <<pc, localVars, dbVars, idVars, others>>
      /\ crashed' = IF Accepts(stmt[dbConn], 2) THEN "explicit id" ELSE "refused"
  BY DEF ChatInsert, IInv, StatementInv
<1>2. crashed' = "explicit id"
  BY <1>1, ToUpdateIs
<1>3. UNCHANGED <<pc, idGenerator, player, at, call, targetId, count, dbConn, dbPool,
                  stmt, nextRow, rows, said, others>>
  BY <1>1 DEF idVars, localVars, dbVars
<1>4. /\ InLogin' = InLogin /\ InChat' = InChat /\ HasConn' = HasConn
      /\ ToUpdate' = ToUpdate
  BY <1>3 DEF InLogin, InChat, HasConn, ToUpdate, Local
<1>5. DbTypes' /\ PlayersInv' /\ IdsInv'
  BY <1>3, <1>4 DEF IInv, DbTypes, PlayersInv, IdsInv
<1>6. RowsInv'
  BY <1>3 DEF IInv, RowsInv
<1>7. StatementInv'
  BY <1>1, <1>3, <1>4 DEF IInv, StatementInv
<1>. QED  BY <1>2, <1>5, <1>6, <1>7 DEF IInv, StatementsAccepted

LEMMA InitIInv ==
    ASSUME Init
    PROVE  IInv
<1>1. /\ pc = "start" /\ idGenerator = 1 /\ nextRow = 1 /\ count = 0 /\ rows = <<>>
      /\ player = [s \in Sessions |-> 0] /\ said = [s \in Sessions |-> 0]
      /\ stmt = [c \in Connections |-> NewStatement] /\ dbPool = {}
      /\ crashed = "no" /\ others = FALSE
  BY DEF Init
<1>2. ~InLogin /\ ~InChat /\ ~HasConn
  BY <1>1 DEF InLogin, InChat, HasConn
<1>3. DbTypes
  BY <1>1, <1>2 DEF DbTypes
<1>4. PlayersInv /\ IdsInv /\ RowsInv /\ StatementInv
  BY <1>1, <1>2, IntWidthIs DEF PlayersInv, IdsInv, RowsInv, StatementInv
<1>. QED  BY <1>1, <1>3, <1>4 DEF IInv, StatementsAccepted

LEMMA NextIInv ==
    ASSUME IInv, [Next]_vars
    PROVE  IInv'
<1>1. ASSUME NEW s \in Sessions, Client(s) \/ Handle_C_TEST(s)
      PROVE  IInv'
  <2>1. UNCHANGED <<pc, idVars, localVars, dbVars, others, crashed>>
    BY <1>1
    DEF Client, OnConnected, Handle_S_LOGIN, Handle_S_CHAT, Handle_S_TEST, Handle_C_TEST
  <2>. QED  BY <2>1, OtherKeeps
<1>2. ASSUME NEW s \in Sessions, NEW b \in Buffs, NEW t \in Texts, SendTest(s, b, t)
      PROVE  IInv'
  <2>1. UNCHANGED <<pc, idVars, localVars, dbVars, others, crashed>>
    BY <1>2 DEF SendTest
  <2>. QED  BY <2>1, OtherKeeps
<1>3. ASSUME NEW s \in Sessions, Handle_C_LOGIN(s) \/ Handle_C_CHAT(s)
      PROVE  IInv'
  BY <1>3, Handle_C_LOGINKeeps, Handle_C_CHATKeeps
<1>4. CASE Connect \/ CreateTable \/ Elsewhere
  BY <1>4, StartKeeps
<1>5. CASE LoginBind \/ LoginInsert
  BY <1>5, BindKeeps, LoginInsertKeeps
<1>6. CASE ChatBind \/ ChatSelect \/ ChatFetch \/ ChatUpdate \/ ChatInsert
  BY <1>6, BindKeeps, ChatSelectKeeps, ChatFetchKeeps, ChatUpdateKeeps, ChatInsertKeeps
<1>7. CASE UNCHANGED vars
  <2>1. UNCHANGED <<pc, idVars, localVars, dbVars, others, crashed>>
    BY <1>7 DEF vars
  <2>. QED  BY <2>1, OtherKeeps
<1>8. ASSUME NEW t \in Texts, Main(t)
      PROVE  IInv'
  <2>1. UNCHANGED <<pc, idVars, localVars, dbVars, others, crashed>>
    BY <1>8 DEF Main
  <2>. QED  BY <2>1, OtherKeeps
<1>9. CASE Server
  BY <1>1, <1>2, <1>3, <1>4, <1>5, <1>6, <1>9 DEF Server
<1>. QED  BY <1>1, <1>7, <1>8, <1>9 DEF Next, Running, Rest

-----------------------------------------------------------------------------
(***************************************************************************)
(* The theorems.                                                           *)
(***************************************************************************)
\* At each of its statements a handler's connection holds the bindings that handler
\* made and no others; players differ, and rows have ids that were given out.
THEOREM DatabaseInvariant == Spec => []IInv
<1>1. Init => IInv
  BY InitIInv
<1>2. IInv /\ [Next]_vars => IInv'
  BY NextIInv
<1>. QED  BY <1>1, <1>2, PTL DEF Spec

\* Whatever handlers used a connection before, no statement runs with a binding to
\* a local of one that has returned.
THEOREM BindingsAlwaysLive == Spec => []BindingsLive
<1>1. ASSUME IInv, HasConn
      PROVE  \A v \in Variables(stmt[dbConn]) : v.call = call
  <2>1. \A var : Local(var).call = call
    BY DEF Local
  <2>2. CASE pc = "login.insert"
    BY <1>1, <2>1, <2>2, ToInsertIs DEF IInv, StatementInv
  <2>3. CASE pc \in {"chat.select", "chat.fetch"}
    <3>1. Variables(stmt[dbConn]) = Variables(ToSelect)
      <4>1. CASE pc = "chat.select"
        BY <1>1, <4>1 DEF IInv, StatementInv
      <4>2. CASE pc = "chat.fetch"
        <5>1. stmt[dbConn] = Select(ToSelect, Row(targetId))
          BY <1>1, <4>2 DEF IInv, StatementInv
        <5>. QED  BY <5>1, SelectIs
      <4>. QED  BY <2>3, <4>1, <4>2
    <3>. QED  BY <2>1, <3>1, ToSelectIs
  <2>4. CASE pc \in {"chat.update", "chat.insert"}
    BY <1>1, <2>1, <2>4, ToUpdateIs DEF IInv, StatementInv
  <2>. QED  BY <1>1, <2>2, <2>3, <2>4 DEF HasConn
<1>2. IInv => BindingsLive
  BY <1>1 DEF BindingsLive, HasConn
<1>. QED  BY <1>2, DatabaseInvariant, PTL

\* The driver refuses no statement of the handlers, on any connection of the pool.
THEOREM StatementsAlwaysAccepted == Spec => []StatementsAccepted
<1>1. IInv => StatementsAccepted
  BY DEF IInv
<1>. QED  BY <1>1, DatabaseInvariant, PTL

\* The row of a player counts that player's chats, for any sessions and logins, up to
\* the last id of an INT column and beyond it: the int32 of ChatBind finds no row but
\* the player's own, and an INSERT that finds the ids used up ends the server.
THEOREM RowsAlwaysCountChats == Spec => []RowsCountChats
<1>1. IInv => RowsCountChats
  BY DEF IInv, RowsInv, RowsCountChats
<1>. QED  BY <1>1, DatabaseInvariant, PTL

-----------------------------------------------------------------------------
(***************************************************************************)
(* Bytes: types.                                                           *)
(***************************************************************************)
\* Types of what the makers are given and of what they write.
Byte == 0 .. 255
Uint16 == {v \in Nat : v < 65536}
Uint32 == {v \in Nat : v \div 65536 < 65536}
Strings == {t \in Seq(Byte) : Len(t) <= InPlace}
Items == Uint64 \X Uint32
Lists == {l \in Seq(Items) : Len(l) <= 3}

Made == [kind : Nat, id : Uint64, hp : Uint32, attack : Uint16,
         text : Strings, buffs : Lists]

Buffers == [1 .. ChunkSize -> Byte]
Writers == [buffer : Buffers, base : Nat, size : Nat, pos : Nat, sound : BOOLEAN]

\* The first n bytes from p are those of c.
Holds(b, p, c, n) == \A k \in 1 .. n : b[p + k] = c[k]

\* The same bytes but for those from offset p to offset q.
Same(a, b, p, q) == \A i \in 1 .. ChunkSize : i <= p \/ i > q => b[i] = a[i]

\* A writer within its chunk, and within the part opened for it.
Within(bw) == bw \in Writers /\ bw.base + bw.size <= ChunkSize /\ bw.pos <= bw.size

-----------------------------------------------------------------------------
(***************************************************************************)
(* Numbers and strings as bytes, and back.                                 *)
(***************************************************************************)
\* A function on 1 .. n is a sequence of n.
LEMMA LenIs ==
    ASSUME NEW n \in Nat, NEW S, NEW f \in [1 .. n -> S]
    PROVE  f \in Seq(S) /\ Len(f) = n
OBVIOUS

\* A number is its lowest byte and the rest.
LEMMA ByteOf ==
    ASSUME NEW v \in Nat
    PROVE  /\ v % 256 \in Byte /\ v \div 256 \in Nat
           /\ v = (v % 256) + 256 * (v \div 256)
BY DEF Byte

LEMMA ByteIs ==
    ASSUME NEW v \in Byte
    PROVE  v % 256 = v
BY DEF Byte

LEMMA Low16 ==
    ASSUME NEW v \in Nat
    PROVE  v % 65536 = (v % 256) + 256 * ((v \div 256) % 256)
OBVIOUS

\* The digits of a number are bytes.
LEMMA DigitsAre ==
    ASSUME NEW v \in Nat
    PROVE  \A k \in 1 .. 8 : Digits(v)[k] \in Byte
<1>. DEFINE v2 == v \div 256    v3 == v2 \div 256    v4 == v3 \div 256
            v5 == v4 \div 256   v6 == v5 \div 256    v7 == v6 \div 256
            v8 == v7 \div 256
<1>1. v2 \in Nat /\ v3 \in Nat /\ v4 \in Nat
  BY ByteOf
<1>2. v5 \in Nat /\ v6 \in Nat /\ v7 \in Nat /\ v8 \in Nat
  BY <1>1, ByteOf
<1>3. Digits(v) = <<v % 256, v2 % 256, v3 % 256, v4 % 256,
          v5 % 256, v6 % 256, v7 % 256, v8 % 256>>
  BY DEF Digits
<1>. HIDE DEF v2, v3, v4, v5, v6, v7, v8
<1>. QED  BY <1>1, <1>2, <1>3, ByteOf

\* Number adds up what it finds, least significant byte first.
LEMMA NumberSum ==
    ASSUME NEW pkt, NEW p \in Nat, NEW w \in {2, 4, 8}, NEW d,
           \A k \in 1 .. 8 : d[k] \in Byte,
           \A k \in 1 .. w : ByteAt(pkt, p + k - 1) = d[k]
    PROVE  /\ w = 2 => Number(pkt, p, w) = d[1] + 256 * d[2]
           /\ w = 4 => Number(pkt, p, w) = d[1] + 256 * (d[2] + 256 * (d[3] + 256 * d[4]))
           /\ w = 8 => Number(pkt, p, w) = d[1] + 256 * (d[2] + 256 * (d[3] + 256 * (d[4]
                  + 256 * (d[5] + 256 * (d[6] + 256 * (d[7] + 256 * d[8]))))))
<1>. DEFINE b(k) == IF k <= w THEN ByteAt(pkt, p + k - 1) ELSE 0
<1>1. Number(pkt, p, w) = b(1) + 256 * (b(2) + 256 * (b(3) + 256 * (b(4)
             + 256 * (b(5) + 256 * (b(6) + 256 * (b(7) + 256 * b(8)))))))
  BY DEF Number
<1>2. /\ d[1] \in Byte /\ d[2] \in Byte /\ d[3] \in Byte /\ d[4] \in Byte
      /\ d[5] \in Byte /\ d[6] \in Byte /\ d[7] \in Byte /\ d[8] \in Byte
  <2>. HIDE DEF b
  <2>. QED  OBVIOUS
<1>3. \A k \in 1 .. 8 : b(k) = IF k <= w THEN d[k] ELSE 0
  OBVIOUS
<1>. HIDE DEF b
<1>4. b(1) = d[1] /\ b(2) = d[2]
  BY <1>3
<1>5. b(3) = IF w = 2 THEN 0 ELSE d[3]
  BY <1>3
<1>6. b(4) = IF w = 2 THEN 0 ELSE d[4]
  BY <1>3
<1>7. b(5) = IF w = 8 THEN d[5] ELSE 0
  BY <1>3
<1>8. b(6) = IF w = 8 THEN d[6] ELSE 0
  BY <1>3
<1>9. b(7) = IF w = 8 THEN d[7] ELSE 0
  BY <1>3
<1>10. b(8) = IF w = 8 THEN d[8] ELSE 0
  BY <1>3
<1>. HIDE DEF b
<1>11. CASE w = 2
  BY <1>2, <1>1, <1>4, <1>5, <1>6, <1>7, <1>8, <1>9, <1>10, <1>11 DEF Byte
<1>12. CASE w = 4
  BY <1>2, <1>1, <1>4, <1>5, <1>6, <1>7, <1>8, <1>9, <1>10, <1>12 DEF Byte
<1>13. CASE w = 8
  BY <1>2, <1>1, <1>4, <1>5, <1>6, <1>7, <1>8, <1>9, <1>10, <1>13
<1>. QED  BY <1>11, <1>12, <1>13

LEMMA ByteAtIs ==
    ASSUME NEW z \in Nat, NEW pkt \in [1 .. z -> Byte], NEW p \in Nat, p < z
    PROVE  ByteAt(pkt, p) = pkt[p + 1]
<1>1. Len(pkt) = z
  OBVIOUS
<1>. QED  BY <1>1 DEF ByteAt

\* Number is the inverse of Digits, for what its width holds.
LEMMA NumberIs ==
    ASSUME NEW z \in Nat, NEW pkt \in [1 .. z -> Byte], NEW p \in Nat,
           NEW w \in {2, 4, 8}, p + w <= z,
           NEW v \in Nat, Holds(pkt, p, Digits(v), w)
    PROVE  /\ w = 2 => Number(pkt, p, w) = v % 65536
           /\ w = 4 /\ v \in Uint32 => Number(pkt, p, w) = v
           /\ w = 8 /\ v \in Uint64 => Number(pkt, p, w) = v
<1>. DEFINE v2 == v \div 256    v3 == v2 \div 256    v4 == v3 \div 256
            v5 == v4 \div 256   v6 == v5 \div 256    v7 == v6 \div 256
            v8 == v7 \div 256
            d1 == v % 256   d2 == v2 % 256   d3 == v3 % 256   d4 == v4 % 256
            d5 == v5 % 256  d6 == v6 % 256   d7 == v7 % 256   d8 == v8 % 256
<1>1. Digits(v) = <<d1, d2, d3, d4, d5, d6, d7, d8>>
  BY DEF Digits
<1>2. \A k \in 1 .. w : ByteAt(pkt, p + k - 1) = Digits(v)[k]
  <2>1. ASSUME NEW k \in 1 .. w
        PROVE  ByteAt(pkt, p + k - 1) = pkt[p + k]
    <3>1. p + k - 1 \in Nat /\ p + k - 1 < z /\ p + k - 1 + 1 = p + k
      OBVIOUS
    <3>. QED  BY <3>1, ByteAtIs
  <2>. QED  BY <2>1 DEF Holds
<1>3. v2 \in Nat /\ d1 \in Byte /\ v = d1 + 256 * v2
  BY ByteOf
<1>. HIDE DEF v2, d1
<1>4. v3 \in Nat /\ d2 \in Byte /\ v2 = d2 + 256 * v3
  BY <1>3, ByteOf
<1>. HIDE DEF v3, d2
<1>5. v4 \in Nat /\ d3 \in Byte /\ v3 = d3 + 256 * v4
  BY <1>4, ByteOf
<1>. HIDE DEF v4, d3
<1>6. v5 \in Nat /\ d4 \in Byte /\ v4 = d4 + 256 * v5
  BY <1>5, ByteOf
<1>. HIDE DEF v5, d4
<1>7. v6 \in Nat /\ d5 \in Byte /\ v5 = d5 + 256 * v6
  BY <1>6, ByteOf
<1>. HIDE DEF v6, d5
<1>8. v7 \in Nat /\ d6 \in Byte /\ v6 = d6 + 256 * v7
  BY <1>7, ByteOf
<1>. HIDE DEF v7, d6
<1>9. v8 \in Nat /\ d7 \in Byte /\ v7 = d7 + 256 * v8
  BY <1>8, ByteOf
<1>. HIDE DEF v8, d7
<1>10. v8 \in Byte => d8 = v8
  BY <1>9, ByteIs
<1>. HIDE DEF d8
<1>11. /\ v % 65536 = d1 + 256 * d2
       /\ v \in Uint32 => v = d1 + 256 * (d2 + 256 * (d3 + 256 * d4))
  <2>1. v % 65536 = d1 + 256 * d2
    BY Low16, SMT DEF d1, d2, v2
  <2>2. v \div 65536 = v3
    BY <1>3, <1>4, <1>5, SMT DEF Byte
  <2>3. v \in Uint32 => v4 = d4
    BY <1>5, <1>6, <2>2, SMT DEF Uint32, Byte
  <2>. QED  BY <1>3, <1>4, <1>5, <2>1, <2>3
<1>12. ASSUME v \in Uint64
       PROVE  v = d1 + 256 * (d2 + 256 * (d3 + 256 * (d4
                  + 256 * (d5 + 256 * (d6 + 256 * (d7 + 256 * d8))))))
  <2>1. v \div 16777216 = v4
    BY <1>3, <1>4, <1>5, <1>6, SMT DEF Byte
  <2>2. v4 \div 16777216 = v7
    BY <1>6, <1>7, <1>8, <1>9, SMT DEF Byte
  <2>3. v7 < 65536
    BY <1>12, <2>1, <2>2, SMT DEF Uint64
  <2>4. v8 \in Byte
    BY <1>8, <1>9, <2>3, SMT DEF Byte
  <2>. QED  BY <1>3, <1>4, <1>5, <1>6, <1>7, <1>8, <1>9, <1>10, <2>4
<1>13. /\ w = 2 => Number(pkt, p, w) = d1 + 256 * d2
       /\ w = 4 => Number(pkt, p, w) = d1 + 256 * (d2 + 256 * (d3 + 256 * d4))
       /\ w = 8 => Number(pkt, p, w) = d1 + 256 * (d2 + 256 * (d3 + 256 * (d4
                  + 256 * (d5 + 256 * (d6 + 256 * (d7 + 256 * d8))))))
  BY <1>1, <1>2, DigitsAre, NumberSum
<1>. QED  BY <1>11, <1>12, <1>13

\* Bytes and StringBytes write bytes, as many as their object has.
LEMMA BytesAre ==
    ASSUME NEW v \in Nat, NEW w \in 1 .. 8
    PROVE  /\ Bytes(v, w) \in [1 .. w -> Byte]
           /\ \A k \in 1 .. w : Bytes(v, w)[k] = Digits(v)[k]
BY DigitsAre DEF Bytes

LEMMA StringIs ==
    ASSUME NEW t \in Strings
    PROVE  /\ t \in Seq(Byte) /\ Len(t) \in Nat /\ Len(t) \in Byte /\ Len(t) <= 15
           /\ \A k \in 1 .. Len(t) : t[k] \in Byte
<1>. DEFINE n == Len(t)
<1>1. t \in Seq(Byte) /\ n \in Nat /\ n <= 15
  BY DEF Strings, InPlace
<1>2. \A k \in 1 .. n : t[k] \in Byte
  BY <1>1
<1>. HIDE DEF n
<1>3. n \in Byte
  BY <1>1 DEF Byte
<1>. QED  BY <1>1, <1>2, <1>3 DEF n

LEMMA StringBytesAre ==
    ASSUME NEW t \in Strings
    PROVE  /\ StringBytes(t) \in [1 .. 32 -> Byte]
           /\ \A k \in 1 .. Len(t) : StringBytes(t)[k] = t[k]
           /\ StringBytes(t)[17] = Len(t) /\ StringBytes(t)[25] = InPlace
           /\ \A k \in 18 .. 24 : StringBytes(t)[k] = 0
           /\ \A k \in 26 .. 32 : StringBytes(t)[k] = 0
<1>. DEFINE n == Len(t)
            e(k) == CASE k <= n -> t[k] [] k = 17 -> n [] k = 25 -> InPlace [] OTHER -> 0
<1>1. StringBytes(t) = [k \in 1 .. 32 |-> e(k)]
  BY DEF StringBytes, StringSize
<1>2. /\ n \in Byte /\ n \in Nat /\ n <= 15
      /\ \A k \in 1 .. n : t[k] \in Byte
  <2>. HIDE DEF e
  <2>. QED  BY StringIs
<1>. HIDE DEF n
<1>3. ASSUME NEW k \in 1 .. 32
      PROVE  e(k) \in Byte
  <2>1. InPlace \in Byte /\ 0 \in Byte
    BY DEF InPlace, Byte
  <2>. QED  BY <1>2, <2>1
<1>4. /\ \A k \in 1 .. n : e(k) = t[k] /\ k \in 1 .. 32
      /\ e(17) = n /\ e(25) = InPlace
      /\ \A k \in 18 .. 24 : e(k) = 0
      /\ \A k \in 26 .. 32 : e(k) = 0
  BY <1>2
<1>. HIDE DEF e
<1>5. StringBytes(t) \in [1 .. 32 -> Byte]
  BY <1>1, <1>3
<1>6. \A k \in 1 .. 32 : StringBytes(t)[k] = e(k)
  BY <1>1
<1>7. StringBytes(t)[17] = n /\ StringBytes(t)[25] = InPlace
  BY <1>4, <1>6
<1>8. \A k \in 1 .. n : StringBytes(t)[k] = t[k]
  BY <1>4, <1>6
<1>9. /\ \A k \in 18 .. 24 : StringBytes(t)[k] = 0
      /\ \A k \in 26 .. 32 : StringBytes(t)[k] = 0
  BY <1>4, <1>6
<1>. QED  BY <1>5, <1>7, <1>8, <1>9 DEF n

\* Who finds the bytes of a number reads that number.
LEMMA NumberHeld ==
    ASSUME NEW z \in Nat, NEW pkt \in [1 .. z -> Byte], NEW p \in Nat,
           NEW w \in {2, 4, 8}, p + w <= z, NEW v \in Nat, Holds(pkt, p, Bytes(v, w), w)
    PROVE  /\ w = 2 => Number(pkt, p, w) = v % 65536
           /\ w = 4 /\ v \in Uint32 => Number(pkt, p, w) = v
           /\ w = 8 /\ v \in Uint64 => Number(pkt, p, w) = v
<1>1. w \in 1 .. 8
  OBVIOUS
<1>2. Holds(pkt, p, Digits(v), w)
  BY <1>1, BytesAre DEF Holds
<1>. QED  BY <1>2, NumberIs

LEMMA NumbersHeld ==
    ASSUME NEW z \in Nat, NEW pkt \in [1 .. z -> Byte], NEW p \in Nat, NEW v \in Nat
    PROVE  /\ p + 2 <= z /\ Holds(pkt, p, Bytes(v, 2), 2) => Number(pkt, p, 2) = v % 65536
           /\ p + 4 <= z /\ v \in Uint32 /\ Holds(pkt, p, Bytes(v, 4), 4)
                  => Number(pkt, p, 4) = v
           /\ p + 8 <= z /\ v \in Uint64 /\ Holds(pkt, p, Bytes(v, 8), 8)
                  => Number(pkt, p, 8) = v
BY NumberHeld

\* A string in place has a capacity of one byte, and seven that are zero.
LEMMA SmallIs ==
    ASSUME NEW z \in Nat, NEW b \in [1 .. z -> Byte], NEW p \in Nat, p + 8 <= z
    PROVE  Small(b, p) <=> b[p + 1] <= InPlace /\ \A k \in 2 .. 8 : b[p + k] = 0
<1>1. ByteAt(b, p) = b[p + 1]
  BY ByteAtIs
<1>2. ASSUME NEW k \in 1 .. 7
      PROVE  ByteAt(b, p + k) = b[p + (k + 1)]
  <2>1. p + k \in Nat /\ p + k < z /\ p + k + 1 = p + (k + 1)
    OBVIOUS
  <2>. QED  BY <2>1, ByteAtIs
<1>3. (\A k \in 2 .. 8 : b[p + k] = 0) <=> \A k \in 1 .. 7 : b[p + (k + 1)] = 0
  <2>1. ASSUME \A k \in 1 .. 7 : b[p + (k + 1)] = 0, NEW k \in 2 .. 8
        PROVE  b[p + k] = 0
    <3>1. k - 1 \in 1 .. 7 /\ k = (k - 1) + 1
      OBVIOUS
    <3>. QED  BY <2>1, <3>1
  <2>2. \A k \in 1 .. 7 : k + 1 \in 2 .. 8
    OBVIOUS
  <2>. QED  BY <2>1, <2>2
<1>. QED  BY <1>1, <1>2, <1>3 DEF Small

\* Who finds the bytes of a string in place reads its text.
LEMMA TextHeld ==
    ASSUME NEW z \in Nat, NEW pkt \in [1 .. z -> Byte], NEW p \in Nat, p + 32 <= z,
           NEW t \in Strings, Holds(pkt, p, StringBytes(t), 32)
    PROVE  Text(pkt, p) = t
<1>. DEFINE s == StringBytes(t)
            n == Len(t)
<1>1. /\ s[17] = n /\ s[25] = InPlace
      /\ \A k \in 1 .. n : s[k] = t[k]
      /\ \A k \in 18 .. 24 : s[k] = 0
      /\ \A k \in 26 .. 32 : s[k] = 0
  BY StringBytesAre
<1>2. \A k \in 1 .. 32 : pkt[p + k] = s[k]
  BY DEF Holds
<1>3. t \in Seq(Byte) /\ n \in Nat /\ n <= 15
  BY StringIs
<1>. HIDE DEF s
<1>4. pkt[p + 16 + 1] = n /\ pkt[p + 24 + 1] = InPlace
  <2>1. p + 16 + 1 = p + 17 /\ p + 24 + 1 = p + 25
    OBVIOUS
  <2>2. 17 \in 1 .. 32 /\ 25 \in 1 .. 32
    OBVIOUS
  <2>3. pkt[p + 17] = s[17] /\ pkt[p + 25] = s[25]
    BY <1>2, <2>2, Zenon
  <2>. QED  BY <1>1, <2>1, <2>3
<1>5. ASSUME NEW k \in 2 .. 8
      PROVE  pkt[p + 16 + k] = 0 /\ pkt[p + 24 + k] = 0
  <2>1. p + 16 + k = p + (16 + k) /\ p + 24 + k = p + (24 + k)
    OBVIOUS
  <2>2. /\ 16 + k \in 18 .. 24 /\ 24 + k \in 26 .. 32 /\ 16 + k \in 1 .. 32
        /\ 24 + k \in 1 .. 32
    OBVIOUS
  <2>3. pkt[p + (16 + k)] = s[16 + k] /\ pkt[p + (24 + k)] = s[24 + k]
    BY <1>2, <2>2, Zenon
  <2>4. s[16 + k] = 0 /\ s[24 + k] = 0
    BY <1>1, <2>2, Zenon
  <2>. QED  BY <2>1, <2>3, <2>4
<1>6. Small(pkt, p + 16) /\ Small(pkt, p + 24)
  <2>1. p + 16 \in Nat /\ p + 24 \in Nat /\ p + 16 + 8 <= z /\ p + 24 + 8 <= z
    OBVIOUS
  <2>2. n <= InPlace /\ InPlace <= InPlace
    BY <1>3 DEF InPlace
  <2>3. Small(pkt, p + 16)
    BY <1>4, <1>5, <2>1, <2>2, SmallIs
  <2>4. Small(pkt, p + 24)
    BY <1>4, <1>5, <2>1, <2>2, SmallIs
  <2>. QED  BY <2>3, <2>4
<1>7. ByteAt(pkt, p + 16) = n
  <2>1. p + 16 \in Nat /\ p + 16 < z
    OBVIOUS
  <2>. QED  BY <1>4, <2>1, ByteAtIs
<1>8. ASSUME NEW k \in 1 .. n
      PROVE  ByteAt(pkt, p + k - 1) = t[k]
  <2>1. /\ p + k - 1 \in Nat /\ p + k - 1 < z /\ p + k - 1 + 1 = p + k /\ k \in 1 .. 32
    BY <1>3
  <2>2. ByteAt(pkt, p + k - 1) = pkt[p + k]
    BY <2>1, ByteAtIs
  <2>. QED  BY <1>1, <1>2, <2>1, <2>2
<1>9. Slice(pkt, p, n) = t
  BY <1>3, <1>8 DEF Slice
<1>. QED  BY <1>6, <1>7, <1>9 DEF Text

-----------------------------------------------------------------------------
(***************************************************************************)
(* BufferWriter, within the part of a chunk that was opened.               *)
(***************************************************************************)
\* After at most a write of the n bytes c at offset p of the open part.
Stored(bw, new, p, c, n) ==
    /\ new \in Writers /\ new.base = bw.base /\ new.size = bw.size
    /\ Holds(new.buffer, bw.base + p, c, n)
    /\ Same(bw.buffer, new.buffer, bw.base + p, bw.base + p + n)

\* The largest packet, with three buffs, fits into what is opened.
LEMMA ChunkSizeIs ==
    ChunkSize \in Nat /\ OpenSize \in Nat /\ OpenSize <= ChunkSize /\ 90 <= OpenSize
BY HandlersAssumption DEF PKT_TEST_SIZE, ItemSize

\* Store writes the bytes it is given, and nothing else.
LEMMA StoreIs ==
    ASSUME NEW bw, Within(bw), NEW p \in Nat, NEW n \in Nat, NEW c \in [1 .. n -> Byte],
           p + n <= bw.size
    PROVE  /\ Stored(bw, Store(bw, p, c), p, c, n)
           /\ Store(bw, p, c).pos = bw.pos /\ Store(bw, p, c).sound = bw.sound
<1>. DEFINE s == Store(bw, p, c)
            from == bw.base + p
<1>1. /\ ChunkSize \in Nat /\ from \in Nat /\ from + n <= ChunkSize
      /\ bw.buffer \in [1 .. ChunkSize -> Byte] /\ bw.sound \in BOOLEAN
  BY ChunkSizeIs DEF Within, Writers, Buffers
<1>2. Len(c) = n /\ Len(bw.buffer) = ChunkSize
  BY <1>1, LenIs
<1>3. s = [bw EXCEPT
             !.buffer = [i \in 1 .. ChunkSize |->
                            IF i > from /\ i <= from + n
                            THEN c[i - from] ELSE bw.buffer[i]],
             !.sound = bw.sound]
  <2>1. bw.sound = (bw.sound /\ p + Len(c) <= bw.size)
    BY <1>1, <1>2
  <2>. QED  BY <1>2, <2>1 DEF Store
<1>. HIDE DEF from, s
<1>4. [i \in 1 .. ChunkSize |->
          IF i > from /\ i <= from + n THEN c[i - from] ELSE bw.buffer[i]]
         \in Buffers
  <2>1. ASSUME NEW i \in 1 .. ChunkSize
        PROVE  (IF i > from /\ i <= from + n THEN c[i - from] ELSE bw.buffer[i]) \in Byte
    <3>1. i > from /\ i <= from + n => i - from \in 1 .. n
      BY <1>1
    <3>. QED  BY <1>1, <3>1
  <2>. QED  BY <2>1 DEF Buffers
<1>5. /\ s \in Writers /\ s.base = bw.base /\ s.size = bw.size /\ s.pos = bw.pos
      /\ s.sound = bw.sound
      /\ \A i \in 1 .. ChunkSize :
             s.buffer[i] = IF i > from /\ i <= from + n THEN c[i - from] ELSE bw.buffer[i]
  BY <1>3, <1>4 DEF Within, Writers
<1>6. Holds(s.buffer, from, c, n)
  <2>1. ASSUME NEW k \in 1 .. n
        PROVE  s.buffer[from + k] = c[k]
    <3>. DEFINE i == from + k
    <3>1. i \in 1 .. ChunkSize /\ i > from /\ i <= from + n /\ i - from = k
      BY <1>1
    <3>. HIDE DEF i
    <3>2. s.buffer[i] = c[i - from]
      BY <1>5, <3>1
    <3>. QED  BY <3>1, <3>2 DEF i
  <2>. QED  BY <2>1 DEF Holds
<1>7. Same(bw.buffer, s.buffer, from, from + n)
  BY <1>1, <1>5 DEF Same
<1>. QED  BY <1>5, <1>6, <1>7 DEF Stored, s, from

\* A write elsewhere leaves what is held.
LEMMA Kept ==
    ASSUME NEW a, NEW b, NEW p \in Nat, NEW q \in Nat, Same(a, b, p, q),
           NEW r \in Nat, NEW n \in Nat, NEW c, Holds(a, r, c, n),
           r + n <= ChunkSize, r + n <= p \/ q <= r
    PROVE  Holds(b, r, c, n)
<1>1. ASSUME NEW k \in 1 .. n
      PROVE  b[r + k] = c[k]
  <2>1. r + k \in 1 .. ChunkSize /\ (r + k <= p \/ r + k > q)
    BY ChunkSizeIs
  <2>. QED  BY <2>1 DEF Holds, Same
<1>. QED  BY <1>1 DEF Holds

\* What the operations of BufferWriter do within the open part.
LEMMA ReserveIs ==
    ASSUME NEW bw, Within(bw), NEW n \in Nat, bw.pos + n <= bw.size
    PROVE  LET s == Reserve(bw, n)
           IN  /\ Within(s) /\ s.buffer = bw.buffer /\ s.base = bw.base /\ s.size = bw.size
               /\ s.pos = bw.pos + n /\ s.sound = bw.sound
<1>1. /\ bw.sound = (bw.sound /\ bw.size - bw.pos >= n)
      /\ bw.pos + n \in Nat
  BY DEF Within, Writers
<1>2. Reserve(bw, n) = [bw EXCEPT !.pos = bw.pos + n, !.sound = bw.sound]
  BY <1>1 DEF Reserve
<1>. QED  BY <1>1, <1>2 DEF Within, Writers

LEMMA PutNumberIs ==
    ASSUME NEW bw, Within(bw), NEW v \in Nat, NEW w \in 1 .. 8, bw.pos + w <= bw.size
    PROVE  LET s == PutNumber(bw, v, w)
           IN  /\ Within(s) /\ Stored(bw, s, bw.pos, Bytes(v, w), w)
               /\ s.pos = bw.pos + w /\ s.sound = bw.sound
<1>. DEFINE s == Store(bw, bw.pos, Bytes(v, w))
<1>1. bw.pos \in Nat
  BY DEF Within, Writers
<1>2. Bytes(v, w) \in [1 .. w -> Byte]
  BY BytesAre
<1>3. /\ Stored(bw, s, bw.pos, Bytes(v, w), w)
      /\ s.pos = bw.pos /\ s.sound = bw.sound
  BY <1>1, <1>2, StoreIs
<1>4. PutNumber(bw, v, w) = [s EXCEPT !.pos = bw.pos + w]
  BY <1>3 DEF PutNumber
<1>. HIDE DEF s
<1>. QED  BY <1>1, <1>3, <1>4 DEF Stored, Within, Writers

LEMMA PutStringIs ==
    ASSUME NEW bw, Within(bw), NEW t \in Strings, bw.pos + 32 <= bw.size
    PROVE  LET s == PutString(bw, t)
           IN  /\ Within(s) /\ Stored(bw, s, bw.pos, StringBytes(t), 32)
               /\ s.pos = bw.pos + 32
               /\ s.sound = (bw.sound /\ Small(bw.buffer, bw.base + bw.pos + 24))
<1>. DEFINE s == Store(bw, bw.pos, StringBytes(t))
            ok == (bw.sound /\ Small(bw.buffer, bw.base + bw.pos + 24))
<1>1. bw.pos \in Nat /\ bw.sound \in BOOLEAN
  BY DEF Within, Writers
<1>2. StringBytes(t) \in [1 .. 32 -> Byte]
  BY StringBytesAre
<1>3. /\ Stored(bw, s, bw.pos, StringBytes(t), 32)
      /\ s.pos = bw.pos /\ s.sound = bw.sound
  BY <1>1, <1>2, StoreIs
<1>4. PutString(bw, t) = [s EXCEPT !.pos = bw.pos + 32, !.sound = ok]
  BY <1>3 DEF PutString, StringSize
<1>5. s \in Writers /\ bw.pos + 32 \in Nat
  BY <1>1, <1>3 DEF Stored
<1>. HIDE DEF s
<1>6. PICK b \in BOOLEAN : b = ok
  BY DEF Small
<1>7. PutString(bw, t) = [s EXCEPT !.pos = bw.pos + 32, !.sound = b]
  BY <1>4, <1>6
<1>8. /\ PutString(bw, t) \in Writers
      /\ PutString(bw, t).buffer = s.buffer /\ PutString(bw, t).base = s.base
      /\ PutString(bw, t).size = s.size /\ PutString(bw, t).pos = bw.pos + 32
      /\ PutString(bw, t).sound = b
  BY <1>5, <1>6, <1>7 DEF Writers
<1>. QED  BY <1>3, <1>6, <1>8 DEF Stored, Within

LEMMA FinishIs ==
    ASSUME NEW bw, Within(bw), 4 <= bw.pos, NEW id \in Nat
    PROVE  LET s == Finish(bw, id)
           IN  /\ Within(s) /\ s.base = bw.base /\ s.size = bw.size
               /\ s.pos = bw.pos /\ s.sound = bw.sound
               /\ Holds(s.buffer, bw.base, Bytes(bw.pos % 65536, 2), 2)
               /\ Holds(s.buffer, bw.base + 2, Bytes(id, 2), 2)
               /\ Same(bw.buffer, s.buffer, bw.base, bw.base + 4)
<1>. DEFINE n == Bytes(bw.pos % 65536, 2)
            i == Bytes(id, 2)
            s == Store(bw, 0, n)
            f == Store(s, 2, i)
<1>1. /\ bw.pos \in Nat /\ bw.base \in Nat /\ bw.size \in Nat /\ bw.pos % 65536 \in Nat
      /\ bw.pos <= bw.size /\ bw.base + bw.size <= ChunkSize
  BY DEF Within, Writers
<1>2. n \in [1 .. 2 -> Byte] /\ i \in [1 .. 2 -> Byte]
  BY <1>1, BytesAre
<1>. HIDE DEF n, i
<1>3. /\ Stored(bw, s, 0, n, 2) /\ s.pos = bw.pos /\ s.sound = bw.sound
  <2>1. 0 \in Nat /\ 2 \in Nat /\ 0 + 2 <= bw.size
    BY <1>1
  <2>. QED  BY <1>2, <2>1, StoreIs
<1>. HIDE DEF s
<1>4. /\ Within(s) /\ s.base = bw.base /\ s.size = bw.size
      /\ Holds(s.buffer, bw.base, n, 2)
      /\ Same(bw.buffer, s.buffer, bw.base, bw.base + 2)
  BY <1>1, <1>3 DEF Stored, Within
<1>5. /\ Stored(s, f, 2, i, 2) /\ f.pos = s.pos /\ f.sound = s.sound
  <2>1. 2 \in Nat /\ 2 + 2 <= s.size
    BY <1>1, <1>4
  <2>. QED  BY <1>2, <1>4, <2>1, StoreIs
<1>6. Finish(bw, id) = f
  BY DEF Finish, f, s, n, i
<1>. HIDE DEF f
<1>7. /\ Within(f) /\ f.base = bw.base /\ f.size = bw.size
      /\ Holds(f.buffer, bw.base + 2, i, 2)
      /\ Same(s.buffer, f.buffer, bw.base + 2, bw.base + 4)
  BY <1>1, <1>3, <1>4, <1>5 DEF Stored, Within
<1>8. Holds(f.buffer, bw.base, n, 2)
  BY <1>1, <1>4, <1>7, Kept, ChunkSizeIs
<1>9. Same(bw.buffer, f.buffer, bw.base, bw.base + 4)
  BY <1>1, <1>4, <1>7 DEF Same
<1>. QED  BY <1>3, <1>5, <1>6, <1>7, <1>8, <1>9 DEF n, i

\* Items of a list, of numbers that fit into their fields.
LEMMA ListIs ==
    ASSUME NEW l \in Lists
    PROVE  /\ l \in Seq(Items) /\ Len(l) \in Nat /\ Len(l) <= 3
           /\ \A i \in 1 .. Len(l) :
                  l[i] = <<l[i][1], l[i][2]>> /\ l[i][1] \in Uint64 /\ l[i][2] \in Uint32
<1>1. l \in Seq(Items) /\ Len(l) \in Nat /\ Len(l) <= 3
  BY DEF Lists
<1>2. \A i \in 1 .. Len(l) : l[i] \in Items
  BY <1>1
<1>3. \A i \in 1 .. Len(l) :
          l[i] = <<l[i][1], l[i][2]>> /\ l[i][1] \in Uint64 /\ l[i][2] \in Uint32
  BY <1>2 DEF Items
<1>. QED  BY <1>1, <1>3

LEMMA UintIs == Uint64 \subseteq Nat /\ Uint32 \subseteq Nat
BY DEF Uint64, Uint32

\* Item i of a list has its number in the first 8 of 12 bytes, and its time in the
\* others.
LEMMA BuffsBytesAre ==
    ASSUME NEW l \in Lists
    PROVE  /\ BuffsBytes(l) \in [1 .. 12 * Len(l) -> Byte]
           /\ \A i \in 1 .. Len(l) :
                  /\ Holds(BuffsBytes(l), 12 * (i - 1), Digits(l[i][1]), 8)
                  /\ Holds(BuffsBytes(l), 12 * (i - 1) + 8, Digits(l[i][2]), 4)
<1>. DEFINE n == Len(l)
            e(k) == LET buff == l[((k - 1) \div 12) + 1]
                        j == ((k - 1) % 12) + 1
                    IN  IF j <= 8 THEN Digits(buff[1])[j] ELSE Digits(buff[2])[j - 8]
<1>1. BuffsBytes(l) = [k \in 1 .. 12 * n |-> e(k)]
  BY DEF BuffsBytes, ItemSize
<1>2. /\ n \in Nat
      /\ \A i \in 1 .. n : l[i][1] \in Nat /\ l[i][2] \in Nat
  BY ListIs, UintIs
<1>. HIDE DEF n
<1>3. ASSUME NEW i \in 1 .. n, NEW j \in 1 .. 12
      PROVE  /\ 12 * (i - 1) + j \in 1 .. 12 * n
             /\ e(12 * (i - 1) + j) = IF j <= 8 THEN Digits(l[i][1])[j]
                                      ELSE Digits(l[i][2])[j - 8]
  <2>. DEFINE k == 12 * (i - 1) + j
  <2>1. k \in 1 .. 12 * n /\ ((k - 1) \div 12) + 1 = i /\ ((k - 1) % 12) + 1 = j
    BY <1>2
  <2>. HIDE DEF k
  <2>2. e(k) = IF j <= 8 THEN Digits(l[i][1])[j] ELSE Digits(l[i][2])[j - 8]
    BY <2>1
  <2>. QED  BY <2>1, <2>2 DEF k
<1>4. ASSUME NEW k \in 1 .. 12 * n
      PROVE  e(k) \in Byte
  <2>. DEFINE i == ((k - 1) \div 12) + 1
              j == ((k - 1) % 12) + 1
  <2>1. i \in 1 .. n /\ j \in 1 .. 12 /\ (j > 8 => j - 8 \in 1 .. 8)
    BY <1>2
  <2>2. e(k) = IF j <= 8 THEN Digits(l[i][1])[j] ELSE Digits(l[i][2])[j - 8]
    OBVIOUS
  <2>. HIDE DEF e, i, j
  <2>3. l[i][1] \in Nat /\ l[i][2] \in Nat
    BY <1>2, <2>1
  <2>. QED  BY <2>1, <2>2, <2>3, DigitsAre
<1>. HIDE DEF e
<1>5. BuffsBytes(l) \in [1 .. 12 * n -> Byte]
  BY <1>1, <1>4
<1>6. \A k \in 1 .. 12 * n : BuffsBytes(l)[k] = e(k)
  BY <1>1
<1>7. ASSUME NEW i \in 1 .. n
      PROVE  /\ Holds(BuffsBytes(l), 12 * (i - 1), Digits(l[i][1]), 8)
             /\ Holds(BuffsBytes(l), 12 * (i - 1) + 8, Digits(l[i][2]), 4)
  <2>1. ASSUME NEW j \in 1 .. 8
        PROVE  BuffsBytes(l)[12 * (i - 1) + j] = Digits(l[i][1])[j]
    <3>1. j \in 1 .. 12 /\ j <= 8
      OBVIOUS
    <3>2. 12 * (i - 1) + j \in 1 .. 12 * n /\ e(12 * (i - 1) + j) = Digits(l[i][1])[j]
      BY <1>3, <3>1
    <3>. QED  BY <1>6, <3>2
  <2>2. ASSUME NEW j \in 1 .. 4
        PROVE  BuffsBytes(l)[12 * (i - 1) + 8 + j] = Digits(l[i][2])[j]
    <3>1. /\ 8 + j \in 1 .. 12 /\ ~(8 + j <= 8) /\ 8 + j - 8 = j
          /\ 12 * (i - 1) + 8 + j = 12 * (i - 1) + (8 + j)
      OBVIOUS
    <3>2. /\ 12 * (i - 1) + (8 + j) \in 1 .. 12 * n
          /\ e(12 * (i - 1) + (8 + j)) = Digits(l[i][2])[8 + j - 8]
      BY <1>3, <3>1
    <3>. QED  BY <1>6, <3>1, <3>2
  <2>. QED  BY <2>1, <2>2 DEF Holds
<1>. QED  BY <1>5, <1>7 DEF n

LEMMA PutBuffsIs ==
    ASSUME NEW bw, Within(bw), NEW l \in Lists, bw.pos + 12 * Len(l) <= bw.size
    PROVE  LET s == PutBuffs(bw, l)
           IN  /\ Within(s) /\ Stored(bw, s, bw.pos, BuffsBytes(l), 12 * Len(l))
               /\ s.pos = bw.pos + 12 * Len(l) /\ s.sound = bw.sound
<1>. DEFINE n == 12 * Len(l)
            s == Store(bw, bw.pos, BuffsBytes(l))
<1>1. bw.pos \in Nat /\ n \in Nat
  BY ListIs DEF Within, Writers
<1>2. BuffsBytes(l) \in [1 .. n -> Byte]
  BY BuffsBytesAre
<1>3. bw.pos + n <= bw.size /\ PutBuffs(bw, l) = [s EXCEPT !.pos = @ + n]
  BY DEF PutBuffs, ItemSize
<1>. HIDE DEF n
<1>4. /\ Stored(bw, s, bw.pos, BuffsBytes(l), n)
      /\ s.pos = bw.pos /\ s.sound = bw.sound
  BY <1>1, <1>2, <1>3, StoreIs
<1>5. PutBuffs(bw, l) = [s EXCEPT !.pos = bw.pos + n]
  BY <1>3, <1>4
<1>. HIDE DEF s
<1>6. s \in Writers /\ bw.pos + n \in Nat
  BY <1>1, <1>4 DEF Stored
<1>7. /\ PutBuffs(bw, l) \in Writers
      /\ PutBuffs(bw, l).buffer = s.buffer /\ PutBuffs(bw, l).base = s.base
      /\ PutBuffs(bw, l).size = s.size /\ PutBuffs(bw, l).pos = bw.pos + n
      /\ PutBuffs(bw, l).sound = s.sound
  BY <1>5, <1>6 DEF Writers
<1>8. /\ Within(PutBuffs(bw, l)) /\ Stored(bw, PutBuffs(bw, l), bw.pos, BuffsBytes(l), n)
      /\ PutBuffs(bw, l).pos = bw.pos + n /\ PutBuffs(bw, l).sound = bw.sound
  BY <1>3, <1>4, <1>7 DEF Stored, Within
<1>. QED  BY <1>8 DEF n

\* A packet is the part of the chunk that was written.
LEMMA PacketIs ==
    ASSUME NEW bw, Within(bw)
    PROVE  /\ Packet(bw) \in [1 .. bw.pos -> Byte] /\ Packet(bw) \in Seq(Byte)
           /\ Len(Packet(bw)) = bw.pos
           /\ \A k \in 1 .. bw.pos : Packet(bw)[k] = bw.buffer[bw.base + k]
<1>. DEFINE m == bw.base + 1
            n == bw.base + bw.pos
            p == SubSeq(bw.buffer, m, n)
<1>1. /\ bw.base \in Nat /\ bw.pos \in Nat /\ bw.base + bw.pos <= ChunkSize
      /\ bw.buffer \in [1 .. ChunkSize -> Byte] /\ ChunkSize \in Nat
  BY ChunkSizeIs DEF Within, Writers, Buffers
<1>2. /\ m \in Int /\ n \in Int /\ (\A i \in m .. n : bw.buffer[i] \in Byte)
      /\ (IF m <= n THEN n - m + 1 ELSE 0) = bw.pos /\ n - m + 1 = bw.pos
  BY <1>1
<1>3. \A k \in 1 .. bw.pos : m + k - 1 = bw.base + k
  BY <1>1
<1>. HIDE DEF m, n
<1>4. /\ p \in Seq(Byte) /\ Len(p) = bw.pos
      /\ \A k \in 1 .. bw.pos : p[k] = bw.buffer[m + k - 1]
  BY <1>2, SubSeqProperties
<1>5. p \in [1 .. Len(p) -> Byte]
  BY <1>4, LenProperties
<1>. QED  BY <1>3, <1>4, <1>5 DEF Packet, m, n

\* Bytes held at an offset of the open part.
HeldIn(bw, p, c, n) == Holds(bw.buffer, bw.base + p, c, n)

\* Writer b is a with other bytes from offset p to q at most, and maybe elsewhere.
Step(a, b, p, q) ==
    /\ Within(a) /\ Within(b) /\ b.base = a.base /\ b.size = a.size
    /\ Same(a.buffer, b.buffer, a.base + p, a.base + q)

\* Types of a writer within its chunk.
LEMMA WithinIs ==
    ASSUME NEW bw, Within(bw)
    PROVE  /\ bw.base \in Nat /\ bw.size \in Nat /\ bw.pos \in Nat /\ bw.sound \in BOOLEAN
           /\ bw.pos <= bw.size /\ bw.base + bw.size <= ChunkSize
           /\ bw.buffer \in [1 .. ChunkSize -> Byte]
BY DEF Within, Writers, Buffers

\* What is held elsewhere survives a step, and steps make up one.
LEMMA StepKeeps ==
    ASSUME NEW a, NEW b, NEW p \in Nat, NEW q \in Nat, Step(a, b, p, q),
           NEW r \in Nat, NEW n \in Nat, NEW c, HeldIn(a, r, c, n),
           r + n <= a.size, r + n <= p \/ q <= r
    PROVE  HeldIn(b, r, c, n)
<1>1. /\ a.base \in Nat /\ a.size \in Nat /\ a.base + a.size <= ChunkSize
      /\ b.base = a.base
  BY WithinIs DEF Step
<1>2. /\ a.base + p \in Nat /\ a.base + q \in Nat /\ a.base + r \in Nat
      /\ a.base + r + n <= ChunkSize
      /\ (a.base + r + n <= a.base + p \/ a.base + q <= a.base + r)
  BY <1>1, ChunkSizeIs
<1>3. /\ Same(a.buffer, b.buffer, a.base + p, a.base + q)
      /\ Holds(a.buffer, a.base + r, c, n)
  BY DEF Step, HeldIn
<1>. QED  BY <1>1, <1>2, <1>3, Kept DEF HeldIn

LEMMA StepStep ==
    ASSUME NEW a, NEW b, NEW c, NEW p \in Nat, NEW q \in Nat, NEW r \in Nat, NEW s \in Nat,
           NEW t \in Nat, NEW u \in Nat,
           Step(a, b, p, q), Step(b, c, r, s), t <= p, t <= r, q <= u, s <= u
    PROVE  Step(a, c, t, u)
<1>1. a.base \in Nat
  BY WithinIs DEF Step
<1>2. Same(a.buffer, c.buffer, a.base + t, a.base + u)
  BY <1>1, ChunkSizeIs DEF Same, Step
<1>. QED  BY <1>2 DEF Step

\* A string elsewhere stays as sound as it is.
LEMMA SmallKept ==
    ASSUME NEW a, NEW b, NEW p \in Nat, NEW q \in Nat, Step(a, b, p, q),
           NEW r \in Nat, r + 8 <= a.size, r + 8 <= p \/ q <= r
    PROVE  Small(b.buffer, b.base + r) <=> Small(a.buffer, a.base + r)
<1>1. /\ a.base \in Nat /\ a.size \in Nat /\ a.base + a.size <= ChunkSize
      /\ ChunkSize \in Nat
  BY WithinIs, ChunkSizeIs DEF Step
<1>2. /\ b.base = a.base
      /\ a.buffer \in [1 .. ChunkSize -> Byte] /\ b.buffer \in [1 .. ChunkSize -> Byte]
  BY WithinIs, ChunkSizeIs DEF Step
<1>. DEFINE f == a.base + r
<1>3. f \in Nat /\ f + 8 <= ChunkSize
  BY <1>1
<1>4. \A k \in 1 .. 8 : b.buffer[f + k] = a.buffer[f + k]
  <2>1. ASSUME NEW k \in 1 .. 8
        PROVE  /\ f + k \in 1 .. ChunkSize
               /\ f + k <= a.base + p \/ f + k > a.base + q
    BY <1>1
  <2>. QED  BY <2>1 DEF Step, Same
<1>. HIDE DEF f
<1>5. /\ b.buffer[f + 1] = a.buffer[f + 1]
      /\ \A k \in 2 .. 8 : b.buffer[f + k] = a.buffer[f + k]
  <2>1. 1 \in 1 .. 8 /\ \A k \in 2 .. 8 : k \in 1 .. 8
    OBVIOUS
  <2>. QED  BY <1>4, <2>1, Zenon
<1>6. /\ Small(a.buffer, f) <=>
          a.buffer[f + 1] <= InPlace /\ \A k \in 2 .. 8 : a.buffer[f + k] = 0
      /\ Small(b.buffer, f) <=>
          b.buffer[f + 1] <= InPlace /\ \A k \in 2 .. 8 : b.buffer[f + k] = 0
  BY <1>1, <1>2, <1>3, SmallIs
<1>. QED  BY <1>2, <1>5, <1>6 DEF f

\* The same operations as steps of a writer.
LEMMA ReserveSteps ==
    ASSUME NEW a, Within(a), NEW n \in Nat, a.pos + n <= a.size
    PROVE  LET b == Reserve(a, n)
           IN  /\ Step(a, b, a.pos, a.pos + n) /\ b.pos = a.pos + n /\ b.sound = a.sound
               /\ b.buffer = a.buffer /\ b.base = a.base
BY ReserveIs DEF Step, Same

LEMMA PutNumberSteps ==
    ASSUME NEW a, Within(a), NEW v \in Nat, NEW w \in 1 .. 8, a.pos + w <= a.size
    PROVE  LET b == PutNumber(a, v, w)
           IN  /\ Step(a, b, a.pos, a.pos + w) /\ b.pos = a.pos + w /\ b.sound = a.sound
               /\ HeldIn(b, a.pos, Bytes(v, w), w)
<1>1. a.base \in Nat /\ a.pos \in Nat
  BY WithinIs
<1>2. a.base + (a.pos + w) = a.base + a.pos + w
  BY <1>1
<1>. QED  BY <1>2, PutNumberIs DEF Step, Stored, HeldIn

LEMMA PutStringSteps ==
    ASSUME NEW a, Within(a), NEW t \in Strings, a.pos + 32 <= a.size
    PROVE  LET b == PutString(a, t)
           IN  /\ Step(a, b, a.pos, a.pos + 32) /\ b.pos = a.pos + 32
               /\ b.sound = (a.sound /\ Small(a.buffer, a.base + a.pos + 24))
               /\ HeldIn(b, a.pos, StringBytes(t), 32)
<1>1. a.base \in Nat /\ a.pos \in Nat
  BY WithinIs
<1>2. a.base + (a.pos + 32) = a.base + a.pos + 32
  BY <1>1
<1>. QED  BY <1>2, PutStringIs DEF Step, Stored, HeldIn

LEMMA PutBuffsSteps ==
    ASSUME NEW a, Within(a), NEW l \in Lists, a.pos + 12 * Len(l) <= a.size
    PROVE  LET b == PutBuffs(a, l)
           IN  /\ Step(a, b, a.pos, a.pos + 12 * Len(l))
               /\ b.pos = a.pos + 12 * Len(l) /\ b.sound = a.sound
               /\ HeldIn(b, a.pos, BuffsBytes(l), 12 * Len(l))
<1>1. a.base \in Nat /\ a.pos \in Nat /\ Len(l) \in Nat
  BY WithinIs, ListIs
<1>2. a.base + (a.pos + 12 * Len(l)) = a.base + a.pos + 12 * Len(l)
  BY <1>1
<1>. QED  BY <1>2, PutBuffsIs DEF Step, Stored, HeldIn

\* A number written at an offset before the position.
LEMMA StoreSteps ==
    ASSUME NEW a, Within(a), NEW p \in Nat, NEW v \in Nat, NEW w \in 1 .. 8, p + w <= a.size
    PROVE  LET b == Store(a, p, Bytes(v, w))
           IN  /\ Step(a, b, p, p + w) /\ b.pos = a.pos /\ b.sound = a.sound
               /\ HeldIn(b, p, Bytes(v, w), w)
<1>1. a.base \in Nat /\ a.pos <= a.size /\ a.base + a.size <= ChunkSize
  BY WithinIs
<1>2. a.base + (p + w) = a.base + p + w
  BY <1>1
<1>3. Bytes(v, w) \in [1 .. w -> Byte]
  BY BytesAre
<1>4. w \in Nat
  OBVIOUS
<1>. QED  BY <1>1, <1>2, <1>3, <1>4, StoreIs DEF Step, Stored, HeldIn, Within

\* The header: size in bytes 0 and 1, id in bytes 2 and 3.
HeaderIn(bw, id) ==
    HeldIn(bw, 0, Bytes(bw.pos % 65536, 2), 2) /\ HeldIn(bw, 2, Bytes(id, 2), 2)

LEMMA FinishSteps ==
    ASSUME NEW a, Within(a), 4 <= a.pos, NEW id \in Nat
    PROVE  LET b == Finish(a, id)
           IN  /\ Step(a, b, 0, 4) /\ b.pos = a.pos /\ b.sound = a.sound
               /\ HeaderIn(b, id)
<1>1. a.base \in Nat /\ a.base + 0 = a.base
  BY WithinIs
<1>. QED  BY <1>1, FinishIs DEF Step, HeldIn, HeaderIn

-----------------------------------------------------------------------------
(***************************************************************************)
(* The makers: what the packet holds and where.                            *)
(***************************************************************************)
\* The writer of a maker, at its beginning: behind the header after the Reserve.
Start(bw) == Within(bw) /\ bw.pos = 0 /\ 90 <= bw.size

LEMMA StartIs ==
    ASSUME NEW bw, Start(bw)
    PROVE  /\ Within(bw) /\ bw.pos = 0 /\ bw.base \in Nat /\ bw.size \in Nat
           /\ 90 <= bw.size
           /\ LET a == Reserve(bw, 4)
              IN  /\ Within(a) /\ Step(bw, a, 0, 4) /\ a.pos = 4 /\ a.sound = bw.sound
                  /\ a.buffer = bw.buffer /\ a.base = bw.base /\ a.size = bw.size
<1>1. /\ Within(bw) /\ bw.pos = 0 /\ bw.base \in Nat /\ bw.size \in Nat /\ 90 <= bw.size
  BY WithinIs DEF Start
<1>2. 4 \in Nat /\ bw.pos + 4 <= bw.size /\ 0 + 4 = 4
  BY <1>1
<1>. QED  BY <1>1, <1>2, ReserveSteps DEF Step

\* Both chat packets: the text, then a number.
LEMMA ChatIs ==
    ASSUME NEW bw, Start(bw), NEW t \in Strings, NEW v \in Nat, NEW w \in {2, 8},
           NEW id \in Nat
    PROVE  LET s == Finish(PutNumber(PutString(Reserve(bw, HeaderSize), t), v, w), id)
           IN  /\ Step(bw, s, 0, 36 + w) /\ s.pos = 36 + w /\ HeaderIn(s, id)
               /\ (s.sound <=> bw.sound /\ Small(bw.buffer, bw.base + 28))
               /\ HeldIn(s, 4, StringBytes(t), 32) /\ HeldIn(s, 36, Bytes(v, w), w)
<1>. DEFINE a == Reserve(bw, 4)
            b == PutString(a, t)
            c == PutNumber(b, v, w)
            d == Finish(c, id)
<1>1. /\ bw.pos = 0 /\ bw.base \in Nat /\ bw.size \in Nat /\ 90 <= bw.size
      /\ Within(a) /\ Step(bw, a, 0, 4) /\ a.pos = 4 /\ a.sound = bw.sound
      /\ a.buffer = bw.buffer /\ a.base = bw.base /\ a.size = bw.size
  BY StartIs
<1>2. w \in 1 .. 8 /\ w \in Nat /\ 36 + w \in Nat
  OBVIOUS
<1>. HIDE DEF a
<1>3. /\ Step(a, b, 4, 36) /\ b.pos = 36
      /\ b.sound = (a.sound /\ Small(a.buffer, a.base + 4 + 24))
      /\ HeldIn(b, 4, StringBytes(t), 32)
  <2>1. a.pos + 32 <= a.size /\ 4 + 32 = 36
    BY <1>1
  <2>. QED  BY <1>1, <2>1, PutStringSteps
<1>. HIDE DEF b
<1>4. Within(b) /\ b.size = bw.size
  BY <1>1, <1>3 DEF Step
<1>5. /\ Step(b, c, 36, 36 + w) /\ c.pos = 36 + w /\ c.sound = b.sound
      /\ HeldIn(c, 36, Bytes(v, w), w)
  <2>1. b.pos + w <= b.size
    BY <1>1, <1>3, <1>4
  <2>. QED  BY <1>2, <1>3, <1>4, <2>1, PutNumberSteps
<1>. HIDE DEF c
<1>6. Within(c) /\ c.size = bw.size
  BY <1>4, <1>5 DEF Step
<1>7. /\ Step(c, d, 0, 4) /\ d.pos = 36 + w /\ d.sound = c.sound /\ HeaderIn(d, id)
  <2>1. 4 <= c.pos
    BY <1>5
  <2>. QED  BY <1>5, <1>6, <2>1, FinishSteps
<1>. HIDE DEF d
<1>8. HeldIn(d, 4, StringBytes(t), 32)
  <2>1. 4 \in Nat /\ 32 \in Nat /\ 36 \in Nat /\ 0 \in Nat /\ 4 + 32 <= 36 /\ 4 <= 4
        /\ 4 + 32 <= b.size /\ 4 + 32 <= c.size
    BY <1>1, <1>4, <1>6
  <2>2. HeldIn(c, 4, StringBytes(t), 32)
    BY <1>2, <1>3, <1>5, <2>1, StepKeeps
  <2>. QED  BY <1>7, <2>1, <2>2, StepKeeps
<1>9. HeldIn(d, 36, Bytes(v, w), w)
  <2>1. 4 \in Nat /\ 36 \in Nat /\ 0 \in Nat /\ 4 <= 36 /\ 36 + w <= c.size
    BY <1>1, <1>2, <1>6
  <2>. QED  BY <1>2, <1>5, <1>7, <2>1, StepKeeps
<1>10. Step(bw, d, 0, 36 + w)
  <2>1. /\ 0 \in Nat /\ 4 \in Nat /\ 36 \in Nat /\ 0 <= 0 /\ 0 <= 4 /\ 0 <= 36 /\ 4 <= 36
        /\ 36 <= 36 /\ 36 <= 36 + w /\ 36 + w <= 36 + w /\ 4 <= 36 + w
    BY <1>2
  <2>2. Step(bw, b, 0, 36)
    BY <1>1, <1>3, <2>1, StepStep
  <2>3. Step(bw, c, 0, 36 + w)
    BY <1>2, <1>5, <2>1, <2>2, StepStep
  <2>. QED  BY <1>2, <1>7, <2>1, <2>3, StepStep
<1>11. d.sound = (bw.sound /\ Small(bw.buffer, bw.base + 28))
  <2>1. a.base + 4 + 24 = bw.base + 28
    BY <1>1
  <2>. QED  BY <1>1, <1>3, <1>5, <1>7, <2>1
<1>. QED  BY <1>7, <1>8, <1>9, <1>10, <1>11 DEF a, b, c, d, HeaderSize

\* The packets of a login.
LEMMA Make_S_LOGINIs ==
    ASSUME NEW bw, Start(bw), NEW v \in Nat
    PROVE  LET s == Make_S_LOGIN(bw, v)
           IN  /\ Step(bw, s, 0, 12) /\ s.pos = 12 /\ HeaderIn(s, S_LOGIN)
               /\ s.sound = bw.sound /\ HeldIn(s, 4, Bytes(v, 8), 8)
<1>. DEFINE a == Reserve(bw, 4)
            b == PutNumber(a, v, 8)
            d == Finish(b, S_LOGIN)
<1>1. /\ bw.pos = 0 /\ bw.base \in Nat /\ bw.size \in Nat /\ 90 <= bw.size
      /\ Within(a) /\ Step(bw, a, 0, 4) /\ a.pos = 4 /\ a.sound = bw.sound
      /\ a.size = bw.size
  BY StartIs
<1>2. /\ 0 \in Nat /\ 4 \in Nat /\ 8 \in Nat /\ 12 \in Nat /\ 8 \in 1 .. 8 /\ 4 + 8 = 12
      /\ 4 + 8 <= bw.size /\ 0 <= 0 /\ 0 <= 4 /\ 4 <= 4 /\ 4 <= 12 /\ 12 <= 12 /\ 3 \in Nat
  BY <1>1
<1>. HIDE DEF a
<1>3. /\ Step(a, b, 4, 12) /\ b.pos = 12 /\ b.sound = a.sound
      /\ HeldIn(b, 4, Bytes(v, 8), 8)
  BY <1>1, <1>2, PutNumberSteps
<1>. HIDE DEF b
<1>4. Within(b) /\ b.size = bw.size
  BY <1>1, <1>3 DEF Step
<1>5. /\ Step(b, d, 0, 4) /\ d.pos = 12 /\ d.sound = b.sound /\ HeaderIn(d, S_LOGIN)
  BY <1>2, <1>3, <1>4, FinishSteps DEF S_LOGIN
<1>. HIDE DEF d
<1>6. HeldIn(d, 4, Bytes(v, 8), 8)
  BY <1>2, <1>3, <1>4, <1>5, StepKeeps
<1>7. Step(bw, b, 0, 12)
  BY <1>1, <1>2, <1>3, StepStep
<1>8. Step(bw, d, 0, 12)
  BY <1>2, <1>5, <1>7, StepStep
<1>. QED  BY <1>1, <1>3, <1>5, <1>6, <1>8 DEF Make_S_LOGIN, a, b, d, HeaderSize

LEMMA Make_C_LOGINIs ==
    ASSUME NEW bw, Start(bw)
    PROVE  LET s == Make_C_LOGIN(bw)
           IN  /\ Step(bw, s, 0, 4) /\ s.pos = 4 /\ HeaderIn(s, C_LOGIN)
               /\ s.sound = bw.sound
<1>. DEFINE a == Reserve(bw, 4)
            d == Finish(a, C_LOGIN)
<1>1. Within(a) /\ Step(bw, a, 0, 4) /\ a.pos = 4 /\ a.sound = bw.sound
  BY StartIs
<1>. HIDE DEF a
<1>2. 0 \in Nat /\ 4 \in Nat /\ 4 <= 4 /\ 0 <= 0
  OBVIOUS
<1>3. /\ Step(a, d, 0, 4) /\ d.pos = 4 /\ d.sound = a.sound /\ HeaderIn(d, C_LOGIN)
  BY <1>1, <1>2, FinishSteps DEF C_LOGIN
<1>. HIDE DEF d
<1>4. Step(bw, d, 0, 4)
  BY <1>1, <1>2, <1>3, StepStep
<1>. QED  BY <1>1, <1>3, <1>4 DEF Make_C_LOGIN, a, d, HeaderSize

\* The fields of a test packet.
TestIn(s, id, hp, attack, l, t) ==
    /\ HeldIn(s, 4, Bytes(id, 8), 8) /\ HeldIn(s, 12, Bytes(hp, 4), 4)
    /\ HeldIn(s, 16, Bytes(attack, 2), 2) /\ HeldIn(s, 18, StringBytes(t), 32)
    /\ HeldIn(s, 50, Bytes(54, 2), 2) /\ HeldIn(s, 52, Bytes(Len(l), 2), 2)
    /\ HeldIn(s, 54, BuffsBytes(l), 12 * Len(l))

\* Both test packets.
LEMMA TestIs ==
    ASSUME NEW bw, Start(bw), NEW id \in Nat, NEW hp \in Nat, NEW attack \in Nat,
           NEW l \in Lists, NEW t \in Strings, NEW kind \in Nat
    PROVE  LET s == Finish(MakeTest(bw, id, hp, attack, l, t), kind)
               z == 54 + 12 * Len(l)
           IN  /\ Step(bw, s, 0, z) /\ s.pos = z /\ HeaderIn(s, kind)
               /\ s.sound = (bw.sound /\ Small(bw.buffer, bw.base + 42))
               /\ TestIn(s, id, hp, attack, l, t)
<1>. DEFINE n == Len(l)
            z == 54 + 12 * n
            a == Reserve(bw, 4)
            b == PutNumber(a, id, 8)
            c == PutNumber(b, hp, 4)
            d == PutNumber(c, attack, 2)
            e == PutString(d, t)
            f == Reserve(e, 4)
            g == Store(f, e.pos, Bytes(f.pos, 2))
            h == Store(g, e.pos + 2, Bytes(n, 2))
            i == PutBuffs(h, l)
            j == Finish(i, kind)
<1>1. Finish(MakeTest(bw, id, hp, attack, l, t), kind) = j
  BY DEF MakeTest, HeaderSize
<1>2. n \in Nat /\ n <= 3
  <2>. HIDE DEF a, b, c, d, e, f, g, h, i, j
  <2>. QED  BY ListIs
<1>. HIDE DEF n
<1>3. /\ bw.pos = 0 /\ bw.base \in Nat /\ bw.size \in Nat /\ 90 <= bw.size
      /\ Within(a) /\ Step(bw, a, 0, 4) /\ a.pos = 4 /\ a.sound = bw.sound
      /\ a.size = bw.size
  BY StartIs
<1>4. /\ 0 \in Nat /\ 2 \in Nat /\ 4 \in Nat /\ 8 \in Nat /\ 12 \in Nat /\ 16 \in Nat
      /\ 18 \in Nat /\ 32 \in Nat /\ 50 \in Nat /\ 52 \in Nat /\ 54 \in Nat /\ z \in Nat
      /\ 12 * n \in Nat
      /\ 2 \in 1 .. 8 /\ 4 \in 1 .. 8 /\ 8 \in 1 .. 8
      /\ 4 + 8 = 12 /\ 12 + 4 = 16 /\ 16 + 2 = 18 /\ 18 + 32 = 50 /\ 50 + 4 = 54
      /\ 50 + 2 = 52 /\ 52 + 2 = 54
      /\ z <= bw.size /\ 54 <= z /\ z <= z
  BY <1>2, <1>3
<1>. HIDE DEF a
<1>5. /\ Step(a, b, 4, 12) /\ b.pos = 12 /\ b.sound = a.sound
      /\ HeldIn(b, 4, Bytes(id, 8), 8)
  <2>1. 4 + 8 <= a.size
    BY <1>3
  <2>. QED  BY <1>3, <1>4, <2>1, PutNumberSteps
<1>. HIDE DEF b
<1>6. Within(b) /\ b.size = bw.size
  BY <1>3, <1>5 DEF Step
<1>7. /\ Step(b, c, 12, 16) /\ c.pos = 16 /\ c.sound = b.sound
      /\ HeldIn(c, 12, Bytes(hp, 4), 4)
  <2>1. 12 + 4 <= b.size
    BY <1>3, <1>6
  <2>. QED  BY <1>4, <1>5, <1>6, <2>1, PutNumberSteps
<1>. HIDE DEF c
<1>8. Within(c) /\ c.size = bw.size
  BY <1>6, <1>7 DEF Step
<1>9. /\ Step(c, d, 16, 18) /\ d.pos = 18 /\ d.sound = c.sound
      /\ HeldIn(d, 16, Bytes(attack, 2), 2)
  <2>1. 16 + 2 <= c.size
    BY <1>3, <1>8
  <2>. QED  BY <1>4, <1>7, <1>8, <2>1, PutNumberSteps
<1>. HIDE DEF d
<1>10. Within(d) /\ d.size = bw.size
  BY <1>8, <1>9 DEF Step
<1>11. /\ Step(d, e, 18, 50) /\ e.pos = 50
       /\ e.sound = (d.sound /\ Small(d.buffer, d.base + 18 + 24))
       /\ HeldIn(e, 18, StringBytes(t), 32)
  <2>1. 18 + 32 <= d.size
    BY <1>3, <1>10
  <2>. QED  BY <1>4, <1>9, <1>10, <2>1, PutStringSteps
<1>. HIDE DEF e
<1>12. Within(e) /\ e.size = bw.size
  BY <1>10, <1>11 DEF Step
<1>13. Step(e, f, 50, 54) /\ f.pos = 54 /\ f.sound = e.sound
  <2>1. 50 + 4 <= e.size
    BY <1>3, <1>12
  <2>. QED  BY <1>4, <1>11, <1>12, <2>1, ReserveSteps
<1>. HIDE DEF f
<1>14. Within(f) /\ f.size = bw.size
  BY <1>12, <1>13 DEF Step
<1>15. /\ Step(f, g, 50, 52) /\ g.pos = 54 /\ g.sound = f.sound
       /\ HeldIn(g, 50, Bytes(54, 2), 2)
  <2>1. 50 + 2 <= f.size
    BY <1>3, <1>14
  <2>2. g = Store(f, 50, Bytes(54, 2))
    BY <1>11, <1>13
  <2>. QED  BY <1>4, <1>13, <1>14, <2>1, <2>2, StoreSteps
<1>. HIDE DEF g
<1>16. Within(g) /\ g.size = bw.size
  BY <1>14, <1>15 DEF Step
<1>17. /\ Step(g, h, 52, 54) /\ h.pos = 54 /\ h.sound = g.sound
       /\ HeldIn(h, 52, Bytes(n, 2), 2)
  <2>1. 52 + 2 <= g.size
    BY <1>3, <1>16
  <2>2. h = Store(g, 52, Bytes(n, 2))
    BY <1>4, <1>11
  <2>. QED  BY <1>2, <1>4, <1>15, <1>16, <2>1, <2>2, StoreSteps
<1>. HIDE DEF h
<1>18. Within(h) /\ h.size = bw.size
  BY <1>16, <1>17 DEF Step
<1>19. /\ Step(h, i, 54, z) /\ i.pos = z /\ i.sound = h.sound
       /\ HeldIn(i, 54, BuffsBytes(l), 12 * n)
  <2>1. h.pos + 12 * n <= h.size
    BY <1>4, <1>17, <1>18
  <2>2. LET x == PutBuffs(h, l)
        IN  /\ Step(h, x, h.pos, h.pos + 12 * n) /\ x.pos = h.pos + 12 * n
            /\ x.sound = h.sound /\ HeldIn(x, h.pos, BuffsBytes(l), 12 * n)
    BY <1>18, <2>1, PutBuffsSteps DEF n
  <2>. QED  BY <1>17, <2>2
<1>. HIDE DEF i
<1>20. Within(i) /\ i.size = bw.size
  BY <1>18, <1>19 DEF Step
<1>21. Step(i, j, 0, 4) /\ j.pos = z /\ j.sound = i.sound /\ HeaderIn(j, kind)
  <2>1. 4 <= i.pos
    BY <1>2, <1>19
  <2>. QED  BY <1>19, <1>20, <2>1, FinishSteps
<1>. HIDE DEF j, z
<1>22. /\ Step(g, i, 52, z) /\ Step(f, i, 50, z) /\ Step(e, i, 50, z) /\ Step(d, i, 18, z)
       /\ Step(c, i, 16, z) /\ Step(b, i, 12, z) /\ Step(a, i, 4, z) /\ Step(bw, i, 0, z)
  <2>1. /\ 52 <= z /\ 50 <= z /\ 18 <= z /\ 16 <= z /\ 12 <= z /\ 4 <= z
        /\ 52 <= 52 /\ 52 <= 54 /\ 50 <= 50 /\ 50 <= 52 /\ 18 <= 18 /\ 18 <= 50
        /\ 16 <= 16 /\ 16 <= 18 /\ 12 <= 12 /\ 12 <= 16 /\ 4 <= 4 /\ 4 <= 12 /\ 0 <= 0
        /\ 0 <= 4
    BY <1>4
  <2>2. Step(g, i, 52, z)
    BY <1>4, <1>17, <1>19, <2>1, StepStep
  <2>3. Step(f, i, 50, z)
    BY <1>4, <1>15, <2>1, <2>2, StepStep
  <2>4. Step(e, i, 50, z)
    BY <1>4, <1>13, <2>1, <2>3, StepStep
  <2>5. Step(d, i, 18, z)
    BY <1>4, <1>11, <2>1, <2>4, StepStep
  <2>6. Step(c, i, 16, z)
    BY <1>4, <1>9, <2>1, <2>5, StepStep
  <2>7. Step(b, i, 12, z)
    BY <1>4, <1>7, <2>1, <2>6, StepStep
  <2>8. Step(a, i, 4, z)
    BY <1>4, <1>5, <2>1, <2>7, StepStep
  <2>9. Step(bw, i, 0, z)
    BY <1>3, <1>4, <2>1, <2>8, StepStep
  <2>. QED  BY <2>2, <2>3, <2>4, <2>5, <2>6, <2>7, <2>8, <2>9
<1>23. Step(bw, j, 0, z)
  <2>1. 0 <= 0 /\ 4 <= z
    BY <1>4
  <2>. QED  BY <1>4, <1>21, <1>22, <2>1, StepStep
<1>24. ASSUME NEW x, NEW p \in Nat, NEW r \in Nat, NEW m \in Nat, NEW y,
              Step(x, i, p, z), HeldIn(x, r, y, m), r + m <= p, 4 <= r, p <= z
       PROVE  HeldIn(j, r, y, m)
  <2>1. r + m <= x.size /\ r + m <= i.size
    <3>1. r + m <= bw.size
      BY <1>3, <1>4, <1>24
    <3>2. x.size = i.size
      BY <1>24 DEF Step
    <3>. QED  BY <1>20, <3>1, <3>2
  <2>2. HeldIn(i, r, y, m)
    BY <1>4, <1>24, <2>1, StepKeeps
  <2>. QED  BY <1>4, <1>21, <1>24, <2>1, <2>2, StepKeeps
<1>25. TestIn(j, id, hp, attack, l, t)
  <2>1. /\ 12 <= z /\ 16 <= z /\ 18 <= z /\ 50 <= z /\ 52 <= z
        /\ 4 + 8 <= 12 /\ 12 + 4 <= 16 /\ 16 + 2 <= 18 /\ 18 + 32 <= 50 /\ 50 + 2 <= 52
        /\ 52 + 2 <= 54 /\ 4 <= 4 /\ 4 <= 12 /\ 4 <= 16 /\ 4 <= 18 /\ 4 <= 50 /\ 4 <= 52
    BY <1>4
  <2>2. HeldIn(j, 4, Bytes(id, 8), 8)
    BY <1>4, <1>5, <1>22, <1>24, <2>1
  <2>3. HeldIn(j, 12, Bytes(hp, 4), 4)
    BY <1>4, <1>7, <1>22, <1>24, <2>1
  <2>4. HeldIn(j, 16, Bytes(attack, 2), 2)
    BY <1>4, <1>9, <1>22, <1>24, <2>1
  <2>5. HeldIn(j, 18, StringBytes(t), 32)
    BY <1>4, <1>11, <1>22, <1>24, <2>1
  <2>6. HeldIn(j, 50, Bytes(54, 2), 2)
    BY <1>4, <1>15, <1>22, <1>24, <2>1
  <2>7. HeldIn(j, 52, Bytes(n, 2), 2)
    BY <1>4, <1>17, <1>19, <1>24, <2>1
  <2>8. HeldIn(j, 54, BuffsBytes(l), 12 * n)
    <3>1. 54 + 12 * n <= i.size /\ 4 <= 54
      BY <1>4, <1>20 DEF z
    <3>. QED  BY <1>4, <1>19, <1>21, <3>1, StepKeeps
  <2>. QED  BY <2>2, <2>3, <2>4, <2>5, <2>6, <2>7, <2>8 DEF TestIn, n
<1>26. j.sound = (bw.sound /\ Small(bw.buffer, bw.base + 42))
  <2>1. /\ 0 <= 0 /\ 0 <= 4 /\ 0 <= 12 /\ 0 <= 16 /\ 4 <= 12 /\ 12 <= 12 /\ 12 <= 16
        /\ 16 <= 16 /\ 16 <= 18 /\ 18 <= 18
    OBVIOUS
  <2>2. Step(bw, b, 0, 12)
    BY <1>3, <1>4, <1>5, <2>1, StepStep
  <2>3. Step(bw, c, 0, 16)
    BY <1>4, <1>7, <2>1, <2>2, StepStep
  <2>4. Step(bw, d, 0, 18)
    BY <1>4, <1>9, <2>1, <2>3, StepStep
  <2>5. Small(d.buffer, d.base + 42) <=> Small(bw.buffer, bw.base + 42)
    <3>1. 42 \in Nat /\ 42 + 8 <= bw.size /\ 18 <= 42
      BY <1>3
    <3>. QED  BY <1>4, <2>4, <3>1, SmallKept
  <2>6. d.base + 18 + 24 = d.base + 42
    BY <1>3, <2>4 DEF Step
  <2>. QED  BY <1>3, <1>5, <1>7, <1>9, <1>11, <1>13, <1>15, <1>17, <1>19, <1>21, <2>5, <2>6
<1>. QED  BY <1>1, <1>21, <1>23, <1>25, <1>26 DEF z, n

-----------------------------------------------------------------------------
(***************************************************************************)
(* The readers: a packet holds what the struct on the other side looks for.*)
(***************************************************************************)
\* What a field of 16 bits keeps of a number.
Low(v) == v % 65536

\* Whoever reads the packet finds what it was made of.
Readable(m) ==
    LET made == m.made
    IN  /\ Header(m.pkt) = [size |-> Len(m.pkt), id |-> made.kind]
        /\ made.kind = C_LOGIN => made = [Blank EXCEPT !.kind = C_LOGIN]
        /\ made.kind = S_LOGIN =>
               made = [Blank EXCEPT !.kind = S_LOGIN, !.id = PKT_S_LOGIN(m.pkt).id]
        /\ made.kind = C_CHAT =>
               made = [Blank EXCEPT !.kind = C_CHAT, !.text = PKT_C_CHAT(m.pkt).msg]
        /\ made.kind = S_CHAT =>
               /\ made = [Blank EXCEPT !.kind = S_CHAT, !.id = made.id,
                                        !.text = PKT_S_CHAT(m.pkt).msg]
               /\ PKT_S_CHAT(m.pkt).id = Low(made.id)
        /\ made.kind \in {S_TEST, C_TEST} => TestShown(m, made.kind) = made

\* Packets on their way.
Messages == {m \in [pkt : Seq(Byte), made : Made] : Readable(m)}

\* Types of what packets are made of.
LEMMA BlankIs == Blank \in Made /\ Blank.kind = 0
<1>1. 0 \in Uint64 /\ 0 \in Uint32 /\ 0 \in Uint16
  BY DEF Uint64, Uint32, Uint16
<1>2. <<>> \in Strings
  <2>1. <<>> \in Seq(Byte) /\ Len(<<>>) = 0
    OBVIOUS
  <2>. QED  BY <2>1 DEF Strings, InPlace
<1>3. <<>> \in Lists
  <2>1. <<>> \in Seq(Items) /\ Len(<<>>) = 0
    OBVIOUS
  <2>. QED  BY <2>1 DEF Lists
<1>. QED  BY <1>1, <1>2, <1>3 DEF Made, Blank

LEMMA KindsAre ==
    /\ C_LOGIN \in Uint16 /\ S_LOGIN \in Uint16 /\ C_CHAT \in Uint16 /\ S_CHAT \in Uint16
    /\ C_TEST \in Uint16 /\ S_TEST \in Uint16
BY SMT DEF C_LOGIN, S_LOGIN, C_CHAT, S_CHAT, C_TEST, S_TEST, Uint16

LEMMA SizesAre ==
    /\ \A z \in Nat : z <= 90 => z \in Uint16
    /\ Uint16 \subseteq Nat
BY SMT DEF Uint16

LEMMA MadeIs ==
    ASSUME NEW b \in Made
    PROVE  /\ \A k \in Nat :
                  [b EXCEPT !.kind = k] \in Made /\ [b EXCEPT !.kind = k].kind = k
           /\ \A i \in Uint64 : /\ [b EXCEPT !.id = i] \in Made
                                /\ [b EXCEPT !.id = i].kind = b.kind
                                /\ [b EXCEPT !.id = i].id = i
           /\ \A t \in Strings : /\ [b EXCEPT !.text = t] \in Made
                                 /\ [b EXCEPT !.text = t].kind = b.kind
                                 /\ [b EXCEPT !.text = t].id = b.id
BY DEF Made

LEMMA BlanksMade ==
    ASSUME NEW k \in Uint16
    PROVE  /\ [Blank EXCEPT !.kind = k] \in Made /\ [Blank EXCEPT !.kind = k].kind = k
           /\ \A i \in Uint64 :
                  /\ [Blank EXCEPT !.kind = k, !.id = i] \in Made
                  /\ [Blank EXCEPT !.kind = k, !.id = i].kind = k
           /\ \A t \in Strings :
                  /\ [Blank EXCEPT !.kind = k, !.text = t] \in Made
                  /\ [Blank EXCEPT !.kind = k, !.text = t].kind = k
           /\ \A i \in Uint64, t \in Strings :
                  /\ [Blank EXCEPT !.kind = k, !.id = i, !.text = t] \in Made
                  /\ [Blank EXCEPT !.kind = k, !.id = i, !.text = t].kind = k
                  /\ [Blank EXCEPT !.kind = k, !.id = i, !.text = t].id = i
<1>. DEFINE b == [Blank EXCEPT !.kind = k]
            c(i) == [b EXCEPT !.id = i]
<1>1. b \in Made /\ b.kind = k
  BY SizesAre, BlankIs, MadeIs
<1>. HIDE DEF b
<1>2. ASSUME NEW i \in Uint64
      PROVE  c(i) \in Made /\ c(i).kind = k /\ c(i).id = i
  BY <1>1, MadeIs
<1>3. ASSUME NEW t \in Strings
      PROVE  [b EXCEPT !.text = t] \in Made /\ [b EXCEPT !.text = t].kind = k
  BY <1>1, MadeIs
<1>4. ASSUME NEW i \in Uint64, NEW t \in Strings
      PROVE  /\ [c(i) EXCEPT !.text = t] \in Made /\ [c(i) EXCEPT !.text = t].kind = k
             /\ [c(i) EXCEPT !.text = t].id = i
  <2>. DEFINE d == c(i)
  <2>1. d \in Made /\ d.kind = k /\ d.id = i
    BY <1>2
  <2>. HIDE DEF d
  <2>2. /\ [d EXCEPT !.text = t] \in Made /\ [d EXCEPT !.text = t].kind = k
        /\ [d EXCEPT !.text = t].id = i
    BY <2>1, MadeIs
  <2>. QED  BY <2>2 DEF d
<1>. QED  BY <1>1, <1>2, <1>3, <1>4, Zenon DEF b

LEMMA TextMade ==
    ASSUME NEW k \in Uint16, NEW i \in Uint64, NEW t \in Strings
    PROVE  LET m == [Blank EXCEPT !.kind = k, !.id = i, !.text = t]
           IN  m \in Made /\ m.kind = k /\ m.id = i
<1>. DEFINE b == [Blank EXCEPT !.kind = k]
            c == [b EXCEPT !.id = i]
<1>1. b \in Made /\ b.kind = k
  BY SizesAre, BlankIs, MadeIs
<1>. HIDE DEF b
<1>2. c \in Made /\ c.kind = k /\ c.id = i
  BY <1>1, MadeIs
<1>. HIDE DEF c
<1>3. LET m == [c EXCEPT !.text = t] IN m \in Made /\ m.kind = k /\ m.id = i
  BY <1>2, MadeIs
<1>. QED  BY <1>3 DEF b, c

\* A packet holds what its writer does, and parts of it.
LEMMA PacketHolds ==
    ASSUME NEW s, Within(s), NEW p \in Nat, NEW n \in Nat, NEW c, HeldIn(s, p, c, n),
           p + n <= s.pos
    PROVE  Holds(Packet(s), p, c, n)
<1>1. s.pos \in Nat /\ s.base \in Nat
  BY WithinIs
<1>2. ASSUME NEW k \in 1 .. n
      PROVE  Packet(s)[p + k] = c[k]
  <2>1. p + k \in 1 .. s.pos /\ s.base + (p + k) = s.base + p + k
    BY <1>1
  <2>2. Packet(s)[p + k] = s.buffer[s.base + (p + k)]
    BY <2>1, PacketIs
  <2>3. s.buffer[s.base + p + k] = c[k]
    BY DEF HeldIn, Holds
  <2>. QED  BY <2>1, <2>2, <2>3
<1>. QED  BY <1>2 DEF Holds

LEMMA HoldsHolds ==
    ASSUME NEW b, NEW p \in Nat, NEW c, NEW n \in Nat, Holds(b, p, c, n),
           NEW q \in Nat, NEW d, NEW m \in Nat, Holds(c, q, d, m), q + m <= n
    PROVE  Holds(b, p + q, d, m)
<1>1. ASSUME NEW k \in 1 .. m
      PROVE  b[p + q + k] = d[k]
  <2>1. q + k \in 1 .. n /\ p + q + k = p + (q + k)
    OBVIOUS
  <2>2. b[p + (q + k)] = c[q + k]
    BY <2>1 DEF Holds
  <2>3. c[q + k] = d[k]
    BY DEF Holds
  <2>. QED  BY <2>1, <2>2, <2>3
<1>. QED  BY <1>1 DEF Holds

\* One lemma per width, so that its users need no powers of 2.
LEMMA ShortHeld ==
    ASSUME NEW z \in Nat, NEW pkt \in [1 .. z -> Byte], NEW p \in Nat, p + 2 <= z,
           NEW v \in Uint16, Holds(pkt, p, Bytes(v, 2), 2)
    PROVE  Number(pkt, p, 2) = v
<1>1. v \in Nat /\ v % 65536 = v
  BY SMT DEF Uint16
<1>2. Number(pkt, p, 2) = v % 65536
  BY <1>1, NumbersHeld, SMT
<1>. QED  BY <1>1, <1>2, SMT

LEMMA WordHeld ==
    ASSUME NEW z \in Nat, NEW pkt \in [1 .. z -> Byte], NEW p \in Nat, p + 4 <= z,
           NEW v \in Uint32, Holds(pkt, p, Bytes(v, 4), 4)
    PROVE  Number(pkt, p, 4) = v
BY UintIs, NumbersHeld, SMT

LEMMA LongHeld ==
    ASSUME NEW z \in Nat, NEW pkt \in [1 .. z -> Byte], NEW p \in Nat, p + 8 <= z,
           NEW v \in Uint64, Holds(pkt, p, Bytes(v, 8), 8)
    PROVE  Number(pkt, p, 8) = v
BY UintIs, NumbersHeld, SMT

LEMMA LowHeld ==
    ASSUME NEW z \in Nat, NEW pkt \in [1 .. z -> Byte], NEW p \in Nat, p + 2 <= z,
           NEW v \in Nat, Holds(pkt, p, Bytes(v, 2), 2)
    PROVE  Number(pkt, p, 2) = Low(v)
BY NumbersHeld, SMT DEF Low

LEMMA ShortIs ==
    ASSUME NEW v \in Uint16
    PROVE  v \in Nat /\ v % 65536 = v
BY SMT DEF Uint16

\* Header finds the size and the kind of the packet.
LEMMA HeaderRead ==
    ASSUME NEW s, Within(s), 4 <= s.pos, s.pos \in Uint16, NEW id \in Uint16,
           HeaderIn(s, id)
    PROVE  Header(Packet(s)) = [size |-> Len(Packet(s)), id |-> id]
<1>. DEFINE p == Packet(s)
            z == s.pos
<1>1. z \in Nat /\ z \in Uint16 /\ 4 <= z
  BY ShortIs
<1>2. p \in [1 .. z -> Byte] /\ Len(p) = z
  BY PacketIs
<1>3. HeldIn(s, 0, Bytes(z, 2), 2) /\ HeldIn(s, 2, Bytes(id, 2), 2)
  <2>1. HeldIn(s, 0, Bytes(s.pos % 65536, 2), 2) /\ HeldIn(s, 2, Bytes(id, 2), 2)
    BY SMT DEF HeaderIn
  <2>. QED  BY <1>1, <2>1, ShortIs, SMT
<1>4. 0 \in Nat /\ 2 \in Nat /\ 0 + 2 <= z /\ 2 + 2 <= z
  BY <1>1
<1>5. Holds(p, 0, Bytes(z, 2), 2) /\ Holds(p, 2, Bytes(id, 2), 2)
  BY <1>3, <1>4, PacketHolds
<1>. HIDE DEF p, z
<1>6. Number(p, 0, 2) = z /\ Number(p, 2, 2) = id
  BY <1>1, <1>2, <1>4, <1>5, ShortHeld
<1>7. Header(p) = [size |-> Len(p), id |-> id]
  BY <1>2, <1>6 DEF Header
<1>. QED  BY <1>7 DEF p

\* What the reader of a packet finds where the maker wrote.
LEMMA ShortRead ==
    ASSUME NEW s, Within(s), NEW p \in Nat, p + 2 <= s.pos, NEW v \in Uint16,
           HeldIn(s, p, Bytes(v, 2), 2)
    PROVE  Number(Packet(s), p, 2) = v
<1>1. s.pos \in Nat /\ Packet(s) \in [1 .. s.pos -> Byte] /\ 2 \in Nat
  BY WithinIs, PacketIs
<1>2. Holds(Packet(s), p, Bytes(v, 2), 2)
  BY <1>1, PacketHolds
<1>. QED  BY <1>1, <1>2, ShortHeld

LEMMA LowRead ==
    ASSUME NEW s, Within(s), NEW p \in Nat, p + 2 <= s.pos, NEW v \in Nat,
           HeldIn(s, p, Bytes(v, 2), 2)
    PROVE  Number(Packet(s), p, 2) = Low(v)
<1>1. s.pos \in Nat /\ Packet(s) \in [1 .. s.pos -> Byte] /\ 2 \in Nat
  BY WithinIs, PacketIs
<1>2. Holds(Packet(s), p, Bytes(v, 2), 2)
  BY <1>1, PacketHolds
<1>. QED  BY <1>1, <1>2, LowHeld

LEMMA WordRead ==
    ASSUME NEW s, Within(s), NEW p \in Nat, p + 4 <= s.pos, NEW v \in Uint32,
           HeldIn(s, p, Bytes(v, 4), 4)
    PROVE  Number(Packet(s), p, 4) = v
<1>1. s.pos \in Nat /\ Packet(s) \in [1 .. s.pos -> Byte] /\ 4 \in Nat
  BY WithinIs, PacketIs
<1>2. Holds(Packet(s), p, Bytes(v, 4), 4)
  BY <1>1, PacketHolds
<1>. QED  BY <1>1, <1>2, WordHeld

LEMMA LongRead ==
    ASSUME NEW s, Within(s), NEW p \in Nat, p + 8 <= s.pos, NEW v \in Uint64,
           HeldIn(s, p, Bytes(v, 8), 8)
    PROVE  Number(Packet(s), p, 8) = v
<1>1. s.pos \in Nat /\ Packet(s) \in [1 .. s.pos -> Byte] /\ 8 \in Nat
  BY WithinIs, PacketIs
<1>2. Holds(Packet(s), p, Bytes(v, 8), 8)
  BY <1>1, PacketHolds
<1>. QED  BY <1>1, <1>2, LongHeld

LEMMA TextRead ==
    ASSUME NEW s, Within(s), NEW p \in Nat, p + 32 <= s.pos, NEW v \in Strings,
           HeldIn(s, p, StringBytes(v), 32)
    PROVE  Text(Packet(s), p) = v
<1>1. s.pos \in Nat /\ Packet(s) \in [1 .. s.pos -> Byte] /\ 32 \in Nat
  BY WithinIs, PacketIs
<1>2. Holds(Packet(s), p, StringBytes(v), 32)
  BY <1>1, PacketHolds
<1>. QED  BY <1>1, <1>2, TextHeld

\* The ids of the packets differ.
LEMMA KindsDiffer ==
    /\ C_LOGIN = 4 /\ S_LOGIN = 3 /\ C_CHAT = 6 /\ S_CHAT = 5 /\ S_TEST = 1 /\ C_TEST = 2
BY DEF C_LOGIN, S_LOGIN, C_CHAT, S_CHAT, C_TEST, S_TEST

\* A packet is readable when the handler of its kind finds what it was made of.
LEMMA SentIs ==
    ASSUME NEW pkt \in Seq(Byte), NEW made \in Made,
           Header(pkt) = [size |-> Len(pkt), id |-> made.kind],
           \/ made = [Blank EXCEPT !.kind = C_LOGIN]
           \/ made = [Blank EXCEPT !.kind = S_LOGIN, !.id = PKT_S_LOGIN(pkt).id]
           \/ made = [Blank EXCEPT !.kind = C_CHAT, !.text = PKT_C_CHAT(pkt).msg]
           \/ /\ made = [Blank EXCEPT !.kind = S_CHAT, !.id = made.id,
                                       !.text = PKT_S_CHAT(pkt).msg]
              /\ PKT_S_CHAT(pkt).id = Low(made.id)
           \/ /\ made.kind \in {S_TEST, C_TEST}
              /\ TestShown([pkt |-> pkt, made |-> made], made.kind) = made
    PROVE  Sent(pkt, made) \in Messages
<1>. DEFINE m == [pkt |-> pkt, made |-> made]
<1>1. m \in [pkt : Seq(Byte), made : Made] /\ m.pkt = pkt /\ m.made = made
  OBVIOUS
<1>. HIDE DEF m
<1>2. Readable(m)
  <2>1. CASE made = [Blank EXCEPT !.kind = C_LOGIN]
    <3>1. made.kind = 4
      BY <2>1, KindsDiffer DEF Blank
    <3>. QED  BY <1>1, <2>1, <3>1, KindsDiffer DEF Readable
  <2>2. CASE made = [Blank EXCEPT !.kind = S_LOGIN, !.id = PKT_S_LOGIN(pkt).id]
    <3>1. made.kind = 3
      BY <2>2, KindsDiffer DEF Blank
    <3>. QED  BY <1>1, <2>2, <3>1, KindsDiffer DEF Readable
  <2>3. CASE made = [Blank EXCEPT !.kind = C_CHAT, !.text = PKT_C_CHAT(pkt).msg]
    <3>1. made.kind = 6
      BY <2>3, KindsDiffer DEF Blank
    <3>. QED  BY <1>1, <2>3, <3>1, KindsDiffer DEF Readable
  <2>4. CASE /\ made = [Blank EXCEPT !.kind = S_CHAT, !.id = made.id,
                                     !.text = PKT_S_CHAT(pkt).msg]
             /\ PKT_S_CHAT(pkt).id = Low(made.id)
    <3>1. made.kind = 5
      BY <2>4, KindsDiffer DEF Blank
    <3>. QED  BY <1>1, <2>4, <3>1, KindsDiffer DEF Readable
  <2>5. CASE /\ made.kind \in {S_TEST, C_TEST}
             /\ TestShown([pkt |-> pkt, made |-> made], made.kind) = made
    <3>1. TestShown(m, made.kind) = made
      BY <2>5 DEF m
    <3>. QED  BY <1>1, <2>5, <3>1, KindsDiffer DEF Readable
  <2>. QED  BY <2>1, <2>2, <2>3, <2>4, <2>5
<1>. QED  BY <1>1, <1>2 DEF Messages, Sent, m

\* The packet of every maker is readable by the struct of the other program.
LEMMA C_LOGINSent ==
    ASSUME NEW bw, Start(bw)
    PROVE  Sent(Packet(Make_C_LOGIN(bw)), [Blank EXCEPT !.kind = C_LOGIN]) \in Messages
<1>. DEFINE s == Make_C_LOGIN(bw)
            made == [Blank EXCEPT !.kind = C_LOGIN]
<1>1. Within(s) /\ s.pos = 4 /\ HeaderIn(s, C_LOGIN) /\ s.pos \in Uint16
  BY Make_C_LOGINIs, SizesAre DEF Step
<1>2. made \in Made /\ made.kind = C_LOGIN /\ C_LOGIN \in Uint16
  BY KindsAre, BlanksMade, Zenon
<1>. HIDE DEF s
<1>3. Packet(s) \in Seq(Byte)
  BY <1>1, PacketIs
<1>4. Header(Packet(s)) = [size |-> Len(Packet(s)), id |-> C_LOGIN]
  BY <1>1, <1>2, HeaderRead
<1>. QED  BY <1>2, <1>3, <1>4, SentIs DEF s

LEMMA S_LOGINSent ==
    ASSUME NEW bw, Start(bw), NEW id \in Uint64
    PROVE  Sent(Packet(Make_S_LOGIN(bw, id)), [Blank EXCEPT !.kind = S_LOGIN, !.id = id])
               \in Messages
<1>. DEFINE s == Make_S_LOGIN(bw, id)
            made == [Blank EXCEPT !.kind = S_LOGIN, !.id = id]
<1>1. id \in Nat
  BY UintIs
<1>2. /\ Within(s) /\ s.pos = 12 /\ HeaderIn(s, S_LOGIN) /\ s.pos \in Uint16
      /\ HeldIn(s, 4, Bytes(id, 8), 8)
  BY <1>1, Make_S_LOGINIs, SizesAre DEF Step
<1>3. made \in Made /\ made.kind = S_LOGIN /\ S_LOGIN \in Uint16
  BY KindsAre, BlanksMade, Zenon
<1>. HIDE DEF s
<1>4. Packet(s) \in Seq(Byte) 
  BY <1>2, PacketIs
<1>5. Header(Packet(s)) = [size |-> Len(Packet(s)), id |-> S_LOGIN]
  BY <1>2, <1>3, HeaderRead
<1>6. PKT_S_LOGIN(Packet(s)).id = id
  <2>1. 4 \in Nat /\ 4 + 8 <= s.pos
    BY <1>2
  <2>2. Number(Packet(s), 4, 8) = id
    BY <1>2, <2>1, LongRead
  <2>. QED  BY <2>2 DEF PKT_S_LOGIN
<1>. QED  BY <1>3, <1>4, <1>5, <1>6, SentIs DEF s

LEMMA C_CHATSent ==
    ASSUME NEW bw, Start(bw), NEW t \in Strings
    PROVE  /\ Sent(Packet(Make_C_CHAT(bw, t)), [Blank EXCEPT !.kind = C_CHAT, !.text = t])
                  \in Messages
<1>. DEFINE s == Make_C_CHAT(bw, t)
            made == [Blank EXCEPT !.kind = C_CHAT, !.text = t]
<1>1. /\ Within(s) /\ s.pos = 38 /\ HeaderIn(s, C_CHAT) /\ s.pos \in Uint16
      /\ HeldIn(s, 4, StringBytes(t), 32)
  <2>1. 2 \in {2, 8} /\ 36 + 2 = 38 /\ C_CHAT \in Nat /\ 0 \in Nat
    BY DEF C_CHAT
  <2>. QED  BY <2>1, ChatIs, SizesAre DEF Step, Make_C_CHAT
<1>2. made \in Made /\ made.kind = C_CHAT /\ C_CHAT \in Uint16
  BY KindsAre, BlanksMade, Zenon
<1>. HIDE DEF s
<1>3. Packet(s) \in Seq(Byte) 
  BY <1>1, PacketIs
<1>4. Header(Packet(s)) = [size |-> Len(Packet(s)), id |-> C_CHAT]
  BY <1>1, <1>2, HeaderRead
<1>5. PKT_C_CHAT(Packet(s)).msg = t
  <2>1. 4 \in Nat /\ 4 + 32 <= s.pos
    BY <1>1
  <2>2. Text(Packet(s), 4) = t
    BY <1>1, <2>1, TextRead
  <2>. QED  BY <2>2 DEF PKT_C_CHAT
<1>. QED  BY <1>2, <1>3, <1>4, <1>5, SentIs DEF s

LEMMA S_CHATSent ==
    ASSUME NEW bw, Start(bw), NEW t \in Strings, NEW id \in Uint64
    PROVE  Sent(Packet(Make_S_CHAT(bw, id, t)),
                [Blank EXCEPT !.kind = S_CHAT, !.id = id, !.text = t]) \in Messages
<1>. DEFINE s == Make_S_CHAT(bw, id, t)
            made == [Blank EXCEPT !.kind = S_CHAT, !.id = id, !.text = t]
<1>1. id \in Nat
  BY UintIs
<1>2. /\ Within(s) /\ s.pos = 44 /\ HeaderIn(s, S_CHAT) /\ s.pos \in Uint16
      /\ HeldIn(s, 4, StringBytes(t), 32)
      /\ HeldIn(s, 36, Bytes(id, 8), 8)
  <2>1. 8 \in {2, 8} /\ 36 + 8 = 44 /\ S_CHAT \in Nat
    BY DEF S_CHAT
  <2>. QED  BY <1>1, <2>1, ChatIs, SizesAre DEF Step, Make_S_CHAT
<1>3. S_CHAT \in Uint16
  BY KindsAre
<1>4. made \in Made /\ made.kind = S_CHAT /\ made.id = id
  <2>1. made \in Made
    BY <1>3, TextMade
  <2>2. made.kind = S_CHAT /\ made.id = id
    BY DEF Blank
  <2>. QED  BY <2>1, <2>2
<1>. HIDE DEF s
<1>5. Packet(s) \in Seq(Byte) 
  BY <1>2, PacketIs
<1>6. Header(Packet(s)) = [size |-> Len(Packet(s)), id |-> S_CHAT]
  BY <1>2, <1>3, HeaderRead
<1>7. PKT_S_CHAT(Packet(s)).msg = t /\ PKT_S_CHAT(Packet(s)).id = Low(id)
  <2>1. 4 \in Nat /\ 4 + 32 <= s.pos /\ 36 \in Nat /\ 36 + 2 <= s.pos
    BY <1>2
  <2>2. Text(Packet(s), 4) = t
    BY <1>2, <2>1, TextRead
  <2>3. HeldIn(s, 36, Bytes(id, 2), 2)
    <3>1. 2 \in 1 .. 8 /\ 8 \in 1 .. 8 /\ \A k \in 1 .. 2 : k \in 1 .. 8
      OBVIOUS
    <3>2. \A k \in 1 .. 2 : Bytes(id, 8)[k] = Bytes(id, 2)[k]
      BY <1>1, <3>1, BytesAre
    <3>. QED  BY <1>2, <3>1, <3>2 DEF HeldIn, Holds
  <2>4. Number(Packet(s), 36, 2) = Low(id)
    BY <1>1, <1>2, <2>1, <2>3, LowRead
  <2>. QED  BY <2>2, <2>4 DEF PKT_S_CHAT
<1>. QED  BY <1>3, <1>4, <1>5, <1>6, <1>7, SentIs DEF s

\* Digits and Bytes.
LEMMA DigitsHeld ==
    ASSUME NEW b, NEW p \in Nat, NEW v \in Nat, NEW w \in 1 .. 8, Holds(b, p, Digits(v), w)
    PROVE  Holds(b, p, Bytes(v, w), w)
BY BytesAre DEF Holds

\* Item i of a list that begins at offset 54.
LEMMA ItemRead ==
    ASSUME NEW s, Within(s), NEW l \in Lists, s.pos = 54 + 12 * Len(l),
           HeldIn(s, 54, BuffsBytes(l), 12 * Len(l)), NEW i \in 1 .. Len(l)
    PROVE  LET p == 54 + (i - 1) * 12
           IN  Number(Packet(s), p, 8) = l[i][1] /\ Number(Packet(s), p + 8, 4) = l[i][2]
<1>. DEFINE n == Len(l)
            q == 12 * (i - 1)
            p == 54 + q
            from == s.base + 54
            u == l[i][1]
            v == l[i][2]
<1>1. n \in Nat /\ u \in Uint64 /\ v \in Uint32 /\ u \in Nat /\ v \in Nat
  BY ListIs, UintIs
<1>2. /\ Holds(BuffsBytes(l), q, Digits(u), 8)
      /\ Holds(BuffsBytes(l), q + 8, Digits(v), 4)
  BY BuffsBytesAre
<1>3. i \in 1 .. n /\ s.pos = 54 + 12 * n
  OBVIOUS
<1>. HIDE DEF n, u, v
<1>4. /\ q \in Nat /\ q + 8 \in Nat /\ p \in Nat /\ p + 8 \in Nat /\ 12 * n \in Nat
      /\ p + 8 <= s.pos /\ p + 8 + 4 <= s.pos /\ q + 8 <= 12 * n /\ q + 8 + 4 <= 12 * n
      /\ 54 + (i - 1) * 12 = p
  BY <1>1, <1>3
<1>5. Holds(s.buffer, from, BuffsBytes(l), 12 * n)
  BY DEF HeldIn, n
<1>6. /\ from \in Nat /\ from + q \in Nat /\ from + (q + 8) \in Nat
      /\ 8 \in Nat /\ 4 \in Nat /\ 8 \in 1 .. 8 /\ 4 \in 1 .. 8
      /\ from + q = s.base + p /\ from + (q + 8) = s.base + (p + 8)
  <2>. DEFINE b == s.base
  <2>1. b \in Nat
    BY WithinIs
  <2>2. q \in Nat
    BY <1>4
  <2>. HIDE DEF q, b
  <2>3. /\ b + 54 \in Nat /\ b + 54 + q \in Nat /\ b + 54 + (q + 8) \in Nat
        /\ b + 54 + q = b + (54 + q) /\ b + 54 + (q + 8) = b + (54 + q + 8)
    BY <2>1, <2>2
  <2>4. 8 \in Nat /\ 4 \in Nat /\ 8 \in 1 .. 8 /\ 4 \in 1 .. 8
    OBVIOUS
  <2>. QED  BY <2>3, <2>4 DEF b
<1>. HIDE DEF from, q, p
<1>7. HeldIn(s, p, Bytes(u, 8), 8)
  <2>1. Holds(s.buffer, from + q, Digits(u), 8)
    BY <1>2, <1>4, <1>5, <1>6, HoldsHolds
  <2>2. Holds(s.buffer, from + q, Bytes(u, 8), 8)
    BY <1>1, <1>6, <2>1, DigitsHeld
  <2>. QED  BY <1>6, <2>2 DEF HeldIn
<1>8. HeldIn(s, p + 8, Bytes(v, 4), 4)
  <2>1. Holds(s.buffer, from + (q + 8), Digits(v), 4)
    BY <1>2, <1>4, <1>5, <1>6, HoldsHolds
  <2>2. Holds(s.buffer, from + (q + 8), Bytes(v, 4), 4)
    BY <1>1, <1>6, <2>1, DigitsHeld
  <2>. QED  BY <1>6, <2>2 DEF HeldIn
<1>9. Number(Packet(s), p, 8) = u
  BY <1>1, <1>4, <1>7, LongRead
<1>10. Number(Packet(s), p + 8, 4) = v
  BY <1>1, <1>4, <1>8, WordRead
<1>. QED  BY <1>4, <1>9, <1>10 DEF u, v

\* PKT_TEST finds every field of a test packet, and BuffsList every item.
LEMMA TestRead ==
    ASSUME NEW s, Within(s), NEW id \in Uint64, NEW hp \in Uint32, NEW attack \in Uint16,
           NEW l \in Lists, NEW t \in Strings, s.pos = 54 + 12 * Len(l),
           TestIn(s, id, hp, attack, l, t)
    PROVE  LET p == PKT_TEST(Packet(s))
           IN  /\ p.id = id /\ p.hp = hp /\ p.attack = attack /\ p.name = t
               /\ p.buffsOffset = 54 /\ p.buffsCount = Len(l)
<1>. DEFINE n == Len(l)
<1>1. n \in Uint16 /\ 54 \in Uint16 /\ 54 <= s.pos
  <2>1. n \in Nat /\ n <= 3
    BY ListIs
  <2>. HIDE DEF n
  <2>2. n <= 90 /\ 54 <= 90 /\ 54 \in Nat
    BY <2>1
  <2>3. s.pos = 54 + 12 * n
    BY DEF n
  <2>. QED  BY <2>1, <2>2, <2>3, SizesAre
<1>. HIDE DEF n
<1>2. /\ 4 \in Nat /\ 12 \in Nat /\ 16 \in Nat /\ 18 \in Nat /\ 50 \in Nat /\ 52 \in Nat
      /\ 4 + 8 <= s.pos /\ 12 + 4 <= s.pos /\ 16 + 2 <= s.pos /\ 18 + 32 <= s.pos
      /\ 50 + 2 <= s.pos /\ 52 + 2 <= s.pos
  <2>1. s.pos \in Nat
    BY WithinIs
  <2>. QED  BY <1>1, <2>1
<1>3. /\ HeldIn(s, 4, Bytes(id, 8), 8) /\ HeldIn(s, 12, Bytes(hp, 4), 4)
      /\ HeldIn(s, 16, Bytes(attack, 2), 2) /\ HeldIn(s, 18, StringBytes(t), 32)
      /\ HeldIn(s, 50, Bytes(54, 2), 2) /\ HeldIn(s, 52, Bytes(n, 2), 2)
  BY DEF TestIn, n
<1>4. Number(Packet(s), 4, 8) = id /\ Number(Packet(s), 12, 4) = hp
  BY <1>2, <1>3, LongRead, WordRead
<1>5. /\ Number(Packet(s), 16, 2) = attack /\ Number(Packet(s), 50, 2) = 54
      /\ Number(Packet(s), 52, 2) = n
  BY <1>1, <1>2, <1>3, ShortRead
<1>6. Text(Packet(s), 18) = t
  BY <1>2, <1>3, TextRead
<1>. QED  BY <1>4, <1>5, <1>6 DEF PKT_TEST, n

LEMMA TestSent ==
    ASSUME NEW bw, Start(bw), NEW id \in Uint64, NEW hp \in Uint32, NEW attack \in Uint16,
           NEW l \in Lists, NEW t \in Strings, NEW kind \in {S_TEST, C_TEST}
    PROVE  Sent(Packet(Finish(MakeTest(bw, id, hp, attack, l, t), kind)),
                [kind |-> kind, id |-> id, hp |-> hp, attack |-> attack, text |-> t,
                 buffs |-> l]) \in Messages
<1>. DEFINE s == Finish(MakeTest(bw, id, hp, attack, l, t), kind)
            n == Len(l)
            made == [kind |-> kind, id |-> id, hp |-> hp, attack |-> attack, text |-> t,
                     buffs |-> l]
            m == [pkt |-> Packet(s), made |-> made]
            p == PKT_TEST(Packet(s))
<1>1. kind \in Uint16 /\ kind \in Nat /\ attack \in Nat /\ id \in Nat /\ hp \in Nat
  BY KindsAre, SizesAre, UintIs
<1>2. n \in Nat /\ n <= 3
  BY ListIs
<1>3. /\ Within(s) /\ s.pos = 54 + 12 * n /\ HeaderIn(s, kind)
      /\ TestIn(s, id, hp, attack, l, t)
  BY <1>1, TestIs DEF Step
<1>. HIDE DEF s
<1>4. made \in Made /\ made.kind = kind
  BY <1>1 DEF Made
<1>5. Packet(s) \in Seq(Byte) /\ Len(Packet(s)) = 54 + 12 * n
  BY <1>3, PacketIs
<1>6. Header(Packet(s)) = [size |-> Len(Packet(s)), id |-> kind]
  <2>1. s.pos \in Uint16 /\ 4 <= s.pos
    <3>. HIDE DEF n
    <3>1. s.pos \in Nat /\ s.pos <= 90 /\ 4 <= s.pos
      BY <1>2, <1>3
    <3>. QED  BY <3>1, SizesAre
  <2>. QED  BY <1>1, <1>3, <2>1, HeaderRead
<1>7. /\ p.id = id /\ p.hp = hp /\ p.attack = attack /\ p.name = t
      /\ p.buffsOffset = 54 /\ p.buffsCount = n
  BY <1>3, TestRead
<1>8. p.packetSize = 54 + 12 * n
  <2>1. Header(Packet(s)).size = 54 + 12 * n
    BY <1>5, <1>6
  <2>. QED  BY <2>1 DEF Header, PKT_TEST
<1>9. Validate(p)
  <2>. HIDE DEF p, n
  <2>. QED  BY <1>2, <1>7, <1>8 DEF Validate, PKT_TEST_SIZE, ItemSize
<1>10. BuffsList(Packet(s)) = l
  <2>1. ASSUME NEW i \in 1 .. n
        PROVE  <<Number(Packet(s), 54 + (i - 1) * 12, 8),
                 Number(Packet(s), 54 + (i - 1) * 12 + 8, 4)>> = l[i]
    <3>1. /\ Number(Packet(s), 54 + (i - 1) * 12, 8) = l[i][1]
          /\ Number(Packet(s), 54 + (i - 1) * 12 + 8, 4) = l[i][2]
      BY <1>3, ItemRead DEF TestIn
    <3>2. l[i] = <<l[i][1], l[i][2]>>
      BY ListIs
    <3>. QED  BY <3>1, <3>2
  <2>2. BuffsList(Packet(s)) = [i \in 1 .. n |->
                                   <<Number(Packet(s), 54 + (i - 1) * 12, 8),
                                     Number(Packet(s), 54 + (i - 1) * 12 + 8, 4)>>]
    <3>. HIDE DEF n
    <3>. QED  BY <1>7 DEF BuffsList, ItemSize
  <2>3. l \in Seq(Items)
    BY ListIs
  <2>4. l = [i \in 1 .. n |-> l[i]]
    BY <2>3
  <2>. HIDE DEF n
  <2>. QED  BY <2>1, <2>2, <2>4
<1>11. TestShown(m, made.kind) = made
  <2>1. m.pkt = Packet(s)
    OBVIOUS
  <2>. HIDE DEF m
  <2>2. TestShown(m, kind) = [kind |-> kind, id |-> p.id, hp |-> p.hp,
                              attack |-> p.attack, text |-> p.name, buffs |-> l]
    <3>. HIDE DEF p
    <3>1. PKT_TEST(m.pkt) = p /\ BuffsList(m.pkt) = l
      BY <1>10, <2>1 DEF p
    <3>. QED  BY <1>9, <3>1 DEF TestShown
  <2>. HIDE DEF p
  <2>. QED  BY <1>7, <2>2
<1>. QED  BY <1>4, <1>5, <1>6, <1>11, SentIs DEF s

-----------------------------------------------------------------------------
(***************************************************************************)
(* The chunks that hold packet after packet.                               *)
(***************************************************************************)
\* Sizes of the packets that hold a string, and of all; where its capacity is.
StringSizes == {38, 44, 54, 66, 78, 90}
Sizes == {4, 12} \cup StringSizes

\* Where a packet of size z has the capacity of its string.
CapAt(z) == IF z >= 54 THEN 42 ELSE 28

\* What a maker does to the open part, for the next one that uses these bytes.
Writes(bw, s) ==
    /\ Step(bw, s, 0, s.pos) /\ s.pos \in Sizes
    /\ s.pos \in {4, 12} => s.sound
    /\ s.pos \in StringSizes =>
           /\ s.sound <=> Small(bw.buffer, bw.base + CapAt(s.pos))
           /\ Small(s.buffer, s.base + CapAt(s.pos))

\* Every string that was written has a capacity in place.
LEMMA CapSmall ==
    ASSUME NEW s, Within(s), NEW p \in Nat, p + 32 <= s.size, NEW t \in Strings,
           HeldIn(s, p, StringBytes(t), 32)
    PROVE  Small(s.buffer, s.base + (p + 24))
<1>. DEFINE b == s.buffer
            f == s.base + p
            e == StringBytes(t)
<1>1. /\ b \in [1 .. ChunkSize -> Byte] /\ ChunkSize \in Nat /\ s.base \in Nat
      /\ s.base + s.size <= ChunkSize /\ s.size \in Nat
  BY WithinIs, ChunkSizeIs
<1>2. f \in Nat /\ f + 24 \in Nat /\ f + 24 + 8 <= ChunkSize /\ s.base + (p + 24) = f + 24
  <2>. DEFINE x == s.base
              y == s.size
  <2>1. x \in Nat /\ y \in Nat /\ x + y <= ChunkSize /\ ChunkSize \in Nat /\ p + 32 <= y
    BY <1>1
  <2>. HIDE DEF x, y
  <2>2. /\ x + p \in Nat /\ x + p + 24 \in Nat /\ x + p + 24 + 8 <= ChunkSize
        /\ x + (p + 24) = x + p + 24
    BY <2>1
  <2>. QED  BY <2>2 DEF x
<1>3. \A k \in 1 .. 32 : b[f + k] = e[k]
  BY DEF HeldIn, Holds
<1>4. e[25] = InPlace /\ \A k \in 26 .. 32 : e[k] = 0
  BY StringBytesAre
<1>. HIDE DEF e, f, b
<1>5. b[f + 24 + 1] = InPlace
  <2>1. f + 24 + 1 = f + 25 /\ 25 \in 1 .. 32
    BY <1>2
  <2>2. b[f + 25] = e[25]
    BY <1>3, <2>1, Zenon
  <2>. QED  BY <1>4, <2>1, <2>2
<1>6. ASSUME NEW k \in 2 .. 8
      PROVE  b[f + 24 + k] = 0
  <2>1. f + 24 + k = f + (24 + k) /\ 24 + k \in 1 .. 32 /\ 24 + k \in 26 .. 32
    BY <1>2
  <2>2. b[f + (24 + k)] = e[24 + k]
    BY <1>3, <2>1, Zenon
  <2>3. e[24 + k] = 0
    BY <1>4, <2>1, Zenon
  <2>. QED  BY <2>1, <2>2, <2>3
<1>7. InPlace <= InPlace
  BY DEF InPlace
<1>8. Small(b, f + 24)
  BY <1>1, <1>2, <1>5, <1>6, <1>7, SmallIs
<1>. QED  BY <1>2, <1>8 DEF b

\* The makers write so.
LEMMA LoginsWrite ==
    ASSUME NEW bw, Start(bw), bw.sound, NEW v \in Nat
    PROVE  Writes(bw, Make_C_LOGIN(bw)) /\ Writes(bw, Make_S_LOGIN(bw, v))
<1>1. Writes(bw, Make_C_LOGIN(bw))
  BY Make_C_LOGINIs DEF Writes, Sizes, StringSizes
<1>2. Writes(bw, Make_S_LOGIN(bw, v))
  BY Make_S_LOGINIs DEF Writes, Sizes, StringSizes
<1>. QED  BY <1>1, <1>2

LEMMA ChatWrites ==
    ASSUME NEW bw, Start(bw), NEW t \in Strings, NEW s, NEW z \in {38, 44},
           Step(bw, s, 0, z), s.pos = z, s.sound <=> Small(bw.buffer, bw.base + 28),
           HeldIn(s, 4, StringBytes(t), 32)
    PROVE  Writes(bw, s)
<1>1. s.pos \in {38, 44} /\ CapAt(s.pos) = 28 /\ s.pos \notin {4, 12}
  BY DEF CapAt
<1>2. Small(s.buffer, s.base + 28)
  <2>1. 4 \in Nat /\ 4 + 32 <= s.size /\ 4 + 24 = 28
    BY StartIs DEF Step
  <2>2. Within(s)
    BY DEF Step
  <2>. QED  BY <2>1, <2>2, CapSmall
<1>. QED  BY <1>1, <1>2 DEF Writes, Sizes, StringSizes

LEMMA TestWrites ==
    ASSUME NEW bw, Start(bw), bw.sound, NEW id \in Nat, NEW hp \in Nat, NEW attack \in Nat,
           NEW l \in Lists, NEW t \in Strings, NEW kind \in Nat
    PROVE  Writes(bw, Finish(MakeTest(bw, id, hp, attack, l, t), kind))
<1>. DEFINE s == Finish(MakeTest(bw, id, hp, attack, l, t), kind)
            n == Len(l)
<1>1. /\ Step(bw, s, 0, 54 + 12 * n) /\ s.pos = 54 + 12 * n /\ HeaderIn(s, kind)
      /\ s.sound = (bw.sound /\ Small(bw.buffer, bw.base + 42))
      /\ TestIn(s, id, hp, attack, l, t)
  BY TestIs, Zenon
<1>. HIDE DEF s
<1>2. /\ Step(bw, s, 0, 54 + 12 * n) /\ s.pos = 54 + 12 * n
      /\ s.sound <=> Small(bw.buffer, bw.base + 42)
      /\ HeldIn(s, 18, StringBytes(t), 32)
  BY <1>1 DEF TestIn
<1>. HIDE DEF s
<1>3. n \in Nat /\ n <= 3
  BY ListIs
<1>. HIDE DEF n
<1>4. s.pos \in {54, 66, 78, 90} /\ CapAt(s.pos) = 42 /\ s.pos \notin {4, 12}
  BY <1>2, <1>3 DEF CapAt
<1>5. Small(s.buffer, s.base + 42)
  <2>1. 18 \in Nat /\ 18 + 32 <= s.size /\ 18 + 24 = 42
    BY <1>2, StartIs DEF Step
  <2>2. Within(s)
    BY <1>2 DEF Step
  <2>. QED  BY <1>2, <2>1, <2>2, CapSmall
<1>6. Writes(bw, s)
  BY <1>2, <1>4, <1>5 DEF Writes, Sizes, StringSizes
<1>. QED  BY <1>6 DEF s

LEMMA MakersWrite ==
    ASSUME NEW bw, Start(bw), bw.sound, NEW t \in Strings, NEW v \in Nat
    PROVE  Writes(bw, Make_C_CHAT(bw, t)) /\ Writes(bw, Make_S_CHAT(bw, v, t))
<1>1. /\ C_CHAT \in Nat /\ S_CHAT \in Nat /\ 0 \in Nat /\ 2 \in {2, 8} /\ 8 \in {2, 8}
      /\ 36 + 2 = 38 /\ 36 + 8 = 44 /\ 38 \in {38, 44} /\ 44 \in {38, 44}
  BY DEF C_CHAT, S_CHAT
<1>2. Writes(bw, Make_C_CHAT(bw, t))
  <2>. DEFINE s == Make_C_CHAT(bw, t)
  <2>1. /\ Step(bw, s, 0, 38) /\ s.pos = 38 /\ (s.sound <=> Small(bw.buffer, bw.base + 28))
        /\ HeldIn(s, 4, StringBytes(t), 32)
    BY <1>1, ChatIs DEF Make_C_CHAT
  <2>. HIDE DEF s
  <2>2. Writes(bw, s)
    BY <1>1, <2>1, ChatWrites
  <2>. QED  BY <2>2 DEF s
<1>3. Writes(bw, Make_S_CHAT(bw, v, t))
  <2>. DEFINE s == Make_S_CHAT(bw, v, t)
  <2>1. /\ Step(bw, s, 0, 44) /\ s.pos = 44 /\ (s.sound <=> Small(bw.buffer, bw.base + 28))
        /\ HeldIn(s, 4, StringBytes(t), 32)
    BY <1>1, ChatIs DEF Make_S_CHAT
  <2>. HIDE DEF s
  <2>2. Writes(bw, s)
    BY <1>1, <2>1, ChatWrites
  <2>. QED  BY <2>2 DEF s
<1>. QED  BY <1>2, <1>3

\* The chunks: what their bytes are while they are new, and while all packets have
\* one size.
Chunks == [buffer : Buffers, used : Nat, sizes : SUBSET Nat, recycled : BOOLEAN]

\* A chunk that only ever held packets of size z has them one behind the other,
\* and a string, or nothing yet, where the next one will have its string.
Aligned(c, z) ==
    /\ \E q \in Nat : c.used = q * z
    /\ \A j \in Nat : j * z + z <= ChunkSize => Small(c.buffer, j * z + CapAt(z))

\* What is known of the bytes of a chunk.
ChunkOK(c) ==
    /\ c \in Chunks /\ c.used <= ChunkSize /\ IsFiniteSet(c.sizes)
    /\ ~c.recycled => \A i \in 1 .. ChunkSize : i > c.used => c.buffer[i] = 0
    /\ \A z \in StringSizes : c.sizes \subseteq {z} => Aligned(c, z)

\* Packets of one size lie one behind the other, at multiples of it.
LEMMA SizesKnown ==
    ASSUME NEW z \in StringSizes
    PROVE  z \in Nat /\ 38 <= z /\ CapAt(z) \in Nat /\ CapAt(z) + 8 <= z
BY DEF StringSizes, CapAt

LEMMA Multiples ==
    ASSUME NEW z \in Nat, NEW q \in Nat, NEW j \in Nat
    PROVE  /\ j * z \in Nat /\ (q + 1) * z = q * z + z /\ 0 * z = 0
           /\ j < q => j * z + z <= q * z
<1>1. j * z \in Nat /\ (q + 1) * z = q * z + z /\ 0 * z = 0
  OBVIOUS
<1>2. ASSUME j < q
      PROVE  j * z + z <= q * z
  <2>. DEFINE d == q - j - 1
  <2>1. d \in Nat /\ q = j + 1 + d
    BY <1>2
  <2>. HIDE DEF d
  <2>2. q * z = j * z + z + d * z /\ d * z \in Nat
    BY <2>1
  <2>. QED  BY <1>1, <2>2
<1>. QED  BY <1>1, <1>2

\* Zeros are a string of capacity 0, and a write elsewhere leaves it so.
LEMMA SmallZero ==
    ASSUME NEW b \in Buffers, NEW p \in Nat, p + 8 <= ChunkSize,
           \A i \in 1 .. ChunkSize : i > p => b[i] = 0
    PROVE  Small(b, p)
<1>1. ChunkSize \in Nat /\ b \in [1 .. ChunkSize -> Byte]
  BY ChunkSizeIs DEF Buffers
<1>2. ASSUME NEW k \in 1 .. 8
      PROVE  b[p + k] = 0
  <2>1. p + k \in 1 .. ChunkSize /\ p + k > p
    BY <1>1
  <2>. QED  BY <2>1
<1>3. b[p + 1] <= InPlace /\ \A k \in 2 .. 8 : b[p + k] = 0
  BY <1>2 DEF InPlace
<1>. QED  BY <1>1, <1>3, SmallIs

LEMMA SmallSame ==
    ASSUME NEW a \in Buffers, NEW b \in Buffers, NEW p \in Nat, NEW q \in Nat,
           Same(a, b, p, q), NEW f \in Nat, f + 8 <= ChunkSize, f + 8 <= p \/ q <= f,
           Small(a, f)
    PROVE  Small(b, f)
<1>1. /\ ChunkSize \in Nat /\ a \in [1 .. ChunkSize -> Byte]
      /\ b \in [1 .. ChunkSize -> Byte]
  BY ChunkSizeIs DEF Buffers
<1>2. \A k \in 1 .. 8 : b[f + k] = a[f + k]
  <2>1. ASSUME NEW k \in 1 .. 8
        PROVE  f + k \in 1 .. ChunkSize /\ (f + k <= p \/ f + k > q)
    BY <1>1
  <2>. QED  BY <2>1 DEF Same
<1>3. b[f + 1] = a[f + 1] /\ \A k \in 2 .. 8 : b[f + k] = a[f + k]
  <2>1. 1 \in 1 .. 8 /\ \A k \in 2 .. 8 : k \in 1 .. 8
    OBVIOUS
  <2>. QED  BY <1>2, <2>1, Zenon
<1>4. a[f + 1] <= InPlace /\ \A k \in 2 .. 8 : a[f + k] = 0
  BY <1>1, SmallIs
<1>5. b[f + 1] <= InPlace /\ \A k \in 2 .. 8 : b[f + k] = 0
  BY <1>3, <1>4
<1>. QED  BY <1>1, <1>5, SmallIs

\* A new chunk is zero everywhere, and one of the pool keeps its strings.
LEMMA FreshOK == ChunkOK(Fresh)
<1>1. /\ Fresh \in Chunks /\ Fresh.used = 0 /\ Fresh.sizes = {} /\ Fresh.recycled = FALSE
      /\ Fresh.buffer \in Buffers /\ \A i \in 1 .. ChunkSize : Fresh.buffer[i] = 0
  <2>1. 0 \in Byte
    BY DEF Byte
  <2>. QED  BY <2>1 DEF Fresh, Chunks, Buffers
<1>2. ASSUME NEW z \in StringSizes
      PROVE  Aligned(Fresh, z)
  <2>1. z \in Nat /\ CapAt(z) \in Nat /\ CapAt(z) + 8 <= z
    BY SizesKnown
  <2>2. ASSUME NEW j \in Nat, j * z + z <= ChunkSize
        PROVE  Small(Fresh.buffer, j * z + CapAt(z))
    <3>. DEFINE y == j * z
                p == y + CapAt(z)
    <3>1. y \in Nat /\ y + z <= ChunkSize
      BY <2>1, <2>2, Multiples
    <3>. HIDE DEF y
    <3>2. p \in Nat /\ p + 8 <= ChunkSize
      BY <2>1, <3>1, ChunkSizeIs
    <3>. HIDE DEF p
    <3>3. Small(Fresh.buffer, p)
      BY <1>1, <3>2, SmallZero
    <3>. QED  BY <3>3 DEF p, y
  <2>3. \E q \in Nat : Fresh.used = q * z
    <3>1. 0 \in Nat /\ 0 * z = 0
      BY <2>1, Multiples
    <3>. QED  BY <1>1, <3>1, Zenon
  <2>. QED  BY <2>2, <2>3 DEF Aligned
<1>3. IsFiniteSet(Fresh.sizes) /\ Fresh.used <= ChunkSize
  BY <1>1, FS_EmptySet, ChunkSizeIs
<1>. QED  BY <1>1, <1>2, <1>3 DEF ChunkOK

LEMMA RecycledOK ==
    ASSUME NEW c, ChunkOK(c)
    PROVE  ChunkOK([c EXCEPT !.used = 0, !.recycled = TRUE])
<1>. DEFINE d == [c EXCEPT !.used = 0, !.recycled = TRUE]
<1>1. c \in Chunks
  BY DEF ChunkOK
<1>2. /\ d \in Chunks /\ d.used = 0 /\ d.recycled = TRUE /\ d.sizes = c.sizes
      /\ d.buffer = c.buffer
  BY <1>1 DEF Chunks
<1>. HIDE DEF d
<1>3. ASSUME NEW z \in StringSizes, d.sizes \subseteq {z}
      PROVE  Aligned(d, z)
  <2>1. Aligned(c, z)
    BY <1>2, <1>3 DEF ChunkOK
  <2>2. \E q \in Nat : d.used = q * z
    <3>1. 0 \in Nat /\ 0 * z = 0
      BY SizesKnown, Multiples
    <3>. QED  BY <1>2, <3>1, Zenon
  <2>. QED  BY <1>2, <2>1, <2>2 DEF Aligned
<1>4. IsFiniteSet(d.sizes) /\ d.used <= ChunkSize
  BY <1>2, ChunkSizeIs DEF ChunkOK
<1>5. ChunkOK(d)
  BY <1>2, <1>3, <1>4 DEF ChunkOK
<1>. QED  BY <1>5 DEF d

\* The writer a maker gets for a chunk with room.
LEMMA WriterIs ==
    ASSUME NEW c, ChunkOK(c), ChunkSize - c.used >= OpenSize
    PROVE  LET bw == Writer(c.buffer, c.used, OpenSize)
           IN  /\ Start(bw) /\ bw.sound /\ bw.buffer = c.buffer /\ bw.base = c.used
               /\ bw.size = OpenSize
<1>1. /\ c.buffer \in Buffers /\ c.used \in Nat
  BY DEF ChunkOK, Chunks
<1>2. /\ OpenSize \in Nat /\ 90 <= OpenSize /\ c.used + OpenSize <= ChunkSize
      /\ 0 <= OpenSize
  BY <1>1, ChunkSizeIs
<1>. QED  BY <1>1, <1>2 DEF Writer, Start, Within, Writers

\* A maker finds the string of an earlier packet, or zeros, under the one it writes,
\* unless the chunk came back from the pool with packets of several sizes.
LEMMA WriteKeeps ==
    ASSUME NEW c, ChunkOK(c), ChunkSize - c.used >= OpenSize,
           NEW s, Writes(Writer(c.buffer, c.used, OpenSize), s)
    PROVE  LET d == [c EXCEPT !.buffer = s.buffer, !.used = @ + s.pos,
                              !.sizes = @ \cup {s.pos}]
           IN  ChunkOK(d) /\ (~s.sound => d.recycled /\ Cardinality(d.sizes) > 1)
<1>. DEFINE bw == Writer(c.buffer, c.used, OpenSize)
            d == [c EXCEPT !.buffer = s.buffer, !.used = @ + s.pos,
                           !.sizes = @ \cup {s.pos}]
            u == c.used
            z == s.pos
<1>1. /\ bw.buffer = c.buffer /\ bw.base = u /\ bw.size = OpenSize
      /\ Step(bw, s, 0, z) /\ z \in Sizes
      /\ z \in {4, 12} => s.sound
      /\ z \in StringSizes => /\ s.sound <=> Small(c.buffer, u + CapAt(z))
                              /\ Small(s.buffer, u + CapAt(z))
  BY WriterIs DEF Writes, Step
<1>2. /\ c \in Chunks /\ c.buffer \in Buffers /\ u \in Nat /\ c.sizes \in SUBSET Nat
      /\ c.recycled \in BOOLEAN /\ IsFiniteSet(c.sizes)
  BY DEF ChunkOK, Chunks
<1>3. z \in Nat /\ z <= 90
  BY <1>1 DEF Sizes, StringSizes
<1>4. u + z \in Nat /\ u + z <= ChunkSize /\ ChunkSize \in Nat
  BY <1>2, <1>3, ChunkSizeIs
<1>5. s.buffer \in Buffers
  BY <1>1 DEF Step, Within, Writers
<1>6. Same(c.buffer, s.buffer, u, u + z)
  <2>1. u + 0 = u
    BY <1>2
  <2>. HIDE DEF bw
  <2>. QED  BY <1>1, <2>1 DEF Step
<1>. HIDE DEF bw, u, z
<1>7. /\ d \in Chunks /\ d.buffer = s.buffer /\ d.used = u + z /\ d.sizes = c.sizes \cup {z}
      /\ d.recycled = c.recycled
  BY <1>2, <1>3, <1>4, <1>5 DEF Chunks, u, z
<1>. HIDE DEF d
<1>8. d.used <= ChunkSize /\ IsFiniteSet(d.sizes)
  BY <1>2, <1>4, <1>7, FS_AddElement
<1>9. ASSUME ~d.recycled, NEW i \in 1 .. ChunkSize, i > d.used
      PROVE  d.buffer[i] = 0
  <2>1. i > u + z /\ i > u
    BY <1>2, <1>3, <1>7, <1>9
  <2>2. s.buffer[i] = c.buffer[i]
    BY <1>6, <2>1 DEF Same
  <2>3. c.buffer[i] = 0
    BY <1>7, <1>9, <2>1 DEF ChunkOK, u
  <2>. QED  BY <1>7, <2>2, <2>3
<1>10. ASSUME NEW y \in StringSizes, d.sizes \subseteq {y}
       PROVE  Aligned(d, y)
  <2>1. y = z /\ c.sizes \subseteq {z} /\ z \in StringSizes
    BY <1>7, <1>10
  <2>2. Aligned(c, z)
    BY <2>1 DEF ChunkOK
  <2>3. PICK q \in Nat : u = q * z
    BY <2>2 DEF Aligned, u
  <2>4. u + z = (q + 1) * z /\ q + 1 \in Nat
    BY <1>3, <2>3, Multiples
  <2>5. ASSUME NEW j \in Nat, j * z + z <= ChunkSize
        PROVE  Small(s.buffer, j * z + CapAt(z))
    <3>. DEFINE x == j * z
    <3>1. x \in Nat /\ x + z <= ChunkSize
      BY <1>3, <2>5, Multiples
    <3>2. Small(c.buffer, x + CapAt(z))
      BY <2>2, <2>5 DEF Aligned
    <3>3. CapAt(z) \in Nat /\ CapAt(z) + 8 <= z
      BY <2>1, SizesKnown
    <3>4. CASE j = q
      BY <1>1, <2>1, <2>3, <3>4
    <3>5. CASE j < q
      <4>1. x + z <= u
        BY <1>3, <2>3, <3>5, Multiples
      <4>. HIDE DEF x
      <4>2. x + CapAt(z) \in Nat /\ x + CapAt(z) + 8 <= u /\ x + CapAt(z) + 8 <= ChunkSize
        BY <1>2, <1>3, <1>4, <3>1, <3>3, <4>1
      <4>3. Small(s.buffer, x + CapAt(z))
        BY <1>2, <1>4, <1>5, <1>6, <3>2, <4>2, SmallSame
      <4>. QED  BY <4>3 DEF x
    <3>6. CASE q < j
      <4>1. u + z <= x
        BY <1>3, <2>3, <3>6, Multiples
      <4>. HIDE DEF x
      <4>2. x + CapAt(z) \in Nat /\ u + z <= x + CapAt(z) /\ x + CapAt(z) + 8 <= ChunkSize
        BY <1>2, <1>3, <1>4, <3>1, <3>3, <4>1
      <4>3. Small(s.buffer, x + CapAt(z))
        BY <1>2, <1>4, <1>5, <1>6, <3>2, <4>2, SmallSame
      <4>. QED  BY <4>3 DEF x
    <3>. QED  BY <3>4, <3>5, <3>6
  <2>6. \E r \in Nat : d.used = r * z
    BY <1>7, <2>4
  <2>. QED  BY <1>7, <2>1, <2>5, <2>6 DEF Aligned
<1>11. ChunkOK(d)
  BY <1>7, <1>8, <1>9, <1>10 DEF ChunkOK
<1>12. ASSUME ~s.sound
       PROVE  d.recycled /\ Cardinality(d.sizes) > 1
  <2>1. z \in StringSizes /\ ~Small(c.buffer, u + CapAt(z))
    BY <1>1, <1>12 DEF Sizes
  <2>2. CapAt(z) \in Nat /\ CapAt(z) + 8 <= z
    BY <2>1, SizesKnown
  <2>3. d.recycled
    <3>1. CASE ~c.recycled
      <4>. DEFINE p == u + CapAt(z)
      <4>1. p \in Nat /\ p + 8 <= ChunkSize /\ u <= p
        BY <1>2, <1>3, <1>4, <2>2
      <4>2. \A i \in 1 .. ChunkSize : i > p => c.buffer[i] = 0
        <5>. HIDE DEF p
        <5>1. \A i \in 1 .. ChunkSize : i > u => c.buffer[i] = 0
          BY <3>1 DEF ChunkOK, u
        <5>. QED  BY <1>2, <1>4, <4>1, <5>1
      <4>. HIDE DEF p
      <4>3. Small(c.buffer, p)
        BY <1>2, <4>1, <4>2, SmallZero
      <4>. QED  BY <2>1, <4>3 DEF p
    <3>. QED  BY <1>2, <1>7, <3>1
  <2>4. ~(c.sizes \subseteq {z})
    <3>1. SUFFICES ASSUME c.sizes \subseteq {z} PROVE FALSE
      OBVIOUS
    <3>2. Aligned(c, z)
      BY <2>1, <3>1 DEF ChunkOK
    <3>3. PICK q \in Nat : u = q * z
      BY <3>2 DEF Aligned, u
    <3>4. q * z + z <= ChunkSize
      BY <1>4, <3>3
    <3>5. Small(c.buffer, q * z + CapAt(z))
      BY <3>2, <3>4 DEF Aligned
    <3>. QED  BY <2>1, <3>3, <3>5
  <2>5. PICK y \in c.sizes : y # z
    BY <2>4
  <2>6. {y, z} \subseteq d.sizes
    BY <1>7, <2>5
  <2>7. Cardinality({y, z}) = 2 /\ IsFiniteSet({y, z})
    <3>1. IsFiniteSet({}) /\ Cardinality({}) = 0
      BY FS_EmptySet
    <3>2. IsFiniteSet({y}) /\ Cardinality({y}) = 1
      BY FS_Singleton
    <3>3. {y, z} = {y} \cup {z} /\ z \notin {y}
      BY <2>5
    <3>. QED  BY <3>2, <3>3, FS_AddElement
  <2>8. Cardinality({y, z}) <= Cardinality(d.sizes) /\ Cardinality(d.sizes) \in Nat
    BY <1>8, <2>6, FS_Subset, FS_CardinalityType
  <2>. QED  BY <2>3, <2>7, <2>8
<1>. QED  BY <1>11, <1>12 DEF d

-----------------------------------------------------------------------------
(***************************************************************************)
(* The invariant of the bytes, and one lemma per step.                     *)
(***************************************************************************)
\* The inductive invariant of chunks and channels: every packet on its way is one that
\* its handler can read.
ChunksOK ==
    /\ DOMAIN chunk = Threads /\ \A t \in Threads : ChunkOK(chunk[t])
    /\ DOMAIN pool = {"GameServer", "DummyClient"}
    /\ \A p \in DOMAIN pool : \A c \in pool[p] : ChunkOK(c)

ChannelsOK ==
    toServer \in [Sessions -> Seq(Messages)] /\ toClient \in [Sessions -> Seq(Messages)]

BytesInv == ChunksOK /\ ChannelsOK /\ TornOnlyOverMixed /\ ShownAsMade

\* The texts and the buffs of the programs have bytes that fit.
LEMMA TextsAre ==
    ASSUME NEW t \in Texts
    PROVE  t \in Strings
<1>1. Len(t) <= InPlace /\ t \in Seq(1 .. 255)
  BY HandlersAssumption
<1>2. t \in Seq(Byte)
  BY <1>1 DEF Byte
<1>. QED  BY <1>1, <1>2 DEF Strings

LEMMA BuffsAre == Answer \in Lists /\ \A b \in Buffs : b \in Lists
<1>1. \A k \in Nat : k <= 500 => k \in Uint64 /\ k \in Uint32
  BY SMT DEF Uint64, Uint32
<1>2. /\ 1 \in Uint64 /\ 3 \in Uint64 /\ 2 \in Uint32 /\ 4 \in Uint32 /\ 100 \in Uint64
      /\ 200 \in Uint64 /\ 300 \in Uint64 /\ 15 \in Uint32 /\ 23 \in Uint32 /\ 7 \in Uint32
  BY <1>1, SMT
<1>3. /\ <<1, 2>> \in Items /\ <<3, 4>> \in Items /\ <<100, 15>> \in Items
      /\ <<200, 23>> \in Items /\ <<300, 7>> \in Items
  BY <1>2 DEF Items
<1>4. \A x, y, z \in Items : <<x, y, z>> \in Lists /\ <<x, y>> \in Lists
  BY DEF Lists
<1>5. <<>> \in Lists
  BY BlankIs DEF Made, Blank
<1>. DEFINE a == <<1, 2>>    b == <<3, 4>>
            x == <<100, 15>>    y == <<200, 23>>    z == <<300, 7>>
<1>6. a \in Items /\ b \in Items /\ x \in Items /\ y \in Items /\ z \in Items
  BY <1>3
<1>7. Answer = <<x, y, z>> /\ Buffs = {<<>>, <<a, b>>}
  BY DEF Answer, Buffs
<1>. HIDE DEF a, b, x, y, z
<1>8. <<x, y, z>> \in Lists /\ <<a, b>> \in Lists
  BY <1>4, <1>6
<1>. QED  BY <1>5, <1>7, <1>8

\* Open gives a chunk with room.
LEMMA OpenedIs ==
    ASSUME ChunksOK, NEW t \in Threads, NEW c \in Opened(t)
    PROVE  ChunkOK(c) /\ ChunkSize - c.used >= OpenSize
<1>1. CASE c = chunk[t] /\ ChunkSize - chunk[t].used >= OpenSize
  BY <1>1 DEF ChunksOK
<1>2. CASE c = Fresh
  <2>1. Fresh.used = 0
    BY DEF Fresh
  <2>. QED  BY <1>2, <2>1, FreshOK, ChunkSizeIs
<1>3. ASSUME NEW d \in pool[Process(t)], c = [d EXCEPT !.used = 0, !.recycled = TRUE]
      PROVE  ChunkOK(c) /\ ChunkSize - c.used >= OpenSize
  <2>1. ChunkOK(d)
    BY DEF ChunksOK, Process
  <2>2. c.used = 0
    BY <1>3, <2>1 DEF ChunkOK, Chunks
  <2>3. ChunkOK(c)
    BY <1>3, <2>1, RecycledOK
  <2>4. ChunkSize - c.used >= OpenSize
    BY <2>2, ChunkSizeIs
  <2>. QED  BY <2>3, <2>4
<1>4. CASE ChunkSize - chunk[t].used >= OpenSize
  BY <1>1, <1>4 DEF Opened
<1>5. CASE ~(ChunkSize - chunk[t].used >= OpenSize)
  <2>1. c \in {Fresh}
              \cup {[d EXCEPT !.used = 0, !.recycled = TRUE] : d \in pool[Process(t)]}
    BY <1>5 DEF Opened
  <2>2. CASE c = Fresh
    BY <1>2, <2>2
  <2>3. CASE c # Fresh
    <3>1. PICK d \in pool[Process(t)] : c = [d EXCEPT !.used = 0, !.recycled = TRUE]
      BY <2>1, <2>3, Zenon
    <3>. QED  BY <1>3, <3>1
  <2>. QED  BY <2>2, <2>3
<1>. QED  BY <1>4, <1>5

\* What Make does to the chunks, with the writer it ends with.
Wrote(t, c, s) ==
    /\ chunk' = [chunk EXCEPT ![t] =
                    [c EXCEPT !.buffer = s.buffer, !.used = @ + s.pos,
                              !.sizes = @ \cup {s.pos}]]
    /\ pool' = [pool EXCEPT ![Process(t)] =
                   @ \cup (IF c = chunk[t] THEN {} ELSE {chunk[t]})]
    /\ torn' = IF s.sound THEN torn ELSE torn \cup {t}

\* A packet that a maker writes leaves the chunks as the invariant has them.
LEMMA WroteKeeps ==
    ASSUME ChunksOK, torn = {}, NEW t \in Threads, NEW c \in Opened(t), NEW s,
           Writes(Writer(c.buffer, c.used, OpenSize), s), Wrote(t, c, s)
    PROVE  ChunksOK' /\ TornOnlyOverMixed'
<1>. DEFINE d == [c EXCEPT !.buffer = s.buffer, !.used = @ + s.pos,
                           !.sizes = @ \cup {s.pos}]
<1>1. ChunkOK(d) /\ (~s.sound => d.recycled /\ Cardinality(d.sizes) > 1)
  BY OpenedIs, WriteKeeps
<1>2. chunk' = [chunk EXCEPT ![t] = d]
  BY DEF Wrote
<1>. HIDE DEF d
<1>3. DOMAIN chunk' = Threads /\ chunk'[t] = d /\ \A r \in Threads : ChunkOK(chunk'[r])
  BY <1>1, <1>2 DEF ChunksOK
<1>4. /\ DOMAIN pool' = {"GameServer", "DummyClient"}
      /\ \A p \in DOMAIN pool' : \A e \in pool'[p] : ChunkOK(e)
  <2>1. ChunkOK(chunk[t])
    BY DEF ChunksOK
  <2>2. DOMAIN pool' = {"GameServer", "DummyClient"}
    BY DEF Wrote, ChunksOK
  <2>3. ASSUME NEW p \in DOMAIN pool', NEW e \in pool'[p]
        PROVE  e \in pool[p] \/ e = chunk[t]
    BY <2>2 DEF Wrote, ChunksOK
  <2>. QED  BY <2>1, <2>2, <2>3 DEF ChunksOK
<1>5. ChunksOK'
  BY <1>3, <1>4 DEF ChunksOK
<1>6. TornOnlyOverMixed'
  <2>1. torn' \subseteq {t} /\ (torn' # {} => ~s.sound)
    BY DEF Wrote
  <2>. QED  BY <1>1, <1>3, <2>1 DEF TornOnlyOverMixed
<1>. QED  BY <1>5, <1>6

\* Packets sent and taken leave the channels as they were.
LEMMA ChannelKept ==
    ASSUME NEW ch \in [Sessions -> Seq(Messages)], NEW m \in Messages
    PROVE  /\ \A s \in Sessions : Send(ch, s, m) \in [Sessions -> Seq(Messages)]
           /\ Broadcast(ch, m) \in [Sessions -> Seq(Messages)]
<1>1. \A q \in Seq(Messages) : Append(q, m) \in Seq(Messages)
  BY AppendProperties
<1>. QED  BY <1>1 DEF Send, Broadcast

LEMMA HeadIs ==
    ASSUME NEW ch \in [Sessions -> Seq(Messages)], NEW s \in Sessions, ch[s] # <<>>
    PROVE  /\ Head(ch[s]) \in Messages
           /\ [ch EXCEPT ![s] = Tail(@)] \in [Sessions -> Seq(Messages)]
BY HeadTailProperties

\* The packet of a message tells which kind it is of, and is as long as it says.
LEMMA MessageIs ==
    ASSUME NEW m \in Messages
    PROVE  /\ m.pkt \in Seq(Byte) /\ m.made \in Made /\ Readable(m)
           /\ Header(m.pkt).id = m.made.kind /\ Header(m.pkt).size = Len(m.pkt)
BY DEF Messages, Readable

\* A handler shows the packet it took, but for the upper bits of a player's id.
LEMMA ShowIs ==
    ASSUME NEW m \in Messages, NEW as, Show(m, as),
           as = IF m.made.kind = S_CHAT THEN [m.made EXCEPT !.id = Low(@)] ELSE m.made
    PROVE  ShownAsMade'
<1>1. shown' = [of |-> m.made, as |-> as, framed |-> Header(m.pkt).size = Len(m.pkt)]
  BY DEF Show
<1>2. shown'.of = m.made /\ shown'.as = as /\ shown'.framed
  BY <1>1, MessageIs
<1>3. shown'.as = IF shown'.of.kind = S_CHAT THEN [shown'.of EXCEPT !.id = Low(@)]
                                              ELSE shown'.of
  BY <1>2
<1>. QED  BY <1>2, <1>3, SMT DEF ShownAsMade, Low

\* What does not change.
LEMMA ShownKept ==
    ASSUME ShownAsMade, UNCHANGED shown
    PROVE  ShownAsMade'
BY SMT DEF ShownAsMade

\* Ids have 64 bits: the rows of an INT column end before them.
LEMMA IdsAre ==
    ASSUME IInv
    PROVE  idGenerator \in Uint64 /\ \A s \in Sessions : player[s] \in Uint64
<1>1. /\ idGenerator \in Nat /\ idGenerator <= 2 * INT_MAX + 2
      /\ \A s \in Sessions : player[s] \in Nat /\ player[s] <= 2 * INT_MAX + 2
  BY IntWidthIs DEF IInv, DbTypes, PlayersInv, IdsInv
<1>2. 2 * INT_MAX + 2 <= 4294967296
  BY SMT, IntAssumption
<1>3. ASSUME NEW v \in Nat, v <= 2 * INT_MAX + 2
      PROVE  v \in Uint64
  <2>1. v <= 4294967296
    BY <1>2, <1>3, IntWidthIs, SMT
  <2>. QED  BY <2>1, SMT DEF Uint64
<1>. QED  BY <1>1, <1>3

\* Steps that neither make nor handle a packet, and stutters.
LEMMA QuietKeeps ==
    ASSUME BytesInv, UNCHANGED <<sendVars, netVars, shown>>
    PROVE  BytesInv'
<1>1. UNCHANGED <<chunk, pool, torn, toServer, toClient, shown>>
  BY DEF sendVars, netVars
<1>2. ChunksOK' /\ ChannelsOK' /\ TornOnlyOverMixed'
  BY <1>1 DEF BytesInv, ChunksOK, ChannelsOK, TornOnlyOverMixed
<1>3. ShownAsMade'
  BY <1>1, ShownKept DEF BytesInv
<1>. QED  BY <1>2, <1>3 DEF BytesInv

\* The writer of a thread that makes a packet.
LEMMA OpenIs ==
    ASSUME ChunksOK, NEW t \in Threads, NEW c \in Opened(t)
    PROVE  /\ Start(Writer(c.buffer, c.used, OpenSize))
           /\ Writer(c.buffer, c.used, OpenSize).sound
BY OpenedIs, WriterIs

\* The handlers of the client.
LEMMA OnConnectedBytes ==
    ASSUME BytesInv, torn = {}, NEW s \in Sessions, OnConnected(s)
    PROVE  BytesInv'
<1>. DEFINE made == [Blank EXCEPT !.kind = C_LOGIN]
            bw(c) == Writer(c.buffer, c.used, OpenSize)
<1>1. PICK c \in Opened("worker") :
          /\ Wrote("worker", c, Make_C_LOGIN(bw(c)))
          /\ toServer' = Send(toServer, s, Sent(Packet(Make_C_LOGIN(bw(c))), made))
  BY DEF OnConnected, Make, Wrote
<1>2. UNCHANGED <<toClient, shown>>
  BY DEF OnConnected
<1>3. "worker" \in Threads /\ ChunksOK
  BY DEF Threads, BytesInv
<1>4. Start(bw(c)) /\ bw(c).sound
  BY <1>3, OpenIs
<1>. HIDE DEF made
<1>5. Sent(Packet(Make_C_LOGIN(bw(c))), made) \in Messages
  BY <1>4, C_LOGINSent DEF made
<1>6. Writes(bw(c), Make_C_LOGIN(bw(c)))
  <2>1. 0 \in Nat
    OBVIOUS
  <2>. HIDE DEF bw
  <2>. QED  BY <1>4, <2>1, LoginsWrite
<1>7. ChunksOK' /\ TornOnlyOverMixed'
  BY <1>1, <1>3, <1>6, WroteKeeps
<1>8. ChannelsOK'
  <2>. DEFINE m == Sent(Packet(Make_C_LOGIN(bw(c))), made)
  <2>1. m \in Messages /\ toServer' = Send(toServer, s, m)
    BY <1>1, <1>5
  <2>. HIDE DEF m
  <2>. QED  BY <1>2, <2>1, ChannelKept DEF BytesInv, ChannelsOK
<1>9. ShownAsMade'
  BY <1>2, ShownKept DEF BytesInv
<1>. QED  BY <1>7, <1>8, <1>9 DEF BytesInv

\* The main loop of the client.
LEMMA MainBytes ==
    ASSUME BytesInv, torn = {}, NEW text \in Texts, Main(text)
    PROVE  BytesInv'
<1>. DEFINE made == [Blank EXCEPT !.kind = C_CHAT, !.text = text]
            bw(c) == Writer(c.buffer, c.used, OpenSize)
<1>1. PICK c \in Opened("main") :
          /\ Wrote("main", c, Make_C_CHAT(bw(c), text))
          /\ toServer' = Broadcast(toServer, Sent(Packet(Make_C_CHAT(bw(c), text)), made))
  BY DEF Main, Make, Wrote
<1>2. UNCHANGED <<toClient, shown>>
  BY DEF Main
<1>3. "main" \in Threads /\ ChunksOK /\ text \in Strings
  BY TextsAre DEF Threads, BytesInv
<1>4. Start(bw(c)) /\ bw(c).sound
  BY <1>3, OpenIs
<1>. HIDE DEF made
<1>5. Sent(Packet(Make_C_CHAT(bw(c), text)), made) \in Messages
  BY <1>3, <1>4, C_CHATSent DEF made
<1>6. Writes(bw(c), Make_C_CHAT(bw(c), text))
  <2>1. 0 \in Nat
    OBVIOUS
  <2>. HIDE DEF bw
  <2>. QED  BY <1>3, <1>4, <2>1, MakersWrite
<1>7. ChunksOK' /\ TornOnlyOverMixed'
  BY <1>1, <1>3, <1>6, WroteKeeps
<1>8. ChannelsOK'
  <2>. DEFINE m == Sent(Packet(Make_C_CHAT(bw(c), text)), made)
  <2>1. m \in Messages /\ toServer' = Broadcast(toServer, m)
    BY <1>1, <1>5
  <2>. HIDE DEF m
  <2>. QED  BY <1>2, <2>1, ChannelKept DEF BytesInv, ChannelsOK
<1>9. ShownAsMade'
  BY <1>2, ShownKept DEF BytesInv
<1>. QED  BY <1>7, <1>8, <1>9 DEF BytesInv

\* S_LOGIN is shown as it was made.
LEMMA Handle_S_LOGINBytes ==
    ASSUME BytesInv, torn = {}, NEW s \in Sessions, Handle_S_LOGIN(s)
    PROVE  BytesInv'
<1>. DEFINE m == Head(toClient[s])
            as == [Blank EXCEPT !.kind = S_LOGIN, !.id = PKT_S_LOGIN(m.pkt).id]
<1>1. /\ toClient[s] # <<>> /\ Header(m.pkt).id = S_LOGIN
      /\ toClient' = [toClient EXCEPT ![s] = Tail(@)] /\ Show(m, as)
      /\ UNCHANGED <<sendVars, toServer>>
  BY DEF Handle_S_LOGIN, ToClient
<1>2. /\ m \in Messages /\ toClient' \in [Sessions -> Seq(Messages)]
  BY <1>1, HeadIs DEF BytesInv, ChannelsOK
<1>. HIDE DEF m
<1>3. m.made.kind = S_LOGIN /\ m.made = as
  BY <1>1, <1>2, MessageIs DEF Readable
<1>4. ShownAsMade'
  <2>1. S_LOGIN # S_CHAT
    BY KindsDiffer
  <2>. HIDE DEF as
  <2>. QED  BY <1>1, <1>2, <1>3, <2>1, ShowIs
<1>5. ChannelsOK'
  BY <1>1, <1>2 DEF BytesInv, ChannelsOK
<1>6. ChunksOK' /\ TornOnlyOverMixed'
  BY <1>1 DEF BytesInv, ChunksOK, TornOnlyOverMixed, sendVars
<1>. QED  BY <1>4, <1>5, <1>6 DEF BytesInv

\* S_CHAT is shown with 16 bits of its id.
LEMMA Handle_S_CHATBytes ==
    ASSUME BytesInv, torn = {}, NEW s \in Sessions, Handle_S_CHAT(s)
    PROVE  BytesInv'
<1>. DEFINE m == Head(toClient[s])
            p == PKT_S_CHAT(m.pkt)
            as == [Blank EXCEPT !.kind = S_CHAT, !.id = p.id, !.text = p.msg]
<1>1. /\ toClient[s] # <<>> /\ Header(m.pkt).id = S_CHAT
      /\ toClient' = [toClient EXCEPT ![s] = Tail(@)] /\ Show(m, as)
      /\ UNCHANGED <<sendVars, toServer>>
  BY DEF Handle_S_CHAT, ToClient
<1>2. /\ m \in Messages /\ toClient' \in [Sessions -> Seq(Messages)]
  BY <1>1, HeadIs DEF BytesInv, ChannelsOK
<1>. HIDE DEF m
<1>3. /\ m.made.kind = S_CHAT /\ p.id = Low(m.made.id)
      /\ m.made = [Blank EXCEPT !.kind = S_CHAT, !.id = m.made.id, !.text = p.msg]
  BY <1>1, <1>2, MessageIs DEF Readable
<1>4. ShownAsMade'
  <2>1. as = [m.made EXCEPT !.id = Low(@)]
    <3>. DEFINE o == m.made
                t == p.msg
    <3>1. o = [Blank EXCEPT !.kind = S_CHAT, !.id = o.id, !.text = t]
      BY <1>3
    <3>2. as = [Blank EXCEPT !.kind = S_CHAT, !.id = Low(o.id), !.text = t]
      BY <1>3
    <3>. HIDE DEF o, t, as, p
    <3>3. o = [kind |-> S_CHAT, id |-> o.id, hp |-> 0, attack |-> 0, text |-> t,
               buffs |-> <<>>]
      BY <3>1 DEF Blank
    <3>4. as = [kind |-> S_CHAT, id |-> Low(o.id), hp |-> 0, attack |-> 0, text |-> t,
                buffs |-> <<>>]
      BY <3>2 DEF Blank
    <3>5. as = [o EXCEPT !.id = Low(@)]
      BY <3>3, <3>4
    <3>. QED  BY <3>5 DEF o
  <2>. HIDE DEF as
  <2>. QED  BY <1>1, <1>2, <1>3, <2>1, ShowIs
<1>5. ChannelsOK'
  BY <1>1, <1>2 DEF BytesInv, ChannelsOK
<1>6. ChunksOK' /\ TornOnlyOverMixed'
  BY <1>1 DEF BytesInv, ChunksOK, TornOnlyOverMixed, sendVars
<1>. QED  BY <1>4, <1>5, <1>6 DEF BytesInv

\* C_TEST is shown as it was made.
LEMMA Handle_C_TESTBytes ==
    ASSUME BytesInv, torn = {}, NEW s \in Sessions, Handle_C_TEST(s)
    PROVE  BytesInv'
<1>. DEFINE m == Head(toServer[s])
<1>1. /\ toServer[s] # <<>> /\ Header(m.pkt).id = C_TEST
      /\ toServer' = [toServer EXCEPT ![s] = Tail(@)] /\ Show(m, TestShown(m, C_TEST))
      /\ UNCHANGED <<sendVars, toClient>>
  BY DEF Handle_C_TEST, ToServer
<1>2. /\ m \in Messages /\ toServer' \in [Sessions -> Seq(Messages)]
  BY <1>1, HeadIs DEF BytesInv, ChannelsOK
<1>. HIDE DEF m
<1>3. m.made.kind = C_TEST /\ TestShown(m, C_TEST) = m.made
  BY <1>1, <1>2, MessageIs DEF Readable
<1>4. ShownAsMade'
  <2>1. C_TEST # S_CHAT
    BY KindsDiffer
  <2>. QED  BY <1>1, <1>2, <1>3, <2>1, ShowIs
<1>5. ChannelsOK'
  BY <1>1, <1>2 DEF BytesInv, ChannelsOK
<1>6. ChunksOK' /\ TornOnlyOverMixed'
  BY <1>1 DEF BytesInv, ChunksOK, TornOnlyOverMixed, sendVars
<1>. QED  BY <1>4, <1>5, <1>6 DEF BytesInv

\* A test packet made over the chunk of a thread.
LEMMA TestMade ==
    ASSUME BytesInv, torn = {}, NEW t \in Threads, NEW c \in Opened(t),
           NEW id \in Uint64, NEW hp \in Uint32, NEW attack \in Uint16, NEW l \in Lists,
           NEW name \in Strings, NEW kind \in {S_TEST, C_TEST},
           Wrote(t, c, Finish(MakeTest(Writer(c.buffer, c.used, OpenSize), id, hp, attack,
                                       l, name), kind))
    PROVE  /\ ChunksOK' /\ TornOnlyOverMixed'
           /\ Sent(Packet(Finish(MakeTest(Writer(c.buffer, c.used, OpenSize), id, hp,
                                          attack, l, name), kind)),
                   [kind |-> kind, id |-> id, hp |-> hp, attack |-> attack, text |-> name,
                    buffs |-> l]) \in Messages
<1>. DEFINE bw == Writer(c.buffer, c.used, OpenSize)
            s == Finish(MakeTest(bw, id, hp, attack, l, name), kind)
<1>1. ChunksOK
  BY DEF BytesInv
<1>2. Start(bw) /\ bw.sound
  BY <1>1, OpenIs
<1>3. kind \in Nat /\ attack \in Nat /\ id \in Nat /\ hp \in Nat
  BY KindsAre, SizesAre, UintIs
<1>4. Writes(bw, s)
  <2>. HIDE DEF bw
  <2>. QED  BY <1>2, <1>3, TestWrites
<1>5. Wrote(t, c, s)
  OBVIOUS
<1>6. Sent(Packet(s), [kind |-> kind, id |-> id, hp |-> hp, attack |-> attack,
                       text |-> name, buffs |-> l]) \in Messages
  <2>. HIDE DEF bw
  <2>. QED  BY <1>2, TestSent
<1>7. ChunksOK' /\ TornOnlyOverMixed'
  <2>. HIDE DEF s
  <2>. QED  BY <1>1, <1>4, <1>5, WroteKeeps
<1>. QED  BY <1>6, <1>7

\* The answer to a test packet.
LEMMA AnswerOf ==
    ASSUME NEW p \in Made
    PROVE  [p EXCEPT !.kind = C_TEST, !.buffs = Answer]
             = [kind |-> C_TEST, id |-> p.id, hp |-> p.hp, attack |-> p.attack,
                text |-> p.text, buffs |-> Answer]
<1>. DEFINE k == C_TEST    a == Answer
<1>. HIDE DEF k, a
<1>1. p = [kind |-> p.kind, id |-> p.id, hp |-> p.hp, attack |-> p.attack,
           text |-> p.text, buffs |-> p.buffs]
  BY DEF Made
<1>. DEFINE q == [p EXCEPT !.kind = k]
<1>2. q = [kind |-> k, id |-> p.id, hp |-> p.hp, attack |-> p.attack,
           text |-> p.text, buffs |-> p.buffs]
  BY <1>1
<1>3. [p EXCEPT !.kind = k, !.buffs = a] = [q EXCEPT !.buffs = a]
  BY <1>1
<1>. HIDE DEF q
<1>4. [q EXCEPT !.buffs = a]
         = [kind |-> k, id |-> p.id, hp |-> p.hp, attack |-> p.attack,
            text |-> p.text, buffs |-> a]
  BY <1>2
<1>. QED  BY <1>3, <1>4 DEF k, a

\* S_TEST is shown as it was made, and answered.
LEMMA Handle_S_TESTBytes ==
    ASSUME BytesInv, torn = {}, NEW s \in Sessions, Handle_S_TEST(s)
    PROVE  BytesInv'
<1>. DEFINE m == Head(toClient[s])
            p == TestShown(m, S_TEST)
            made == [p EXCEPT !.kind = C_TEST, !.buffs = Answer]
            w(c) == Make_C_TEST(Writer(c.buffer, c.used, OpenSize), p.id, p.hp, p.attack,
                                Answer, p.text)
<1>1. /\ toClient[s] # <<>> /\ Header(m.pkt).id = S_TEST
      /\ toClient' = [toClient EXCEPT ![s] = Tail(@)] /\ Show(m, p)
      /\ \/ UNCHANGED <<sendVars, toServer>>
         \/ \E c \in Opened("worker") :
                /\ Wrote("worker", c, w(c))
                /\ toServer' = Broadcast(toServer, Sent(Packet(w(c)), made))
  BY DEF Handle_S_TEST, ToClient, Make, Wrote
<1>2. /\ m \in Messages /\ toClient' \in [Sessions -> Seq(Messages)]
  BY <1>1, HeadIs DEF BytesInv, ChannelsOK
<1>. HIDE DEF m
<1>3. m.made.kind = S_TEST /\ p = m.made /\ m.made \in Made
  BY <1>1, <1>2, MessageIs DEF Readable
<1>4. ShownAsMade'
  <2>1. S_TEST # S_CHAT
    BY KindsDiffer
  <2>. HIDE DEF p
  <2>. QED  BY <1>1, <1>2, <1>3, <2>1, ShowIs
<1>. HIDE DEF p
<1>6. CASE UNCHANGED <<sendVars, toServer>>
  <2>1. ChunksOK' /\ TornOnlyOverMixed' /\ ChannelsOK'
    BY <1>2, <1>6 DEF BytesInv, ChunksOK, TornOnlyOverMixed, sendVars, ChannelsOK
  <2>. QED  BY <1>4, <2>1 DEF BytesInv
<1>7. ASSUME NEW c \in Opened("worker"), Wrote("worker", c, w(c)),
             toServer' = Broadcast(toServer, Sent(Packet(w(c)), made))
      PROVE  BytesInv'
  <2>1. /\ p.id \in Uint64 /\ p.hp \in Uint32 /\ p.attack \in Uint16 /\ p.text \in Strings
    BY <1>3 DEF Made
  <2>2. made = [kind |-> C_TEST, id |-> p.id, hp |-> p.hp, attack |-> p.attack,
                   text |-> p.text, buffs |-> Answer]
    BY <1>3, AnswerOf
  <2>3. /\ "worker" \in Threads /\ Answer \in Lists /\ C_TEST \in {S_TEST, C_TEST}
        /\ w(c) = Finish(MakeTest(Writer(c.buffer, c.used, OpenSize), p.id, p.hp, p.attack,
                                  Answer, p.text), C_TEST)
    BY BuffsAre DEF Threads, Make_C_TEST
  <2>. HIDE DEF made, w
  <2>. DEFINE x1 == p.id    x2 == p.hp    x3 == p.attack    x4 == p.text
              f == Finish(MakeTest(Writer(c.buffer, c.used, OpenSize), x1, x2, x3,
                                   Answer, x4), C_TEST)
              g == [kind |-> C_TEST, id |-> x1, hp |-> x2, attack |-> x3,
                    text |-> x4, buffs |-> Answer]
  <2>4. w(c) = f /\ made = g
    BY <2>3, <2>2
  <2>5. /\ x1 \in Uint64 /\ x2 \in Uint32 /\ x3 \in Uint16 /\ x4 \in Strings
         /\ Wrote("worker", c, f)
    BY <1>7, <2>1, <2>4
  <2>6. ChunksOK' /\ TornOnlyOverMixed' /\ Sent(Packet(f), g) \in Messages
    <3>. HIDE DEF x1, x2, x3, x4
    <3>. QED  BY <2>3, <2>5, TestMade
  <2>7. ChunksOK' /\ TornOnlyOverMixed' /\ Sent(Packet(w(c)), made) \in Messages
    <3>. HIDE DEF f, g
    <3>. QED  BY <2>4, <2>6
  <2>8. ChannelsOK'
    <3>. DEFINE a == Sent(Packet(w(c)), made)
    <3>1. a \in Messages /\ toServer' = Broadcast(toServer, a)
      BY <1>7, <2>7
    <3>. HIDE DEF a
    <3>. QED  BY <1>2, <3>1, ChannelKept DEF BytesInv, ChannelsOK
  <2>. QED  BY <1>4, <2>7, <2>8 DEF BytesInv
<1>. QED  BY <1>1, <1>6, <1>7

\* A test packet of the server.
LEMMA SendTestBytes ==
    ASSUME BytesInv, torn = {}, NEW s \in Sessions, NEW buffs \in Buffs, NEW text \in Texts,
           SendTest(s, buffs, text)
    PROVE  BytesInv'
<1>. DEFINE made == TestOf(buffs, text)
            w(c) == Make_S_TEST(Writer(c.buffer, c.used, OpenSize), made.id, made.hp,
                                made.attack, buffs, text)
<1>1. PICK c \in Opened("server") :
          /\ Wrote("server", c, w(c))
          /\ toClient' = Send(toClient, s, Sent(Packet(w(c)), made))
  BY DEF SendTest, Make, Wrote
<1>2. UNCHANGED <<toServer, shown>>
  BY DEF SendTest
<1>. DEFINE x1 == made.id    x2 == made.hp    x3 == made.attack
<1>3. x1 \in Uint64 /\ x2 \in Uint32 /\ x3 \in Uint16
  BY SMT DEF TestOf, Uint64, Uint32, Uint16
<1>4. made = [kind |-> S_TEST, id |-> x1, hp |-> x2, attack |-> x3, text |-> text,
              buffs |-> buffs]
  BY SMT DEF TestOf
<1>. HIDE DEF made
<1>. DEFINE f == Finish(MakeTest(Writer(c.buffer, c.used, OpenSize), x1, x2, x3, buffs,
                                 text), S_TEST)
            g == [kind |-> S_TEST, id |-> x1, hp |-> x2, attack |-> x3, text |-> text,
                  buffs |-> buffs]
<1>5. w(c) = f
  BY DEF Make_S_TEST
<1>. HIDE DEF w, x1, x2, x3
<1>6. /\ "server" \in Threads /\ buffs \in Lists /\ S_TEST \in {S_TEST, C_TEST}
      /\ text \in Strings
  BY BuffsAre, TextsAre DEF Threads
<1>7. Wrote("server", c, f) /\ toClient' = Send(toClient, s, Sent(Packet(f), g))
  BY <1>1, <1>4, <1>5
<1>8. ChunksOK' /\ TornOnlyOverMixed' /\ Sent(Packet(f), g) \in Messages
  BY <1>3, <1>6, <1>7, TestMade
<1>9. ChannelsOK'
  <2>. DEFINE a == Sent(Packet(f), g)
  <2>1. a \in Messages /\ toClient' = Send(toClient, s, a)
    BY <1>7, <1>8
  <2>. HIDE DEF a
  <2>. QED  BY <1>2, <2>1, ChannelKept DEF BytesInv, ChannelsOK
<1>10. ShownAsMade'
  BY <1>2, ShownKept DEF BytesInv
<1>. QED  BY <1>8, <1>9, <1>10 DEF BytesInv

\* C_LOGIN is shown and answered with a new id.
LEMMA Handle_C_LOGINBytes ==
    ASSUME IInv, BytesInv, torn = {}, NEW s \in Sessions, Handle_C_LOGIN(s)
    PROVE  BytesInv'
<1>. DEFINE m == Head(toServer[s])
            as == [Blank EXCEPT !.kind = C_LOGIN]
            made == [Blank EXCEPT !.kind = S_LOGIN, !.id = idGenerator]
            w(c) == Make_S_LOGIN(Writer(c.buffer, c.used, OpenSize), idGenerator)
<1>1. /\ toServer[s] # <<>> /\ Header(m.pkt).id = C_LOGIN
      /\ toServer' = [toServer EXCEPT ![s] = Tail(@)] /\ Show(m, as)
      /\ \E c \in Opened("server") :
             /\ Wrote("server", c, w(c))
             /\ toClient' = Send(toClient, s, Sent(Packet(w(c)), made))
  BY DEF Handle_C_LOGIN, ToServer, Make, Wrote
<1>2. /\ m \in Messages /\ toServer' \in [Sessions -> Seq(Messages)]
  BY <1>1, HeadIs DEF BytesInv, ChannelsOK
<1>. HIDE DEF m
<1>3. m.made.kind = C_LOGIN /\ m.made = as
  BY <1>1, <1>2, MessageIs DEF Readable
<1>4. ShownAsMade'
  <2>1. C_LOGIN # S_CHAT
    BY KindsDiffer
  <2>. HIDE DEF as
  <2>. QED  BY <1>1, <1>2, <1>3, <2>1, ShowIs
<1>5. idGenerator \in Uint64 /\ idGenerator \in Nat
  BY IdsAre DEF IInv, DbTypes
<1>7. PICK c \in Opened("server") :
          /\ Wrote("server", c, w(c))
          /\ toClient' = Send(toClient, s, Sent(Packet(w(c)), made))
  BY <1>1
<1>8. "server" \in Threads /\ ChunksOK
  BY DEF Threads, BytesInv
<1>9. Start(Writer(c.buffer, c.used, OpenSize)) /\ Writer(c.buffer, c.used, OpenSize).sound
  BY <1>8, OpenIs
<1>10. Sent(Packet(w(c)), made) \in Messages
  BY <1>5, <1>9, S_LOGINSent
<1>11. Writes(Writer(c.buffer, c.used, OpenSize), w(c))
  BY <1>5, <1>9, LoginsWrite
<1>. HIDE DEF w, made
<1>12. ChunksOK' /\ TornOnlyOverMixed'
  BY <1>7, <1>8, <1>11, WroteKeeps
<1>13. ChannelsOK'
  <2>. DEFINE a == Sent(Packet(w(c)), made)
  <2>1. a \in Messages /\ toClient' = Send(toClient, s, a)
    BY <1>7, <1>10
  <2>. HIDE DEF a
  <2>. QED  BY <1>2, <2>1, ChannelKept DEF BytesInv, ChannelsOK
<1>. QED  BY <1>4, <1>12, <1>13 DEF BytesInv

\* C_CHAT is shown, and broadcast with the id of the player.
LEMMA Handle_C_CHATBytes ==
    ASSUME IInv, BytesInv, torn = {}, NEW s \in Sessions, Handle_C_CHAT(s)
    PROVE  BytesInv'
<1>. DEFINE m == Head(toServer[s])
            t == PKT_C_CHAT(m.pkt).msg
            as == [Blank EXCEPT !.kind = C_CHAT, !.text = t]
            made == [Blank EXCEPT !.kind = S_CHAT, !.id = player[s], !.text = t]
            w(c) == Make_S_CHAT(Writer(c.buffer, c.used, OpenSize), player[s], t)
<1>1. /\ toServer[s] # <<>> /\ Header(m.pkt).id = C_CHAT
      /\ toServer' = [toServer EXCEPT ![s] = Tail(@)]
      /\ \/ UNCHANGED <<sendVars, toClient, shown>>
         \/ /\ Show(m, as)
            /\ \E c \in Opened("server") :
                  /\ Wrote("server", c, w(c))
                  /\ toClient' = Broadcast(toClient, Sent(Packet(w(c)), made))
  BY DEF Handle_C_CHAT, ToServer, Make, Wrote
<1>2. /\ m \in Messages /\ toServer' \in [Sessions -> Seq(Messages)]
  BY <1>1, HeadIs DEF BytesInv, ChannelsOK
<1>. HIDE DEF m
<1>3. m.made.kind = C_CHAT /\ m.made = as /\ m.made \in Made
  BY <1>1, <1>2, MessageIs DEF Readable
<1>5. CASE UNCHANGED <<sendVars, toClient, shown>>
  <2>1. ChunksOK' /\ TornOnlyOverMixed' /\ ChannelsOK'
    BY <1>2, <1>5 DEF BytesInv, ChunksOK, TornOnlyOverMixed, sendVars, ChannelsOK
  <2>2. ShownAsMade'
    BY <1>5, ShownKept DEF BytesInv
  <2>. QED  BY <2>1, <2>2 DEF BytesInv
<1>6. ASSUME Show(m, as), NEW c \in Opened("server"), Wrote("server", c, w(c)),
             toClient' = Broadcast(toClient, Sent(Packet(w(c)), made))
      PROVE  BytesInv'
  <2>1. ShownAsMade'
    <3>1. C_CHAT # S_CHAT
      BY KindsDiffer
    <3>. HIDE DEF as
    <3>. QED  BY <1>2, <1>3, <1>6, <3>1, ShowIs
  <2>2. t \in Strings
    <3>1. m.made.text = t
      BY <1>3 DEF Blank
    <3>. QED  BY <1>3, <3>1 DEF Made
  <2>. HIDE DEF t
  <2>3. player[s] \in Uint64 /\ player[s] \in Nat
    BY IdsAre DEF IInv, DbTypes
  <2>4. "server" \in Threads /\ ChunksOK
    BY DEF Threads, BytesInv
  <2>5. /\ Start(Writer(c.buffer, c.used, OpenSize))
        /\ Writer(c.buffer, c.used, OpenSize).sound
    BY <2>4, OpenIs
  <2>6. Sent(Packet(w(c)), made) \in Messages
    BY <2>2, <2>3, <2>5, S_CHATSent
  <2>7. Writes(Writer(c.buffer, c.used, OpenSize), w(c))
    BY <2>2, <2>3, <2>5, MakersWrite
  <2>. HIDE DEF w, made
  <2>8. ChunksOK' /\ TornOnlyOverMixed'
    BY <1>6, <2>4, <2>7, WroteKeeps
  <2>9. ChannelsOK'
    <3>. DEFINE a == Sent(Packet(w(c)), made)
    <3>1. a \in Messages /\ toClient' = Broadcast(toClient, a)
      BY <1>6, <2>6
    <3>. HIDE DEF a
    <3>. QED  BY <1>2, <3>1, ChannelKept DEF BytesInv, ChannelsOK
  <2>. QED  BY <2>1, <2>8, <2>9 DEF BytesInv
<1>. QED  BY <1>1, <1>5, <1>6

\* The initial states.
LEMMA InitBytes ==
    ASSUME Init
    PROVE  BytesInv
<1>1. ChunksOK
  BY FreshOK DEF Init, ChunksOK
<1>2. ChannelsOK
  BY DEF Init, ChannelsOK
<1>4. torn = {} /\ shown = [of |-> Blank, as |-> Blank, framed |-> TRUE]
  BY DEF Init
<1>5. ShownAsMade
  <2>1. shown.framed /\ shown.as = Blank /\ shown.of = Blank /\ shown.of.kind # S_CHAT
    BY <1>4, BlankIs, KindsDiffer
  <2>. QED  BY <2>1, SMT DEF ShownAsMade
<1>. QED  BY <1>1, <1>2, <1>4, <1>5 DEF BytesInv, TornOnlyOverMixed

\* The database's own steps, and stutters.
LEMMA QuietBytes ==
    ASSUME BytesInv,
           \/ Connect \/ CreateTable \/ Elsewhere \/ LoginBind \/ LoginInsert
           \/ ChatBind \/ ChatSelect \/ ChatFetch \/ ChatUpdate \/ ChatInsert
           \/ UNCHANGED vars
    PROVE  BytesInv'
<1>1. ASSUME UNCHANGED <<sendVars, netVars, shown>>
      PROVE  BytesInv'
  BY <1>1, QuietKeeps
<1>2. CASE Elsewhere
  BY <1>1, <1>2 DEF Elsewhere
<1>3. CASE Connect \/ CreateTable
  BY <1>1, <1>3 DEF Connect, CreateTable
<1>4. CASE LoginBind \/ ChatBind
  BY <1>1, <1>4 DEF LoginBind, ChatBind
<1>5. CASE LoginInsert \/ ChatInsert
  BY <1>1, <1>5 DEF LoginInsert, ChatInsert
<1>6. CASE ChatSelect
  BY <1>1, <1>6 DEF ChatSelect
<1>7. CASE ChatFetch
  BY <1>1, <1>7 DEF ChatFetch
<1>8. CASE ChatUpdate
  BY <1>1, <1>8 DEF ChatUpdate
<1>9. CASE UNCHANGED vars
  BY <1>1, <1>9 DEF vars
<1>. QED  BY <1>2, <1>3, <1>4, <1>5, <1>6, <1>7, <1>8, <1>9

\* Every step.
LEMMA NextBytes ==
    ASSUME IInv, BytesInv, [Next]_vars
    PROVE  BytesInv'
<1>1. CASE UNCHANGED vars
  BY <1>1, QuietBytes
<1>2. ASSUME torn = {}, NEW s \in Sessions, Client(s)
      PROVE  BytesInv'
  BY <1>2, OnConnectedBytes, Handle_S_LOGINBytes, Handle_S_CHATBytes, Handle_S_TESTBytes
     DEF Client
<1>3. ASSUME torn = {}, NEW t \in Texts, Main(t)
      PROVE  BytesInv'
  BY <1>3, MainBytes
<1>4. ASSUME torn = {}, Server
      PROVE  BytesInv'
  <2>1. ASSUME NEW s \in Sessions, Handle_C_TEST(s) \/ Handle_C_LOGIN(s) \/ Handle_C_CHAT(s)
        PROVE  BytesInv'
    BY <1>4, <2>1, Handle_C_TESTBytes, Handle_C_LOGINBytes, Handle_C_CHATBytes
  <2>2. ASSUME NEW s \in Sessions, NEW b \in Buffs, NEW t \in Texts, SendTest(s, b, t)
        PROVE  BytesInv'
    BY <1>4, <2>2, SendTestBytes
  <2>. QED  BY <1>4, <2>1, <2>2, QuietBytes DEF Server
<1>. QED  BY <1>1, <1>2, <1>3, <1>4 DEF Next, Running, Rest

-----------------------------------------------------------------------------
(***************************************************************************)
(* The theorems about the bytes.                                           *)
(***************************************************************************)
\* Every packet on its way can be read by the handler of its kind as what it was made
\* of, for any texts of up to 15 characters, any sessions and logins and any
\* sizes of chunk and open part: no write leaves the part of the chunk that was opened.
THEOREM BytesInvariant == Spec => []BytesInv
<1>1. Init => IInv /\ BytesInv
  BY InitIInv, InitBytes
<1>2. IInv /\ BytesInv /\ [Next]_vars => (IInv /\ BytesInv)'
  BY NextIInv, NextBytes
<1>. QED  BY <1>1, <1>2, PTL DEF Spec

\* What the handlers of both programs show is what the makers were told, field by field,
\* except for an id of a player beyond 16 bits in S_CHAT.
THEOREM AlwaysShownAsMade == Spec => []ShownAsMade
<1>1. BytesInv => ShownAsMade
  BY DEF BytesInv
<1>. QED  BY <1>1, BytesInvariant, PTL

\* A string is written over something that is no string in place only in a chunk that
\* came back from the pool and had packets of several sizes.
THEOREM TornAlwaysOverMixed == Spec => []TornOnlyOverMixed
<1>1. BytesInv => TornOnlyOverMixed
  BY DEF BytesInv
<1>. QED  BY <1>1, BytesInvariant, PTL
=============================================================================
