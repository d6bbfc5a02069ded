------------------------------ MODULE PaginatedQuery ------------------------------
(* Pages of a table: db/pagination.rs (PaginationParams, Paginated), the filtered and  *)
(* searched list of db/paginated_query.rs (PaginatedQuery) and the older text builder  *)
(* of db/query.rs (QueryBuilder). A list is answered by two statements, one for the    *)
(* rows and one for their number, and others write between them. A client reads pages  *)
(* as long as the answer says that there is a next one.                                *)
EXTENDS Integers, SequencesExt, FiniteSetsExt

CONSTANTS Ids,         \* rows the table can hold
          Liked,       \* the rows that the search finds
          MaxPerPage,  \* MAX_PER_PAGE
          Width,       \* numbers of pages have this many values (2^32)
          Tables,      \* the rows there are at the start
          MaxWrites    \* bound: rows others insert or delete

PagesAssumption == /\ Ids \subseteq Nat \ {0} /\ Liked \subseteq Ids /\ Tables \subseteq SUBSET Ids
                   /\ {MaxPerPage, Width} \subseteq Nat \ {0} /\ MaxWrites \in Nat

VARIABLES table,    \* the rows
          list,     \* the list a handler builds, and the parameters of the URL
          step,     \* where the answer is
          seen,     \* history: the rows the client was given, page after page
          writes    \* history: writes of others so far

pages == <<table, list, step, seen, writes>>

Pattern == "%text%"

(* A condition of the list: its column, the ? of its text and the values it came with. *)
Condition(col, marks, vals) == [col |-> col, marks |-> marks, vals |-> vals]

Conditions == {Condition("id", 1, <<2>>), Condition("no name", 1, <<2>>),
               Condition("raw", 0, <<>>), Condition("raw", 2, <<3, 1>>), Condition("raw", 1, <<3, 1>>)}

(* Two columns to sort by: ids are all different, kinds all the same.                  *)
Plain == [how |-> "paginated", conds |-> <<>>, searched |-> 0, search |-> FALSE,
          misnamed |-> FALSE, fixed |-> FALSE, allowed |-> {"kind"}, default |-> "id",
          ascending |-> TRUE, prefix |-> "none", base |-> <<"FROM", "t">>, count_from |-> "none",
          group |-> FALSE, sort |-> "none", order |-> "asc",
          first |-> 1, page |-> 1, per_page |-> 2]

(* The words of the base after SELECT, and what count_from gives. The last two have     *)
(* their FROM at the start of a line.                                                   *)
Bases == {<<<<"FROM", "t">>, "none">>, <<<<"(", "FROM", "u", ")", "FROM", "t">>, "none">>,
          <<<<"\nFROM", "t">>, "none">>, <<<<"\nFROM", "t">>, "t">>}

(* Lists that differ in what is filtered, in what is sorted, and in what is paged.     *)
Filtered == {[Plain EXCEPT !.conds = conds, !.searched = n, !.search = s, !.misnamed = m,
                           !.base = base[1], !.count_from = base[2]] :
                conds \in UNION {[1 .. n -> Conditions] : n \in 0 .. 2},
                n \in 0 .. 2, s \in BOOLEAN, m \in BOOLEAN,
                base \in Bases}

Sorted == {[Plain EXCEPT !.allowed = allowed, !.default = default, !.sort = sort,
                         !.order = order, !.ascending = ascending, !.prefix = prefix,
                         !.fixed = fixed] :
              allowed \in {{}, {"kind"}}, default \in {"id", "no name"},
              sort \in {"none", "kind", "no name"}, order \in {"asc", "desc", "other"},
              ascending \in BOOLEAN, prefix \in {"none", "t", "no name"}, fixed \in BOOLEAN}

Paged == {[Plain EXCEPT !.how = how[1], !.group = how[2], !.first = page, !.page = page, !.per_page = per_page,
                        !.order = order, !.searched = 2, !.search = search] :
             how \in {<<"paginated", FALSE>>, <<"builder", FALSE>>, <<"builder", TRUE>>}, page \in 0 .. Width - 1,
             per_page \in 0 .. MaxPerPage + 2, order \in {"asc", "desc"}, search \in BOOLEAN}

Asking == [at |-> "asking"]

Init == /\ table \in Tables
        /\ list \in Filtered \union Sorted \union Paged
        /\ step = Asking /\ seen = <<>> /\ writes = 0

-----------------------------------------------------------------------------------
(* PaginationParams. *)

safe_per_page == Max({1, Min({list.per_page, MaxPerPage})})

Exact_OneBased == list.page * safe_per_page

Exact == Max({0, list.page - 1}) * safe_per_page

(* The product is one of 32 bits: a release build wraps, a debug build panics. *)
Overflows == Exact >= Width
offset == Exact % Width

(* QueryBuilder allows no column but id. *)
SortColumn == IF list.how = "builder" THEN "id"
              ELSE IF list.sort \in list.allowed THEN list.sort ELSE list.default

(* order_direction of QueryBuilder; a list has a default direction of its own. *)
Ascending == \/ list.order = "asc"
             \/ list.how = "paginated" /\ list.order # "desc" /\ list.ascending

-----------------------------------------------------------------------------------
(* PaginatedQuery::prepare and QueryBuilder::paginate: two texts and one list of values, *)
(* bound to both. Of a text: which conditions it has, the numbers of their placeholders, *)
(* and those of LIMIT and OFFSET where they are bound.                                   *)

RefusedSort == ~list.fixed /\ "no name" \in {SortColumn, list.prefix}

(* A raw condition has as many ? as values. *)
Refused == /\ list.how = "paginated"
           /\ \/ RefusedSort \/ (list.misnamed /\ list.searched > 0)
              \/ \E i \in DOMAIN list.conds : \/ list.conds[i].col = "no name"
                                              \/ list.conds[i].marks # Len(list.conds[i].vals)

HasSearch == list.search /\ list.searched > 0

Wanted == list.conds \o (IF HasSearch
                         THEN <<Condition("any", list.searched, [k \in 1 .. list.searched |-> Pattern])>>
                         ELSE <<>>)

MarksBefore(i) == FoldLeft(LAMBDA n, cond : n + cond.marks, 0, SubSeq(Wanted, 1, i - 1))

(* where_sql: ph_idx runs through the conditions, and then through the searched columns. *)
where_sql == [i \in DOMAIN Wanted |->
                 [col |-> Wanted[i].col, marks |-> [k \in 1 .. Wanted[i].marks |-> MarksBefore(i) + k]]]

ph_idx == MarksBefore(Len(Wanted) + 1)

binds == FlattenSeq([i \in DOMAIN Wanted |-> Wanted[i].vals])

(* A page is bound, QueryBuilder writes it into the text. *)
data_sql == [where |-> where_sql,
             page |-> IF list.how = "paginated" THEN <<ph_idx + 1, ph_idx + 2>> ELSE <<>>,
             args |-> IF list.how = "paginated" THEN binds \o <<safe_per_page, offset>> ELSE binds]

(* extract_from_clause: what follows the first FROM outside of parentheses that stands    *)
(* between two spaces; without one, the whole base, which after SELECT COUNT is no        *)
(* statement. count_from takes the place of all that.                                     *)
Depth(i) == Quantify(1 .. i, LAMBDA j : list.base[j] = "(")
            - Quantify(1 .. i, LAMBDA j : list.base[j] = ")")

TopLevel == {i \in DOMAIN list.base : list.base[i] = "FROM" /\ Depth(i) = 0}

NoTable == "no table"
From == IF list.count_from # "none" THEN list.count_from
        ELSE IF TopLevel = {} THEN NoTable ELSE list.base[Min(TopLevel) + 1]

count_sql_Unfiltered == [where |-> <<>>, page |-> <<>>, args |-> <<>>, from |-> From, group |-> list.group]

(* The count reuses the numbers of the conditions, and the GROUP BY of QueryBuilder.     *)
count_sql == [where |-> where_sql, page |-> <<>>, args |-> binds, from |-> From, group |-> list.group]

-----------------------------------------------------------------------------------
(* The database: conditions other than the search hold of every row; rows that compare  *)
(* equal come in an order of its own choice.                                            *)

Found(statement) == IF \E i \in DOMAIN statement.where : statement.where[i].col = "any"
                    THEN table \intersect Liked ELSE table

InOrder(rows) == \A i, j \in DOMAIN rows : i < j => IF Ascending THEN rows[i] < rows[j]
                                                                 ELSE rows[i] > rows[j]

Orders(rows) == IF SortColumn = "kind" \/ list.fixed THEN SetToSeqs(rows)
                ELSE {order \in SetToSeqs(rows) : InOrder(order)}

Cut(order, skip, max) == SubSeq(order, skip + 1, Min({skip + max, Len(order)}))

-----------------------------------------------------------------------------------
(* The answer: the rows, their number, and the page that Paginated::new describes.      *)

Refuse == /\ step = Asking /\ Refused
          /\ step' = [at |-> "refused"]
          /\ UNCHANGED <<table, list, seen, writes>>

Panic == /\ step = Asking /\ ~Refused /\ Overflows
         /\ step' = [at |-> "panicked"]
         /\ UNCHANGED <<table, list, seen, writes>>

FetchRows == /\ step = Asking /\ ~Refused
             /\ \E order \in Orders(Found(data_sql)) :
                   LET data == Cut(order, offset, safe_per_page)
                   IN  /\ step' = [at |-> "counting", data |-> data, data_sql |-> data_sql]
                       /\ seen' = seen \o data
             /\ UNCHANGED <<table, list, writes>>

(* Paginated::new divides by per_page as it was asked, in floating point: by zero the  *)
(* quotient is infinite, or not a number when there is nothing, and saturates.         *)
TotalPages(total) == IF list.per_page > 0 THEN (total + list.per_page - 1) \div list.per_page
                     ELSE IF total = 0 THEN 0 ELSE Width - 1

(* What the database answers to the count: a number for each group, by id here; one that *)
(* is nobody's when the table is another.                                                *)
Counts(statement) == CASE statement.from = NoTable -> {}
                       [] statement.from = "t" /\ statement.group -> {1 : id \in Found(statement)}
                       [] statement.from = "t" /\ ~statement.group -> {Cardinality(Found(statement))}
                       [] OTHER -> {0}

(* An error of the database, or no group to read. *)
CountFails == /\ step.at = "counting" /\ Counts(count_sql) = {}
              /\ step' = [at |-> "failed"]
              /\ UNCHANGED <<table, list, seen, writes>>

FetchCount ==
    \E total \in Counts(count_sql) :
        /\ step.at = "counting"
        /\ step' = [at |-> "answered", data |-> step.data, data_sql |-> step.data_sql,
                    count_sql |-> count_sql, total |-> total,
                    has_next |-> list.page < TotalPages(total), has_prev |-> list.page > 1]
        /\ UNCHANGED <<table, list, seen, writes>>

NextPage == /\ step.at = "answered" /\ step.has_next /\ list.page < Width - 1
            /\ list' = [list EXCEPT !.page = @ + 1]
            /\ step' = Asking
            /\ UNCHANGED <<table, seen, writes>>

Write(id) == /\ writes < MaxWrites /\ list.conds = <<>> /\ list.searched = 2   \* bound
             /\ table' = IF id \in table THEN table \ {id} ELSE table \union {id}
             /\ writes' = writes + 1
             /\ UNCHANGED <<list, step, seen>>

Next == \/ Refuse \/ Panic \/ FetchRows \/ FetchCount \/ CountFails \/ NextPage
        \/ \E id \in Ids : Write(id)

Spec == Init /\ [][Next]_pages

-----------------------------------------------------------------------------------
(* Properties. *)

TypeOK == /\ table \subseteq Ids /\ ToSet(seen) \subseteq Ids
          /\ step.at \in {"asking", "refused", "panicked", "counting", "answered", "failed"}

Numbers(statement) ==
    FlattenSeq([i \in DOMAIN statement.where |-> statement.where[i].marks]) \o statement.page

(* Arguments are read in the order of the text, or by their numbers: the same thing     *)
(* when the numbers follow the text and none is missing.                                *)
BindsInOrder(statement) == Numbers(statement) = [k \in DOMAIN statement.args |-> k]

(* The exceptions: the count of a grouped list is that of one group, and a FROM that does *)
(* not stand between two spaces is not found.                                             *)
LosesFrom == "FROM" \notin ToSet(list.base) /\ list.count_from = "none"

(* The rows and their number are those of one and the same condition, although its      *)
(* values are bound twice, before others in one of the two statements. But for the      *)
(* exceptions, the number is that of the rows, and there is one.                        *)
CountsWhatItLists ==
    /\ step.at = "failed" => list.group \/ LosesFrom
    /\ step.at = "answered" =>
        /\ BindsInOrder(step.data_sql) /\ BindsInOrder(step.count_sql)
        /\ step.count_sql.where = step.data_sql.where
        /\ SubSeq(step.data_sql.args, 1, Len(step.count_sql.args)) = step.count_sql.args
        /\ writes = 0 => /\ list.group \/ step.total = Cardinality(Found(step.data_sql))
                         /\ ToSet(step.data) \subseteq Found(step.count_sql)

Ordinary == /\ SortColumn = "id" /\ ~list.fixed /\ ~list.group
            /\ list.per_page \in 1 .. MaxPerPage /\ list.first > 0
            /\ (list.first - 1) * list.per_page < Width

(* The client that follows has_next to the end is given every row of the list once and  *)
(* in order, from the page it began with: as long as nobody writes, no two rows compare  *)
(* equal or are grouped, the offset of that page fits and the size it asks for is        *)
(* granted. A larger size is cut for the rows, not for the number of pages: has_next     *)
(* ends too early.                                                                       *)
PagesCoverTheTable ==
    step.at = "answered" /\ ~step.has_next /\ writes = 0 /\ Ordinary
    => \A order \in Orders(Found(step.data_sql)) :
           seen = Cut(order, (list.first - 1) * list.per_page, Len(order))
==================================================================================
