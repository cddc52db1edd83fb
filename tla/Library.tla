------------------------------ MODULE Library ------------------------------
(***************************************************************************)
(* 3-tier-architecture: a library of books, members and loans, held in     *)
(* three maps.  A request runs to its end before the next one starts, so   *)
(* an action is a whole request; one that is refused at once does nothing  *)
(* and is left out.  Two requests can be refused half way: updateBook and  *)
(* updateMember assign to the stored object field after field.             *)
(*                                                                         *)
(* A field that an update leaves out is one it gives its present value.    *)
(* Titles, names, phones and dates are told apart only as blank or not.    *)
(***************************************************************************)
EXTENDS Naturals, FiniteSets

CONSTANTS
    BookIds, MemberIds, LoanIds,  \* what generateId may return
    Isbns,
    Emails,
    Copies,         \* numbers of copies, and limits of loans, that are asked for
    DEFAULT_LIMIT   \* maxLoans of a new member

ASSUME LibraryAssumption ==
    /\ Copies \subseteq Nat
    /\ DEFAULT_LIMIT \in Nat

VARIABLES
    books,    \* books on file, by id
    members,  \* members on file, by id
    loans,    \* every loan ever made, by id
    issued    \* ids that were given out: a UUID comes once

vars == <<books, members, loans, issued>>

-----------------------------------------------------------------------------

Book == [isbn : Isbns, total : Nat, available : Nat, status : {"available", "unavailable"}]

Member == [email : Emails, maxLoans : Nat, status : {"active", "inactive"}]

Loan == [book : BookIds, member : MemberIds, status : {"active", "returned"}]

TypeOK ==
    /\ DOMAIN books \subseteq issued \cap BookIds
    /\ books \in [DOMAIN books -> Book]
    /\ DOMAIN members \subseteq issued \cap MemberIds
    /\ members \in [DOMAIN members -> Member]
    /\ DOMAIN loans \subseteq issued \cap LoanIds
    /\ loans \in [DOMAIN loans -> Loan]
    /\ \A l \in DOMAIN loans : loans[l].book \in issued

Init ==
    /\ books = <<>>
    /\ members = <<>>
    /\ loans = <<>>
    /\ issued = {}

-----------------------------------------------------------------------------
(* The repositories *)

\* save of a new entity, and delete.
Save(store, id, entity) ==
    [x \in DOMAIN store \cup {id} |-> IF x = id THEN entity ELSE store[x]]

Delete(store, id) == [x \in DOMAIN store \ {id} |-> store[x]]

FindByIsbn(isbn) == {b \in DOMAIN books : books[b].isbn = isbn}

FindByEmail(email) == {m \in DOMAIN members : members[m].email = email}

FindActiveByBookId(b) == {l \in DOMAIN loans : loans[l].book = b /\ loans[l].status = "active"}

FindActiveByMemberId(m) ==
    {l \in DOMAIN loans : loans[l].member = m /\ loans[l].status = "active"}

-----------------------------------------------------------------------------
(* Books *)

StatusOf(available) == IF available > 0 THEN "available" ELSE "unavailable"

CreateBook(b, isbn, total) ==
    /\ b \in BookIds \ issued
    /\ total >= 1
    /\ FindByIsbn(isbn) = {}
    /\ books' = Save(books, b, [isbn |-> isbn, total |-> total, available |-> total,
                                status |-> "available"])
    /\ issued' = issued \cup {b}
    /\ UNCHANGED <<members, loans>>

LentOut(book) == book.total - book.available

\* The last part of updateBook: what is lent out stays lent out, and a total
\* below it is refused.
Resize(book, total) ==
    IF total < 1 \/ total < LentOut(book)
    THEN book
    ELSE [book EXCEPT !.total = total,
                      !.available = total - LentOut(book),
                      !.status = StatusOf(total - LentOut(book))]

\* A blank genre is found after the ISBN was assigned, and so is a bad total:
\* the request fails, and the stored book has its new ISBN all the same.
UpdateBook(b, isbn, total, blank) ==
    /\ b \in DOMAIN books
    /\ FindByIsbn(isbn) \subseteq {b}
    /\ LET named == [books[b] EXCEPT !.isbn = isbn]
       IN  books' = [books EXCEPT ![b] = IF blank THEN named ELSE Resize(named, total)]
    /\ UNCHANGED <<members, loans, issued>>

\* Nothing asks whether copies of the book are lent out.
DeleteBook(b) ==
    /\ b \in DOMAIN books
    /\ books' = Delete(books, b)
    /\ UNCHANGED <<members, loans, issued>>

-----------------------------------------------------------------------------
(* Members *)

CreateMember(m, email) ==
    /\ m \in MemberIds \ issued
    /\ FindByEmail(email) = {}
    /\ members' = Save(members, m, [email |-> email, maxLoans |-> DEFAULT_LIMIT,
                                    status |-> "active"])
    /\ issued' = issued \cup {m}
    /\ UNCHANGED <<books, loans>>

\* As updateBook: a blank phone or a limit of 0 is found after the address was
\* assigned.
UpdateMember(m, email, limit, status, blank) ==
    /\ m \in DOMAIN members
    /\ FindByEmail(email) \subseteq {m}
    /\ members' =
         [members EXCEPT ![m] =
            IF blank \/ limit < 1
            THEN [@ EXCEPT !.email = email]
            ELSE [email |-> email, maxLoans |-> limit, status |-> status]]
    /\ UNCHANGED <<books, loans, issued>>

DeleteMember(m) ==
    /\ m \in DOMAIN members
    /\ members' = Delete(members, m)
    /\ UNCHANGED <<books, loans, issued>>

-----------------------------------------------------------------------------
(* Loans *)

TakeCopy(book) ==
    [book EXCEPT !.available = book.available - 1, !.status = StatusOf(book.available - 1)]

BorrowBook(l, b, m) ==
    /\ l \in LoanIds \ issued
    /\ b \in DOMAIN books /\ m \in DOMAIN members
    /\ members[m].status # "inactive"
    /\ books[b].available >= 1
    /\ Cardinality(FindActiveByMemberId(m)) < members[m].maxLoans
    /\ books' = [books EXCEPT ![b] = TakeCopy(books[b])]
    /\ loans' = Save(loans, l, [book |-> b, member |-> m, status |-> "active"])
    /\ issued' = issued \cup {l}
    /\ UNCHANGED members

PutBack(book) == [book EXCEPT !.available = book.available + 1, !.status = "available"]

\* Slip: a loan that was returned is returned again.
ReturnBookTwice(l) ==
    /\ l \in DOMAIN loans
    /\ loans' = [loans EXCEPT ![l].status = "returned"]
    /\ books' = IF loans[l].book \in DOMAIN books
                THEN [books EXCEPT ![loans[l].book] = PutBack(@)]
                ELSE books
    /\ UNCHANGED <<members, issued>>

\* The book may be gone by now; the member is not looked at.
ReturnBook(l) ==
    /\ l \in DOMAIN loans
    /\ loans[l].status # "returned"
    /\ loans' = [loans EXCEPT ![l].status = "returned"]
    /\ books' = IF loans[l].book \in DOMAIN books
                THEN [books EXCEPT ![loans[l].book] = PutBack(@)]
                ELSE books
    /\ UNCHANGED <<members, issued>>

-----------------------------------------------------------------------------

Next ==
    \/ \E b \in BookIds :
         \/ \E isbn \in Isbns, total \in Copies :
              \/ CreateBook(b, isbn, total)
              \/ \E blank \in BOOLEAN : UpdateBook(b, isbn, total, blank)
         \/ DeleteBook(b)
         \/ \E l \in LoanIds, m \in MemberIds : BorrowBook(l, b, m)
    \/ \E m \in MemberIds :
         \/ \E email \in Emails :
              \/ CreateMember(m, email)
              \/ \E limit \in Copies, status \in {"active", "inactive"}, blank \in BOOLEAN :
                   UpdateMember(m, email, limit, status, blank)
         \/ DeleteMember(m)
    \/ \E l \in LoanIds : ReturnBook(l)

Spec == Init /\ [][Next]_vars

-----------------------------------------------------------------------------
(* Properties *)

\* The copies of a book on file are those available and those that active
\* loans hold, and its status says whether there is one: through totals that
\* change, updates refused half way, books and members deleted with copies
\* out, and returns that come after.
CopiesAddUp ==
    \A b \in DOMAIN books :
        /\ books[b].available + Cardinality(FindActiveByBookId(b)) = books[b].total
        /\ books[b].status = StatusOf(books[b].available)

\* Two books on file never have one ISBN, two members never one address
\* (book.service.ts:38, member.service.ts:25), though an update that is
\* refused may have changed either.
NamesUnique ==
    /\ \A b, c \in DOMAIN books : books[b].isbn = books[c].isbn => b = c
    /\ \A m, n \in DOMAIN members : members[m].email = members[n].email => m = n

=============================================================================
