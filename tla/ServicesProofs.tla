--------------------------- MODULE ServicesProofs ---------------------------
(***************************************************************************)
(* Theorems about the small servers, each by itself: the library, the bank *)
(* accounts, and the servers of tasks, for any values of the constants and *)
(* any number of requests, users and calls.                                *)
(***************************************************************************)
EXTENDS MCServices, SequencesExt, SumTheorems, SequenceTheorems, TLAPS

-----------------------------------------------------------------------------
(* The library.  That a total stays a natural number follows from the      *)
(* copies adding up, and these from the types: the three are one inductive *)
(* invariant.                                                              *)

LibraryInv ==
    /\ TypeOK
    /\ IsFiniteSet(DOMAIN loans)
    /\ CopiesAddUp
    /\ NamesUnique

-----------------------------------------------------------------------------
(* Lent copies *)

LEMMA ActiveFinite ==
    ASSUME IsFiniteSet(DOMAIN loans), NEW b
    PROVE  IsFiniteSet(FindActiveByBookId(b)) /\ Cardinality(FindActiveByBookId(b)) \in Nat
<1>1. FindActiveByBookId(b) \subseteq DOMAIN loans
  BY DEF FindActiveByBookId
<1> QED BY <1>1, FS_Subset, FS_CardinalityType

\* What is lent out of a book on file is a number, and it is the active loans.
LEMMA LentIsActive ==
    ASSUME TypeOK, IsFiniteSet(DOMAIN loans), CopiesAddUp, NEW b \in DOMAIN books
    PROVE  /\ LentOut(books[b]) \in Nat
           /\ LentOut(books[b]) = Cardinality(FindActiveByBookId(b))
           /\ books[b].available + LentOut(books[b]) = books[b].total
<1>1. Cardinality(FindActiveByBookId(b)) \in Nat
  BY ActiveFinite
<1>2. books[b].total \in Nat /\ books[b].available \in Nat
  BY DEF TypeOK, Book
<1> QED BY <1>1, <1>2 DEF CopiesAddUp, LentOut

\* A book that never had an id given out has no loan.
LEMMA NewBookNotLent ==
    ASSUME TypeOK, NEW b, b \notin issued
    PROVE  Cardinality(FindActiveByBookId(b)) = 0
<1>1. FindActiveByBookId(b) = {}
  BY DEF TypeOK, FindActiveByBookId
<1> QED BY <1>1, FS_EmptySet

LEMMA ActiveUnchanged ==
    ASSUME UNCHANGED loans
    PROVE  \A b : FindActiveByBookId(b)' = FindActiveByBookId(b)
BY DEF FindActiveByBookId

-----------------------------------------------------------------------------
(* Books *)

LEMMA LibraryInitInv == ASSUME Init PROVE LibraryInv
<1>1. DOMAIN books = {} /\ DOMAIN members = {} /\ DOMAIN loans = {}
  BY DEF Init
<1>2. TypeOK
  BY <1>1 DEF Init, TypeOK
<1>3. IsFiniteSet(DOMAIN loans)
  BY <1>1, FS_EmptySet
<1> QED BY <1>1, <1>2, <1>3 DEF LibraryInv, CopiesAddUp, NamesUnique

LEMMA CreateBookInv ==
    ASSUME LibraryInv, NEW b \in BookIds, NEW isbn \in Isbns, NEW total \in Copies,
           CreateBook(b, isbn, total)
    PROVE  LibraryInv'
<1> DEFINE new == [isbn |-> isbn, total |-> total, available |-> total, status |-> "available"]
<1>1. /\ b \notin issued /\ b \notin DOMAIN books
      /\ total >= 1 /\ total \in Nat
      /\ issued' = issued \cup {b}
      /\ members' = members /\ loans' = loans
  BY LibraryAssumption DEF LibraryInv, TypeOK, CreateBook
<1>2. /\ DOMAIN books' = DOMAIN books \cup {b}
      /\ books'[b] = new
      /\ \A c \in DOMAIN books : books'[c] = books[c]
      /\ books' = [c \in DOMAIN books \cup {b} |-> IF c = b THEN new ELSE books[c]]
  BY <1>1 DEF CreateBook, Save
<1>3. new \in Book
  BY <1>1 DEF Book
<1> HIDE DEF new
<1>4. TypeOK'
  BY <1>1, <1>2, <1>3 DEF LibraryInv, TypeOK
<1>5. CopiesAddUp'
  <2>1. Cardinality(FindActiveByBookId(b))' = 0
    BY <1>1, NewBookNotLent, ActiveUnchanged DEF LibraryInv
  <2>2. new.available + 0 = new.total /\ new.status = StatusOf(new.available)
    BY <1>1 DEF new, StatusOf
  <2>3. \A c \in DOMAIN books : FindActiveByBookId(c)' = FindActiveByBookId(c)
    BY <1>1, ActiveUnchanged
  <2> QED BY <1>2, <2>1, <2>2, <2>3 DEF LibraryInv, CopiesAddUp
<1>6. NamesUnique'
  <2>1. \A c \in DOMAIN books : books[c].isbn # new.isbn
    BY DEF CreateBook, FindByIsbn, new
  <2> QED BY <1>1, <1>2, <2>1 DEF LibraryInv, NamesUnique
<1> QED BY <1>1, <1>4, <1>5, <1>6 DEF LibraryInv

\* The shape of a book after its copies were counted anew.
LEMMA ResizeBook ==
    ASSUME NEW book \in Book, NEW total \in Nat, LentOut(book) \in Nat,
           book.status = StatusOf(book.available)
    PROVE  /\ Resize(book, total) \in Book
           /\ Resize(book, total).isbn = book.isbn
           /\ Resize(book, total).available + LentOut(book) = Resize(book, total).total
           /\ Resize(book, total).status = StatusOf(Resize(book, total).available)
<1>1. CASE total < 1 \/ total < LentOut(book)
  <2>1. Resize(book, total) = book
    BY <1>1 DEF Resize
  <2> QED BY <2>1 DEF LentOut, Book
<1>2. CASE ~(total < 1 \/ total < LentOut(book))
  <2> DEFINE left == total - LentOut(book)
  <2>1. left \in Nat /\ left + LentOut(book) = total
    BY <1>2
  <2>2. Resize(book, total) = [book EXCEPT !.total = total, !.available = left,
                                           !.status = StatusOf(left)]
    BY <1>2 DEF Resize
  <2>3. StatusOf(left) \in {"available", "unavailable"}
    BY DEF StatusOf
  <2> HIDE DEF left
  <2> QED BY <2>1, <2>2, <2>3 DEF Book
<1> QED BY <1>1, <1>2

LEMMA UpdateBookInv ==
    ASSUME LibraryInv, NEW b \in BookIds, NEW isbn \in Isbns, NEW total \in Copies,
           NEW blank \in BOOLEAN,
           UpdateBook(b, isbn, total, blank)
    PROVE  LibraryInv'
<1> DEFINE named == [books[b] EXCEPT !.isbn = isbn]
           kept  == IF blank THEN named ELSE Resize(named, total)
<1>1. /\ b \in DOMAIN books /\ books[b] \in Book
      /\ books' = [books EXCEPT ![b] = kept]
      /\ issued' = issued /\ members' = members /\ loans' = loans
      /\ \A c \in DOMAIN books : books[c].isbn = isbn => c = b
  BY DEF LibraryInv, TypeOK, UpdateBook, FindByIsbn
<1>2. /\ LentOut(books[b]) \in Nat
      /\ LentOut(books[b]) = Cardinality(FindActiveByBookId(b))
      /\ books[b].available + LentOut(books[b]) = books[b].total
      /\ books[b].status = StatusOf(books[b].available)
  BY <1>1, LentIsActive DEF LibraryInv, CopiesAddUp
<1>3. /\ named \in Book /\ named.isbn = isbn
      /\ named.total = books[b].total /\ named.available = books[b].available
      /\ named.status = books[b].status /\ LentOut(named) = LentOut(books[b])
  BY <1>1 DEF Book, LentOut
<1>4. total \in Nat
  BY LibraryAssumption
<1> HIDE DEF named
<1>5. /\ kept \in Book /\ kept.isbn = isbn
      /\ kept.available + LentOut(books[b]) = kept.total
      /\ kept.status = StatusOf(kept.available)
  BY <1>2, <1>3, <1>4, ResizeBook
<1> HIDE DEF kept
<1>6. /\ DOMAIN books' = DOMAIN books /\ books'[b] = kept
      /\ \A c \in DOMAIN books : c # b => books'[c] = books[c]
  BY <1>1 DEF LibraryInv, TypeOK
<1>7. TypeOK'
  BY <1>1, <1>5 DEF LibraryInv, TypeOK
<1>8. CopiesAddUp'
  <2>1. \A c \in DOMAIN books : FindActiveByBookId(c)' = FindActiveByBookId(c)
    BY <1>1, ActiveUnchanged
  <2> QED BY <1>1, <1>2, <1>5, <1>6, <2>1 DEF LibraryInv, CopiesAddUp
<1>9. NamesUnique'
  BY <1>1, <1>5, <1>6 DEF LibraryInv, NamesUnique
<1> QED BY <1>1, <1>7, <1>8, <1>9 DEF LibraryInv

LEMMA DeleteBookInv == ASSUME LibraryInv, NEW b \in BookIds, DeleteBook(b) PROVE LibraryInv'
<1>1. /\ DOMAIN books' = DOMAIN books \ {b}
      /\ books' = [c \in DOMAIN books \ {b} |-> books[c]]
      /\ \A c \in DOMAIN books' : books'[c] = books[c]
      /\ members' = members /\ loans' = loans /\ issued' = issued
  BY DEF DeleteBook, Delete
<1>2. TypeOK'
  BY <1>1 DEF LibraryInv, TypeOK
<1>3. \A c \in DOMAIN books : FindActiveByBookId(c)' = FindActiveByBookId(c)
  BY <1>1, ActiveUnchanged
<1>4. CopiesAddUp'
  BY <1>1, <1>3 DEF LibraryInv, CopiesAddUp
<1> QED BY <1>1, <1>2, <1>4 DEF LibraryInv, NamesUnique

-----------------------------------------------------------------------------
(* Members *)

\* What a request about a member leaves alone.
LEMMA BooksUntouched ==
    ASSUME LibraryInv, UNCHANGED <<books, loans>>
    PROVE  /\ CopiesAddUp'
           /\ IsFiniteSet(DOMAIN loans)'
           /\ \A b, c \in DOMAIN books' : books'[b].isbn = books'[c].isbn => b = c
<1>1. \A c \in DOMAIN books : FindActiveByBookId(c)' = FindActiveByBookId(c)
  BY ActiveUnchanged
<1> QED BY <1>1 DEF LibraryInv, CopiesAddUp, NamesUnique

LEMMA CreateMemberInv ==
    ASSUME LibraryInv, NEW m \in MemberIds, NEW email \in Emails, CreateMember(m, email)
    PROVE  LibraryInv'
<1> DEFINE new == [email |-> email, maxLoans |-> DEFAULT_LIMIT, status |-> "active"]
<1>1. /\ m \notin issued /\ m \notin DOMAIN members
      /\ issued' = issued \cup {m}
      /\ books' = books /\ loans' = loans
      /\ \A n \in DOMAIN members : members[n].email # email
  BY DEF LibraryInv, TypeOK, CreateMember, FindByEmail
<1>2. /\ DOMAIN members' = DOMAIN members \cup {m}
      /\ members'[m] = new
      /\ \A n \in DOMAIN members : members'[n] = members[n]
      /\ members' = [n \in DOMAIN members \cup {m} |-> IF n = m THEN new ELSE members[n]]
  BY <1>1 DEF CreateMember, Save
<1>3. new \in Member /\ new.email = email
  BY LibraryAssumption DEF Member
<1> HIDE DEF new
<1>4. TypeOK'
  BY <1>1, <1>2, <1>3 DEF LibraryInv, TypeOK
<1>5. \A n, k \in DOMAIN members' : members'[n].email = members'[k].email => n = k
  BY <1>1, <1>2, <1>3 DEF LibraryInv, NamesUnique
<1> QED BY <1>1, <1>4, <1>5, BooksUntouched DEF LibraryInv, NamesUnique

LEMMA UpdateMemberInv ==
    ASSUME LibraryInv, NEW m \in MemberIds, NEW email \in Emails, NEW limit \in Copies,
           NEW standing \in {"active", "inactive"}, NEW blank \in BOOLEAN,
           UpdateMember(m, email, limit, standing, blank)
    PROVE  LibraryInv'
<1> DEFINE kept == IF blank \/ limit < 1
                   THEN [members[m] EXCEPT !.email = email]
                   ELSE [email |-> email, maxLoans |-> limit, status |-> standing]
<1>1. /\ m \in DOMAIN members /\ members[m] \in Member
      /\ members' = [members EXCEPT ![m] = kept]
      /\ issued' = issued /\ books' = books /\ loans' = loans
      /\ \A n \in DOMAIN members : members[n].email = email => n = m
  BY DEF LibraryInv, TypeOK, UpdateMember, FindByEmail
<1>2. kept \in Member /\ kept.email = email
  BY <1>1, LibraryAssumption DEF Member
<1> HIDE DEF kept
<1>3. /\ DOMAIN members' = DOMAIN members /\ members'[m] = kept
      /\ \A n \in DOMAIN members : n # m => members'[n] = members[n]
  BY <1>1 DEF LibraryInv, TypeOK
<1>4. TypeOK'
  BY <1>1, <1>2 DEF LibraryInv, TypeOK
<1>5. \A n, k \in DOMAIN members' : members'[n].email = members'[k].email => n = k
  BY <1>1, <1>2, <1>3 DEF LibraryInv, NamesUnique
<1> QED BY <1>1, <1>4, <1>5, BooksUntouched DEF LibraryInv, NamesUnique

LEMMA DeleteMemberInv == ASSUME LibraryInv, NEW m \in MemberIds, DeleteMember(m) PROVE LibraryInv'
<1>1. /\ DOMAIN members' = DOMAIN members \ {m}
      /\ members' = [n \in DOMAIN members \ {m} |-> members[n]]
      /\ \A n \in DOMAIN members' : members'[n] = members[n]
      /\ books' = books /\ loans' = loans /\ issued' = issued
  BY DEF DeleteMember, Delete
<1>2. TypeOK'
  BY <1>1 DEF LibraryInv, TypeOK
<1>3. \A n, k \in DOMAIN members' : members'[n].email = members'[k].email => n = k
  BY <1>1 DEF LibraryInv, NamesUnique
<1> QED BY <1>1, <1>2, <1>3, BooksUntouched DEF LibraryInv, NamesUnique

-----------------------------------------------------------------------------
(* Loans *)

LEMMA BorrowBookInv ==
    ASSUME LibraryInv, NEW l \in LoanIds, NEW b \in BookIds, NEW m \in MemberIds,
           BorrowBook(l, b, m)
    PROVE  LibraryInv'
<1> DEFINE loan == [book |-> b, member |-> m, status |-> "active"]
           rest == books[b].available - 1
<1>1. /\ l \notin issued /\ l \notin DOMAIN loans
      /\ b \in DOMAIN books /\ books[b] \in Book /\ b \in issued
      /\ books[b].available >= 1
      /\ members' = members /\ issued' = issued \cup {l}
  BY DEF LibraryInv, TypeOK, BorrowBook
<1>2. /\ DOMAIN loans' = DOMAIN loans \cup {l}
      /\ loans'[l] = loan
      /\ \A k \in DOMAIN loans : loans'[k] = loans[k]
      /\ loans' = [k \in DOMAIN loans \cup {l} |-> IF k = l THEN loan ELSE loans[k]]
  BY <1>1 DEF BorrowBook, Save
<1>3. loan \in Loan
  BY DEF Loan
<1>4. /\ rest \in Nat /\ rest + 1 = books[b].available
      /\ TakeCopy(books[b]) = [books[b] EXCEPT !.available = rest, !.status = StatusOf(rest)]
      /\ StatusOf(rest) \in {"available", "unavailable"}
  BY <1>1 DEF Book, TakeCopy, StatusOf
<1> HIDE DEF rest
<1>5. /\ TakeCopy(books[b]) \in Book
      /\ TakeCopy(books[b]).isbn = books[b].isbn /\ TakeCopy(books[b]).total = books[b].total
      /\ TakeCopy(books[b]).available = rest /\ TakeCopy(books[b]).status = StatusOf(rest)
  BY <1>1, <1>4 DEF Book
<1>6. /\ books' = [books EXCEPT ![b] = TakeCopy(books[b])]
      /\ DOMAIN books' = DOMAIN books /\ books'[b] = TakeCopy(books[b])
      /\ \A c \in DOMAIN books : c # b => books'[c] = books[c]
  BY <1>1 DEF BorrowBook, LibraryInv, TypeOK
<1>7. TypeOK'
  <2>1. DOMAIN books' \subseteq issued' \cap BookIds /\ books' \in [DOMAIN books' -> Book]
    BY <1>1, <1>5, <1>6 DEF LibraryInv, TypeOK
  <2>2. DOMAIN loans' \subseteq issued' \cap LoanIds /\ loans' \in [DOMAIN loans' -> Loan]
    BY <1>1, <1>2, <1>3 DEF LibraryInv, TypeOK
  <2>3. \A k \in DOMAIN loans' : loans'[k].book \in issued'
    BY <1>1, <1>2 DEF LibraryInv, TypeOK
  <2>4. DOMAIN members' \subseteq issued' \cap MemberIds /\ members' \in [DOMAIN members' -> Member]
    BY <1>1 DEF LibraryInv, TypeOK
  <2> QED BY <2>1, <2>2, <2>3, <2>4 DEF TypeOK
<1>8. IsFiniteSet(DOMAIN loans')
  BY <1>2, FS_AddElement DEF LibraryInv
<1>9. CopiesAddUp'
  <2>1. FindActiveByBookId(b)' = FindActiveByBookId(b) \cup {l} /\ l \notin FindActiveByBookId(b)
    BY <1>1, <1>2 DEF FindActiveByBookId
  <2>2. /\ Cardinality(FindActiveByBookId(b)) \in Nat
        /\ Cardinality(FindActiveByBookId(b)') = Cardinality(FindActiveByBookId(b)) + 1
    BY <2>1, ActiveFinite, FS_AddElement DEF LibraryInv
  <2>3. \A c \in DOMAIN books : c # b => FindActiveByBookId(c)' = FindActiveByBookId(c)
    BY <1>1, <1>2 DEF FindActiveByBookId
  <2>4. books[b].total \in Nat /\ books[b].available \in Nat
    BY <1>1 DEF Book
  <2>5. rest + Cardinality(FindActiveByBookId(b)') = books[b].total
    BY <1>1, <1>4, <2>2, <2>4 DEF LibraryInv, CopiesAddUp
  <2> QED BY <1>1, <1>5, <1>6, <2>3, <2>5 DEF LibraryInv, CopiesAddUp
<1>10. NamesUnique'
  BY <1>1, <1>5, <1>6 DEF LibraryInv, NamesUnique
<1> QED BY <1>7, <1>8, <1>9, <1>10 DEF LibraryInv

LEMMA ReturnBookInv == ASSUME LibraryInv, NEW l \in LoanIds, ReturnBook(l) PROVE LibraryInv'
<1>0. PICK b : b = loans[l].book
  OBVIOUS
<1>1. /\ l \in DOMAIN loans /\ loans[l] \in Loan /\ loans[l].status = "active"
      /\ b \in issued
      /\ loans' = [loans EXCEPT ![l].status = "returned"]
      /\ members' = members /\ issued' = issued
  BY <1>0 DEF LibraryInv, TypeOK, ReturnBook, Loan
<1>2. /\ DOMAIN loans' = DOMAIN loans
      /\ loans'[l].status = "returned" /\ loans'[l].book = b /\ loans'[l] \in Loan
      /\ \A k \in DOMAIN loans : k # l => loans'[k] = loans[k]
      /\ loans' \in [DOMAIN loans' -> Loan]
  BY <1>0, <1>1 DEF LibraryInv, TypeOK, Loan
<1>3. /\ FindActiveByBookId(b)' = FindActiveByBookId(b) \ {l} /\ l \in FindActiveByBookId(b)
      /\ \A c : c # b => FindActiveByBookId(c)' = FindActiveByBookId(c)
  BY <1>0, <1>1, <1>2 DEF FindActiveByBookId
<1>4. /\ Cardinality(FindActiveByBookId(b)) \in Nat
      /\ Cardinality(FindActiveByBookId(b)') = Cardinality(FindActiveByBookId(b)) - 1
  BY <1>3, ActiveFinite, FS_RemoveElement DEF LibraryInv
<1>5. \A k \in DOMAIN loans' : loans'[k].book \in issued'
  BY <1>1, <1>2 DEF LibraryInv, TypeOK
<1>6. CASE b \notin DOMAIN books
  <2>1. books' = books
    BY <1>0, <1>6 DEF ReturnBook
  <2>2. TypeOK'
    BY <1>1, <1>2, <1>5, <2>1 DEF LibraryInv, TypeOK
  <2>3. CopiesAddUp'
    BY <1>3, <1>6, <2>1 DEF LibraryInv, CopiesAddUp
  <2> QED BY <1>1, <1>2, <2>1, <2>2, <2>3 DEF LibraryInv, NamesUnique
<1>7. CASE b \in DOMAIN books
  <2>1. /\ books' = [books EXCEPT ![b] = PutBack(books[b])]
        /\ books[b] \in Book
    BY <1>0, <1>7 DEF ReturnBook, LibraryInv, TypeOK
  <2>2. /\ books[b].available \in Nat /\ books[b].total \in Nat
        /\ books[b].available + 1 \in Nat
    BY <2>1 DEF Book
  <2>3. /\ PutBack(books[b]) \in Book
        /\ PutBack(books[b]).isbn = books[b].isbn /\ PutBack(books[b]).total = books[b].total
        /\ PutBack(books[b]).available = books[b].available + 1
        /\ PutBack(books[b]).status = "available"
    BY <2>1, <2>2 DEF PutBack, Book
  <2>4. PutBack(books[b]).status = StatusOf(PutBack(books[b]).available)
    BY <2>2, <2>3 DEF StatusOf
  <2>5. /\ DOMAIN books' = DOMAIN books /\ books'[b] = PutBack(books[b])
        /\ \A c \in DOMAIN books : c # b => books'[c] = books[c]
    BY <1>7, <2>1 DEF LibraryInv, TypeOK
  <2>6. TypeOK'
    <3>1. books' \in [DOMAIN books' -> Book]
      BY <2>1, <2>3 DEF LibraryInv, TypeOK
    <3> QED BY <1>1, <1>2, <1>5, <2>5, <3>1 DEF LibraryInv, TypeOK
  <2>7. CopiesAddUp'
    <3>1. books[b].available + Cardinality(FindActiveByBookId(b)) = books[b].total
      BY <1>7 DEF LibraryInv, CopiesAddUp
    <3>2. PutBack(books[b]).available + Cardinality(FindActiveByBookId(b)') = books[b].total
      BY <1>4, <2>2, <2>3, <3>1
    <3> QED BY <1>3, <2>3, <2>4, <2>5, <3>2 DEF LibraryInv, CopiesAddUp
  <2>8. NamesUnique'
    BY <1>1, <1>7, <2>3, <2>5 DEF LibraryInv, NamesUnique
  <2> QED BY <1>2, <2>6, <2>7, <2>8 DEF LibraryInv
<1> QED BY <1>6, <1>7

-----------------------------------------------------------------------------

LEMMA LibraryNextInv == ASSUME LibraryInv, [Next]_vars PROVE LibraryInv'
<1>1. CASE UNCHANGED vars
  BY <1>1, BooksUntouched DEF vars, LibraryInv, TypeOK, NamesUnique
<1>2. ASSUME NEW b \in BookIds, NEW isbn \in Isbns, NEW total \in Copies, NEW blank \in BOOLEAN,
             CreateBook(b, isbn, total) \/ UpdateBook(b, isbn, total, blank)
      PROVE  LibraryInv'
  BY <1>2, CreateBookInv, UpdateBookInv
<1>3. ASSUME NEW b \in BookIds, DeleteBook(b) PROVE LibraryInv'
  BY <1>3, DeleteBookInv
<1>4. ASSUME NEW b \in BookIds, NEW l \in LoanIds, NEW m \in MemberIds, BorrowBook(l, b, m)
      PROVE  LibraryInv'
  BY <1>4, BorrowBookInv
<1>5. ASSUME NEW m \in MemberIds, NEW email \in Emails, NEW limit \in Copies,
             NEW standing \in {"active", "inactive"}, NEW blank \in BOOLEAN,
             UpdateMember(m, email, limit, standing, blank)
      PROVE  LibraryInv'
  BY <1>5, UpdateMemberInv
<1>6. ASSUME NEW m \in MemberIds, NEW email \in Emails, CreateMember(m, email) PROVE LibraryInv'
  BY <1>6, CreateMemberInv
<1>7. ASSUME NEW m \in MemberIds, DeleteMember(m) PROVE LibraryInv'
  BY <1>7, DeleteMemberInv
<1>8. ASSUME NEW l \in LoanIds, ReturnBook(l) PROVE LibraryInv'
  BY <1>8, ReturnBookInv
<1> QED BY <1>1, <1>2, <1>3, <1>4, <1>5, <1>6, <1>7, <1>8 DEF Next

LEMMA LibrarySpecInv == Spec => []LibraryInv
<1>1. Init => LibraryInv  BY LibraryInitInv
<1>2. LibraryInv /\ [Next]_vars => LibraryInv'  BY LibraryNextInv
<1> QED BY <1>1, <1>2, PTL DEF Spec

\* What is on file is what the entities say, and no number of copies is ever
\* negative, whatever totals are asked for (book.service.ts:92-100).
THEOREM LibraryTypeCorrect == Spec => []TypeOK
<1>1. LibraryInv => TypeOK  BY DEF LibraryInv
<1> QED BY <1>1, LibrarySpecInv, PTL

\* The copies of a book are those available and those that active loans hold,
\* through deletions, refused updates and late returns (loan.service.ts).
THEOREM CopiesAlwaysAddUp == Spec => []CopiesAddUp
<1>1. LibraryInv => CopiesAddUp  BY DEF LibraryInv
<1> QED BY <1>1, LibrarySpecInv, PTL

\* No two books have one ISBN, no two members one address, though an update
\* that is refused may have changed either (book.service.ts:80, member.service.ts).
THEOREM NamesStayUnique == Spec => []NamesUnique
<1>1. LibraryInv => NamesUnique  BY DEF LibraryInv
<1> QED BY <1>1, LibrarySpecInv, PTL

-----------------------------------------------------------------------------
(* The bank.  The balances of a currency are summed over all accounts, an  *)
(* account of another currency counting for nothing: then each use case    *)
(* changes the sum at the accounts that it touches.                        *)

Account == [currency : Currencies, balance : Nat]

BalanceIn(accs, c) ==
    [a \in DOMAIN accs |-> IF accs[a].currency = c THEN accs[a].balance ELSE 0]

InCurrency(accs, c) == SumFunctionOnSet(BalanceIn(accs, c), DOMAIN accs)

IsBank(accs) == IsFiniteSet(DOMAIN accs) /\ accs \in [DOMAIN accs -> Account]

MoneyInv ==
    /\ IsBank(accounts)
    /\ deposited \in [Currencies -> Nat]
    /\ lost \in [Currencies -> Nat]
    /\ \A c \in Currencies : deposited[c] = lost[c] + InCurrency(accounts, c)

LEMMA BalancesAreNat ==
    ASSUME NEW accs, IsBank(accs), NEW c
    PROVE  /\ \A a \in DOMAIN accs : BalanceIn(accs, c)[a] \in Nat
           /\ InCurrency(accs, c) \in Nat
<1>1. \A a \in DOMAIN accs : BalanceIn(accs, c)[a] \in Nat
  BY DEF IsBank, Account, BalanceIn
<1>2. IsFiniteSet(DOMAIN accs)
  BY DEF IsBank
<1> QED BY <1>1, <1>2, SumIsNat DEF InCurrency

\* The sum over the accounts of a currency, as the property takes it.
LEMMA SumOfCurrency ==
    ASSUME NEW accs, IsBank(accs), NEW c
    PROVE  SumFunction([a \in {a \in DOMAIN accs : accs[a].currency = c} |-> accs[a].balance])
             = InCurrency(accs, c)
<1> DEFINE of   == {a \in DOMAIN accs : accs[a].currency = c}
           rest == DOMAIN accs \ of
           f    == [a \in of |-> accs[a].balance]
           g    == BalanceIn(accs, c)
<1>1. /\ SumFunction(f) = SumFunctionOnSet(f, of)
      /\ InCurrency(accs, c) = SumFunctionOnSet(g, DOMAIN accs)
  BY DEF SumFunction, InCurrency
<1>2. \A a \in of : f[a] = g[a]
  BY DEF BalanceIn
<1>3. \A a \in rest : g[a] = 0
  BY DEF BalanceIn
<1>4. \A a \in of \cup rest : g[a] \in Int
  BY BalancesAreNat
<1>5. of \cup rest = DOMAIN accs /\ of \cap rest = {}
  OBVIOUS
<1>6. IsFiniteSet(of) /\ IsFiniteSet(rest)
  BY FS_Subset DEF IsBank
<1> HIDE DEF of, rest, f, g
<1>7. SumFunctionOnSet(g, of \cup rest) = SumFunctionOnSet(g, of) + SumFunctionOnSet(g, rest)
  BY <1>4, <1>5, <1>6, SumOfTwoSets
<1>8. SumFunctionOnSet(g, rest) = 0
  BY <1>3, <1>6, SumOfZeros
<1>9. SumFunctionOnSet(g, of) \in Int
  <2>1. \A a \in of : g[a] \in Int
    BY <1>4
  <2> QED BY <1>6, <2>1, SumIsInt
<1>10. SumFunctionOnSet(f, of) = SumFunctionOnSet(g, of)
  BY <1>2, <1>6, SumOfSameValues
<1>11. SumFunction(f) = InCurrency(accs, c)
  BY <1>1, <1>5, <1>7, <1>8, <1>9, <1>10
<1> QED BY <1>11 DEF f, of

\* A balance is written, and an account opened, in the place of another or not.
Written(accs, x, n) == [accs EXCEPT ![x] = [accs[x] EXCEPT !.balance = n]]

Opened(accs, x, k) == [a \in DOMAIN accs \cup {x} |->
                         IF a = x THEN [currency |-> k, balance |-> 0] ELSE accs[a]]

LEMMA BalanceWritten ==
    ASSUME NEW accs, IsBank(accs), NEW x \in DOMAIN accs, NEW n \in Nat, NEW c
    PROVE  /\ IsBank(Written(accs, x, n))
           /\ InCurrency(Written(accs, x, n), c) =
                 IF accs[x].currency = c
                 THEN InCurrency(accs, c) + n - accs[x].balance
                 ELSE InCurrency(accs, c)
<1> DEFINE new == Written(accs, x, n)
<1>0. accs[x] \in Account /\ accs[x].balance \in Nat
  BY DEF IsBank, Account
<1>1. [accs[x] EXCEPT !.balance = n] \in Account
  BY <1>0 DEF Account
<1>2. DOMAIN new = DOMAIN accs
  BY DEF Written
<1>3. IsBank(new)
  BY <1>1, <1>2 DEF IsBank, Written
<1>3a. new[x] = [accs[x] EXCEPT !.balance = n] /\ \A a \in DOMAIN accs \ {x} : new[a] = accs[a]
  BY DEF IsBank, Written
<1> HIDE DEF new
<1> DEFINE f == BalanceIn(accs, c)
           g == BalanceIn(new, c)
<1>4. \A a \in DOMAIN accs : f[a] \in Int /\ g[a] \in Int
  <2>1. \A a \in DOMAIN accs : BalanceIn(accs, c)[a] \in Nat
    BY BalancesAreNat
  <2>2. \A a \in DOMAIN new : BalanceIn(new, c)[a] \in Nat
    BY <1>3, BalancesAreNat
  <2> HIDE <1>1, <1>3
  <2> QED BY <1>2, <2>1, <2>2
<1>5. \A a \in DOMAIN accs \ {x} : f[a] = g[a]
  BY <1>2, <1>3a DEF BalanceIn
<1>6. new[x].currency = accs[x].currency /\ new[x].balance = n
  BY <1>0, <1>3a DEF Account
<1>7. /\ g[x] = IF accs[x].currency = c THEN n ELSE 0
      /\ f[x] = IF accs[x].currency = c THEN accs[x].balance ELSE 0
  BY <1>2, <1>6 DEF BalanceIn
<1>8. InCurrency(accs, c) = SumFunctionOnSet(f, DOMAIN accs)
      /\ InCurrency(new, c) = SumFunctionOnSet(g, DOMAIN accs)
      /\ InCurrency(accs, c) \in Nat
  BY <1>2, BalancesAreNat DEF InCurrency
<1>9. IsFiniteSet(DOMAIN accs)
  BY DEF IsBank
<1> HIDE DEF f, g
<1>10. SumFunctionOnSet(g, DOMAIN accs) = SumFunctionOnSet(f, DOMAIN accs) + g[x] - f[x]
  BY <1>4, <1>5, <1>9, SumOfChange
<1>11. InCurrency(new, c) = IF accs[x].currency = c
                            THEN InCurrency(accs, c) + n - accs[x].balance
                            ELSE InCurrency(accs, c)
  BY <1>0, <1>7, <1>8, <1>10
<1> QED BY <1>3, <1>11 DEF new

LEMMA AccountOpened ==
    ASSUME NEW accs, IsBank(accs), NEW x, NEW k \in Currencies, NEW c
    PROVE  /\ IsBank(Opened(accs, x, k))
           /\ InCurrency(Opened(accs, x, k), c) =
                 IF x \in DOMAIN accs /\ accs[x].currency = c
                 THEN InCurrency(accs, c) - accs[x].balance
                 ELSE InCurrency(accs, c)
<1> DEFINE new == Opened(accs, x, k)
<1>1. IsFiniteSet(DOMAIN accs) /\ IsFiniteSet(DOMAIN accs \ {x})
      /\ \A a \in DOMAIN accs : accs[a] \in Account
  BY FS_Subset DEF IsBank
<1>2. /\ DOMAIN new = DOMAIN accs \cup {x}
      /\ \A a \in DOMAIN accs \ {x} : new[a] = accs[a]
      /\ new[x] = [currency |-> k, balance |-> 0]
      /\ new = [a \in DOMAIN new |-> new[a]]
  BY DEF Opened
<1> HIDE DEF new
<1>3. IsBank(new)
  <2>1. [currency |-> k, balance |-> 0] \in Account
    BY DEF Account
  <2>2. IsFiniteSet(DOMAIN accs \cup {x})
    BY <1>1, FS_AddElement
  <2>3. \A a \in DOMAIN new : new[a] \in Account
    BY <1>1, <1>2, <2>1
  <2>4. new = [a \in DOMAIN new |-> new[a]]
    BY <1>2
  <2> QED BY <1>2, <2>2, <2>3, <2>4 DEF IsBank
<1> DEFINE f == BalanceIn(accs, c)
           g == BalanceIn(new, c)
           D == DOMAIN accs \ {x}
<1>4. \A a \in D : f[a] = g[a]
  BY <1>2 DEF BalanceIn
<1>5. g[x] = 0
  BY <1>2 DEF BalanceIn
<1>6. /\ \A a \in DOMAIN accs : f[a] \in Int
      /\ \A a \in D : g[a] \in Int
      /\ InCurrency(accs, c) \in Nat
  BY <1>2, <1>3, BalancesAreNat
<1>7. InCurrency(accs, c) = SumFunctionOnSet(f, DOMAIN accs)
      /\ InCurrency(new, c) = SumFunctionOnSet(g, D \cup {x})
  BY <1>2 DEF InCurrency
<1>8. x \in DOMAIN accs => f[x] = IF accs[x].currency = c THEN accs[x].balance ELSE 0
  BY DEF BalanceIn
<1>9. x \notin DOMAIN accs => D = DOMAIN accs
  OBVIOUS
<1>10. x \notin D /\ IsFiniteSet(D)
  BY <1>1
<1> HIDE DEF f, g
<1>11. SumFunctionOnSet(g, D \cup {x}) = g[x] + SumFunctionOnSet(g, D)
  <2> HIDE DEF D
  <2> QED BY <1>5, <1>6, <1>10, SumAdds
<1>12. SumFunctionOnSet(g, D) = SumFunctionOnSet(f, D)
  BY <1>4, <1>10, SumOfSameValues
<1>13. x \in DOMAIN accs => SumFunctionOnSet(f, DOMAIN accs) = f[x] + SumFunctionOnSet(f, D)
  BY <1>1, <1>6, SumTakesOut
<1>14. SumFunctionOnSet(f, D) \in Int
  BY <1>6, <1>10, SumIsInt
<1>15. x \in DOMAIN accs => accs[x].balance \in Nat
  BY <1>1 DEF Account
<1> HIDE DEF D
<1>16. InCurrency(new, c) = SumFunctionOnSet(f, D)
  BY <1>5, <1>7, <1>11, <1>12, <1>14
<1>17. ASSUME x \notin DOMAIN accs PROVE InCurrency(new, c) = InCurrency(accs, c)
  BY <1>7, <1>9, <1>16, <1>17
<1>18. ASSUME x \in DOMAIN accs
       PROVE  InCurrency(new, c) = IF accs[x].currency = c
                                   THEN InCurrency(accs, c) - accs[x].balance
                                   ELSE InCurrency(accs, c)
  BY <1>6, <1>7, <1>8, <1>13, <1>14, <1>15, <1>16, <1>18
<1> QED BY <1>3, <1>17, <1>18 DEF new

LEMMA OpenKeepsMoney ==
    ASSUME MoneyInv, NEW a, NEW k \in Currencies, Money!OpenAccount(a, k)
    PROVE  MoneyInv'
<1>1. /\ accounts' = [x \in DOMAIN accounts \cup {a} |->
                        IF x = a THEN [currency |-> k, balance |-> 0] ELSE accounts[x]]
      /\ lost' = IF a \in DOMAIN accounts
                 THEN [lost EXCEPT ![accounts[a].currency] = @ + accounts[a].balance]
                 ELSE lost
      /\ deposited' = deposited
  BY DEF Money!OpenAccount
<1>2. IsBank(accounts) /\ lost \in [Currencies -> Nat] /\ deposited \in [Currencies -> Nat]
  BY DEF MoneyInv
<1>3. /\ IsBank(accounts')
      /\ \A c : InCurrency(accounts', c) = IF a \in DOMAIN accounts /\ accounts[a].currency = c
                                           THEN InCurrency(accounts, c) - accounts[a].balance
                                           ELSE InCurrency(accounts, c)
  <2>0. accounts' = Opened(accounts, a, k)
    BY <1>1 DEF Opened
  <2>1. \A c : /\ IsBank(accounts')
               /\ InCurrency(accounts', c) = IF a \in DOMAIN accounts /\ accounts[a].currency = c
                                             THEN InCurrency(accounts, c) - accounts[a].balance
                                             ELSE InCurrency(accounts, c)
    BY <1>2, <2>0, AccountOpened
  <2> QED BY <2>1
<1>4. a \in DOMAIN accounts => accounts[a].currency \in Currencies /\ accounts[a].balance \in Nat
  BY <1>2 DEF IsBank, Account
<1>5. lost' \in [Currencies -> Nat]
  BY <1>1, <1>2, <1>4
<1>6. ASSUME NEW c \in Currencies
      PROVE  deposited'[c] = lost'[c] + InCurrency(accounts', c)
  <2>1. deposited[c] = lost[c] + InCurrency(accounts, c) /\ InCurrency(accounts, c) \in Nat
    BY <1>2, BalancesAreNat DEF MoneyInv
  <2>2. lost[c] \in Nat
    BY <1>2
  <2>3. CASE a \in DOMAIN accounts /\ accounts[a].currency = c
    <3>1. lost'[c] = lost[c] + accounts[a].balance
      BY <1>1, <1>2, <2>3
    <3>2. InCurrency(accounts', c) = InCurrency(accounts, c) - accounts[a].balance
      BY <1>3, <2>3
    <3> QED BY <1>1, <1>4, <2>1, <2>2, <2>3, <3>1, <3>2
  <2>4. CASE ~(a \in DOMAIN accounts /\ accounts[a].currency = c)
    <3>1. lost'[c] = lost[c]
      BY <1>1, <1>2, <2>4
    <3>2. InCurrency(accounts', c) = InCurrency(accounts, c)
      BY <1>3, <2>4
    <3> QED BY <1>1, <2>1, <3>1, <3>2
  <2> QED BY <2>3, <2>4
<1> QED BY <1>1, <1>2, <1>3, <1>5, <1>6 DEF MoneyInv

LEMMA DepositKeepsMoney ==
    ASSUME MoneyInv, NEW a, NEW k \in Currencies, NEW amount \in Amounts,
           Money!Deposit(a, amount, k)
    PROVE  MoneyInv'
<1>1. /\ a \in DOMAIN accounts /\ amount \in Nat /\ accounts[a].currency = k
      /\ accounts' = [accounts EXCEPT ![a].balance = @ + amount]
      /\ deposited' = [deposited EXCEPT ![k] = @ + amount]
      /\ lost' = lost
  BY MoneyAssumption DEF Money!Deposit, Money!CanDeposit
<1>2. IsBank(accounts) /\ lost \in [Currencies -> Nat] /\ deposited \in [Currencies -> Nat]
      /\ accounts[a].balance \in Nat
  BY <1>1 DEF MoneyInv, IsBank, Account
<1>3. /\ IsBank(accounts')
      /\ \A c : InCurrency(accounts', c) = IF accounts[a].currency = c
                  THEN InCurrency(accounts, c) + (accounts[a].balance + amount)
                         - accounts[a].balance
                  ELSE InCurrency(accounts, c)
  <2>0. a \in DOMAIN accounts
    BY <1>1
  <2>1. accounts[a].balance + amount \in Nat
    BY <1>1, <1>2
  <2>2. accounts' = Written(accounts, a, accounts[a].balance + amount)
    BY <1>1 DEF Written
  <2>3. \A c : /\ IsBank(accounts')
               /\ InCurrency(accounts', c) = IF accounts[a].currency = c
                    THEN InCurrency(accounts, c) + (accounts[a].balance + amount)
                         - accounts[a].balance
                    ELSE InCurrency(accounts, c)
    BY <1>2, <2>0, <2>1, <2>2, BalanceWritten
  <2> QED BY <2>3
<1>4. deposited' \in [Currencies -> Nat]
  BY <1>1, <1>2
<1>5. ASSUME NEW c \in Currencies
      PROVE  deposited'[c] = lost'[c] + InCurrency(accounts', c)
  <2>1. deposited[c] = lost[c] + InCurrency(accounts, c) /\ InCurrency(accounts, c) \in Nat
        /\ lost[c] \in Nat
    BY <1>2, BalancesAreNat DEF MoneyInv
  <2>2. CASE c = k
    <3>1. deposited'[c] = deposited[c] + amount
      BY <1>1, <1>2, <2>2
    <3>2. InCurrency(accounts', c)
            = InCurrency(accounts, c) + (accounts[a].balance + amount) - accounts[a].balance
      BY <1>1, <1>3, <2>2
    <3> QED BY <1>1, <1>2, <2>1, <3>1, <3>2
  <2>3. CASE c # k
    BY <1>1, <1>2, <1>3, <2>1, <2>3
  <2> QED BY <2>2, <2>3
<1> QED BY <1>1, <1>2, <1>3, <1>4, <1>5 DEF MoneyInv

\* The withdrawal and the deposit are two writes, the second on what the first
\* has left, so that a transfer to the same account changes nothing.
LEMMA TransferKeepsMoney ==
    ASSUME MoneyInv, NEW from, NEW to, NEW k \in Currencies, NEW amount \in Amounts,
           Money!Transfer(from, to, amount, k)
    PROVE  MoneyInv'
<1> DEFINE left == accounts[from].balance - amount
           withdrawn == Written(accounts, from, left)
           grown == withdrawn[to].balance + amount
<1>1. /\ from \in DOMAIN accounts /\ to \in DOMAIN accounts
      /\ amount \in Nat /\ amount > 0
      /\ accounts[from].currency = k /\ accounts[from].balance >= amount
      /\ deposited' = deposited
  BY MoneyAssumption DEF Money!Transfer, Money!CanWithdraw
<1>2. \/ /\ accounts[to].currency = k
         /\ accounts' = Written(withdrawn, to, grown)
         /\ lost' = lost
      \/ /\ accounts' = withdrawn
         /\ lost' = [lost EXCEPT ![k] = @ + amount]
  BY DEF Money!Transfer, Money!CanDeposit, Written
<1>3. IsBank(accounts) /\ lost \in [Currencies -> Nat] /\ deposited \in [Currencies -> Nat]
      /\ accounts[from].balance \in Nat
  BY <1>1 DEF MoneyInv, IsBank, Account
<1>4. left \in Nat /\ left = accounts[from].balance - amount
  BY <1>1, <1>3
<1>5. DOMAIN withdrawn = DOMAIN accounts /\ withdrawn[to].currency = accounts[to].currency
  BY <1>1, <1>3 DEF IsBank, Account, Written
<1>6. withdrawn = Written(accounts, from, left)
  OBVIOUS
<1> HIDE DEF left, withdrawn
<1>7. /\ IsBank(withdrawn)
      /\ \A c : InCurrency(withdrawn, c) = IF accounts[from].currency = c
                                           THEN InCurrency(accounts, c) + left
                                                   - accounts[from].balance
                                           ELSE InCurrency(accounts, c)
  <2>1. \A c : /\ IsBank(withdrawn)
               /\ InCurrency(withdrawn, c) = IF accounts[from].currency = c
                                             THEN InCurrency(accounts, c) + left
                                                    - accounts[from].balance
                                             ELSE InCurrency(accounts, c)
    BY <1>1, <1>3, <1>4, <1>6, BalanceWritten
  <2> QED BY <2>1
<1>8. \A c : InCurrency(accounts, c) \in Nat /\ InCurrency(withdrawn, c) \in Nat
  BY <1>3, <1>7, BalancesAreNat
<1>9. \A c \in Currencies : deposited[c] = lost[c] + InCurrency(accounts, c) /\ lost[c] \in Nat
  BY <1>3 DEF MoneyInv
<1>10. \A c : InCurrency(withdrawn, c) = IF k = c THEN InCurrency(accounts, c) - amount
                                                  ELSE InCurrency(accounts, c)
  <2> TAKE c
  <2>1. CASE k = c
    BY <1>1, <1>3, <1>4, <1>7, <1>8, <2>1
  <2>2. CASE k # c
    BY <1>1, <1>7, <2>2
  <2> QED BY <2>1, <2>2
<1>11. CASE /\ accounts[to].currency = k
            /\ accounts' = Written(withdrawn, to, grown)
            /\ lost' = lost
  <2>1. withdrawn[to].balance \in Nat /\ grown \in Nat
        /\ grown = withdrawn[to].balance + amount
    BY <1>1, <1>5, <1>7 DEF IsBank, Account
  <2> HIDE DEF grown
  <2>2. /\ IsBank(accounts')
        /\ \A c : InCurrency(accounts', c) = IF withdrawn[to].currency = c
                    THEN InCurrency(withdrawn, c) + grown - withdrawn[to].balance
                    ELSE InCurrency(withdrawn, c)
    <3>1. \A c : /\ IsBank(accounts')
                 /\ InCurrency(accounts', c) = IF withdrawn[to].currency = c
                        THEN InCurrency(withdrawn, c) + grown - withdrawn[to].balance
                        ELSE InCurrency(withdrawn, c)
      BY <1>1, <1>5, <1>7, <1>11, <2>1, BalanceWritten
    <3> QED BY <3>1
  <2>3. ASSUME NEW c \in Currencies PROVE InCurrency(accounts', c) = InCurrency(accounts, c)
    <3>1. CASE k = c
      <4>1. InCurrency(accounts', c) = InCurrency(withdrawn, c) + grown - withdrawn[to].balance
        BY <1>5, <1>11, <2>2, <3>1
      <4>2. InCurrency(withdrawn, c) = InCurrency(accounts, c) - amount
        BY <1>10, <3>1
      <4> QED BY <1>1, <1>8, <2>1, <4>1, <4>2
    <3>2. CASE k # c
      BY <1>5, <1>10, <1>11, <2>2, <3>2
    <3> QED BY <3>1, <3>2
  <2> QED BY <1>1, <1>3, <1>9, <1>11, <2>2, <2>3 DEF MoneyInv
<1>12. CASE accounts' = withdrawn /\ lost' = [lost EXCEPT ![k] = @ + amount]
  <2>1. lost' \in [Currencies -> Nat]
    BY <1>1, <1>3, <1>12
  <2>2. ASSUME NEW c \in Currencies
        PROVE  deposited'[c] = lost'[c] + InCurrency(accounts', c)
    <3>1. CASE k = c
      <4>1. lost'[c] = lost[c] + amount
        BY <1>3, <1>12, <3>1
      <4>2. InCurrency(accounts', c) = InCurrency(accounts, c) - amount
        BY <1>10, <1>12, <3>1
      <4> QED BY <1>1, <1>8, <1>9, <4>1, <4>2
    <3>2. CASE k # c
      BY <1>1, <1>3, <1>9, <1>10, <1>12, <3>2
    <3> QED BY <3>1, <3>2
  <2> QED BY <1>1, <1>3, <1>7, <1>12, <2>1, <2>2 DEF MoneyInv
<1> QED BY <1>2, <1>11, <1>12

LEMMA MoneySpecInv == Money!Spec => []MoneyInv
<1>1. ASSUME Money!Init PROVE MoneyInv
  <2>1. DOMAIN accounts = {} /\ IsFiniteSet(DOMAIN accounts)
    BY <1>1, FS_EmptySet DEF Money!Init
  <2>2. IsBank(accounts)
    BY <1>1, <2>1 DEF Money!Init, IsBank
  <2>3. \A c : InCurrency(accounts, c) = 0
    BY <2>1, SumOfNothing DEF InCurrency
  <2> QED BY <1>1, <2>2, <2>3 DEF Money!Init, MoneyInv
<1>2. ASSUME MoneyInv, [Money!Next]_(Money!vars) PROVE MoneyInv'
  <2>1. CASE UNCHANGED Money!vars
    BY <1>2, <2>1 DEF Money!vars, MoneyInv, IsBank, InCurrency, BalanceIn
  <2>2. CASE Money!Next
    BY <1>2, <2>2, OpenKeepsMoney, DepositKeepsMoney, TransferKeepsMoney DEF Money!Next
  <2> QED BY <1>2, <2>1, <2>2
<1> QED BY <1>1, <1>2, PTL DEF Money!Spec

LEMMA SameSum == \A f : Money!SumFunction(f) = SumFunction(f)
BY DEF Money!SumFunction, Money!SumFunctionOnSet, Money!FoldFunctionOnSet, Money!MapThenFoldSet,
       SumFunction, SumFunctionOnSet, FoldFunctionOnSet, MapThenFoldSet

\* What was deposited in a currency is in the accounts of that currency, but
\* for the balances of accounts opened anew and the withdrawals whose deposit
\* was refused (transfer-service.ts, in-memory-account-repository.ts).
THEOREM NoMoneyMadeOrLost == Money!Spec => []MoneyAddsUp
<1>1. ASSUME MoneyInv PROVE MoneyAddsUp
  <2>1. IsBank(accounts) /\ \A c \in Currencies : deposited[c] = lost[c] + InCurrency(accounts, c)
    BY <1>1 DEF MoneyInv
  <2>2. \A c : Money!SumFunction([a \in {a \in DOMAIN accounts : accounts[a].currency = c}
                                    |-> accounts[a].balance])
               = InCurrency(accounts, c)
    BY <2>1, SameSum, SumOfCurrency
  <2> QED BY <2>1, <2>2 DEF MoneyAddsUp, Money!MoneyAddsUp
<1> QED BY <1>1, MoneySpecInv, PTL

-----------------------------------------------------------------------------
(* Lists of tasks.  A server looks a task up by scanning its list; the     *)
(* task store has a map.  They agree because no two tasks of a list have   *)
(* one id, and that is so because the next id is above all of them.        *)

IdsIn(s) == {s[k].id : k \in DOMAIN s}

PlaceOf(s, i) == CHOOSE k \in DOMAIN s : s[k].id = i

TasksOf(s) == [i \in IdsIn(s) |-> s[PlaceOf(s, i)]]

\* A map with an entry more, or another in the place of the one it has.
With(map, i, x) == [j \in DOMAIN map \cup {i} |-> IF j = i THEN x ELSE map[j]]

\* A map without an entry.
Without(map, i) == [j \in DOMAIN map \ {i} |-> map[j]]

\* A list of tasks of the set T whose ids are below n.
IsList(s, n, T) ==
    /\ s \in Seq(T)
    /\ n \in Nat \ {0}
    /\ \A k \in 1 .. Len(s) : s[k].id \in 1 .. n - 1
    /\ \A j, k \in 1 .. Len(s) : s[j].id = s[k].id => j = k

LEMMA ListFinds ==
    ASSUME NEW s, NEW n, NEW T, IsList(s, n, T)
    PROVE  /\ \A k \in 1 .. Len(s) :
                /\ s[k] \in T
                /\ s[k].id \in IdsIn(s)
                /\ PlaceOf(s, s[k].id) = k
                /\ TasksOf(s)[s[k].id] = s[k]
           /\ \A i \in IdsIn(s) :
                /\ PlaceOf(s, i) \in 1 .. Len(s)
                /\ s[PlaceOf(s, i)].id = i
                /\ TasksOf(s)[i] = s[PlaceOf(s, i)]
           /\ DOMAIN s = 1 .. Len(s) /\ Len(s) \in Nat
           /\ IdsIn(s) \subseteq 1 .. n - 1
<1>1. DOMAIN s = 1 .. Len(s) /\ Len(s) \in Nat
  BY DEF IsList
<1>2. ASSUME NEW k \in 1 .. Len(s)
      PROVE  /\ s[k] \in T
             /\ s[k].id \in IdsIn(s)
             /\ PlaceOf(s, s[k].id) = k
             /\ TasksOf(s)[s[k].id] = s[k]
  <2>1. s[k] \in T /\ s[k].id \in IdsIn(s)
    BY <1>1 DEF IsList, IdsIn
  <2>2. \A j \in DOMAIN s : s[j].id = s[k].id <=> j = k
    BY <1>1 DEF IsList
  <2>3. PlaceOf(s, s[k].id) = k
    BY <1>1, <2>2 DEF PlaceOf
  <2> QED BY <2>1, <2>3 DEF TasksOf
<1>3. ASSUME NEW i \in IdsIn(s)
      PROVE  /\ PlaceOf(s, i) \in 1 .. Len(s)
             /\ s[PlaceOf(s, i)].id = i
             /\ TasksOf(s)[i] = s[PlaceOf(s, i)]
             /\ i \in 1 .. n - 1
  <2>1. PICK k \in 1 .. Len(s) : s[k].id = i
    BY <1>1 DEF IdsIn
  <2> QED BY <1>2, <2>1 DEF IsList
<1> QED BY <1>1, <1>2, <1>3

LEMMA ListAdds ==
    ASSUME NEW s, NEW n, NEW T, IsList(s, n, T), NEW new \in T, new.id = n
    PROVE  /\ IsList(Append(s, new), n + 1, T)
           /\ IdsIn(Append(s, new)) = IdsIn(s) \cup {n}
           /\ TasksOf(Append(s, new)) = With(TasksOf(s), n, new)
<1> DEFINE t == Append(s, new)
<1>0. s \in Seq(T) /\ n \in Nat /\ n >= 1
  BY DEF IsList
<1>1. /\ t \in Seq(T) /\ Len(t) = Len(s) + 1 /\ Len(s) \in Nat
      /\ t[Len(s) + 1] = new
      /\ \A k \in 1 .. Len(s) : t[k] = s[k]
  BY <1>0
<1> HIDE DEF t
<1>2. \A k \in 1 .. Len(t) : k \in 1 .. Len(s) \/ k = Len(s) + 1
  BY <1>1
<1>3. \A k \in 1 .. Len(s) : s[k].id \in 1 .. n - 1
  BY DEF IsList
<1>4. IsList(t, n + 1, T)
  <2>1. \A k \in 1 .. Len(t) : t[k].id \in 1 .. (n + 1) - 1
    BY <1>0, <1>1, <1>2, <1>3
  <2>2. \A k \in 1 .. Len(s) : t[k].id # t[Len(s) + 1].id
    BY <1>0, <1>1, <1>3
  <2>3. \A j, k \in 1 .. Len(s) : t[j].id = t[k].id => j = k
    BY <1>1 DEF IsList
  <2>4. \A j, k \in 1 .. Len(t) : t[j].id = t[k].id => j = k
    BY <1>2, <2>2, <2>3
  <2>5. n + 1 \in Nat \ {0}
    BY <1>0
  <2> QED BY <1>1, <2>1, <2>4, <2>5 DEF IsList
<1>5. IdsIn(t) = IdsIn(s) \cup {n}
  <2>1. DOMAIN t = 1 .. Len(s) + 1 /\ DOMAIN s = 1 .. Len(s)
    BY <1>0, <1>1
  <2>2. DOMAIN t = (DOMAIN s) \cup {Len(s) + 1}
    BY <1>1, <2>1
  <2> QED BY <1>1, <2>1, <2>2 DEF IdsIn
<1>6. ASSUME NEW i \in IdsIn(t)
      PROVE  TasksOf(t)[i] = IF i = n THEN new ELSE TasksOf(s)[i]
  <2>1. CASE i = n
    <3>1. Len(s) + 1 \in 1 .. Len(t) /\ t[Len(s) + 1].id = n
      BY <1>1
    <3>2. TasksOf(t)[t[Len(s) + 1].id] = t[Len(s) + 1]
      BY <1>4, <3>1, ListFinds
    <3> QED BY <1>1, <2>1, <3>1, <3>2
  <2>2. CASE i # n
    <3>1. i \in IdsIn(s)
      BY <1>5, <2>2
    <3>2. PICK k \in 1 .. Len(s) : s[k].id = i
      BY <3>1, ListFinds
    <3>3. k \in 1 .. Len(t) /\ t[k] = s[k]
      BY <1>1, <3>2
    <3>4. TasksOf(t)[t[k].id] = t[k]
      BY <1>4, <3>3, ListFinds
    <3>5. TasksOf(s)[s[k].id] = s[k]
      BY <3>2, ListFinds
    <3> QED BY <2>2, <3>2, <3>3, <3>4, <3>5
  <2> QED BY <2>1, <2>2
<1>7. TasksOf(t) = [i \in IdsIn(t) |-> TasksOf(t)[i]]
  BY DEF TasksOf
<1>8. TasksOf(t) = [i \in IdsIn(s) \cup {n} |-> IF i = n THEN new ELSE TasksOf(s)[i]]
  BY <1>5, <1>6, <1>7
<1>9. DOMAIN TasksOf(s) = IdsIn(s)
  BY DEF TasksOf
<1>10. TasksOf(t) = With(TasksOf(s), n, new)
  BY <1>8, <1>9 DEF With
<1> QED BY <1>4, <1>5, <1>10 DEF t

\* Writing a task in the place of another with its id.
Replaced(s, k, new) == [s EXCEPT ![k] = new]

LEMMA ListChanges ==
    ASSUME NEW s, NEW n, NEW T, IsList(s, n, T), NEW k \in 1 .. Len(s),
           NEW new \in T, new.id = s[k].id
    PROVE  /\ IsList(Replaced(s, k, new), n, T)
           /\ IdsIn(Replaced(s, k, new)) = IdsIn(s)
           /\ s[k].id \in IdsIn(s)
           /\ TasksOf(Replaced(s, k, new)) = With(TasksOf(s), s[k].id, new)
<1> DEFINE t == Replaced(s, k, new)
<1>0. s \in Seq(T)
  BY DEF IsList
<1>1. /\ t \in Seq(T) /\ Len(t) = Len(s)
      /\ \A j \in 1 .. Len(s) : t[j] = IF j = k THEN new ELSE s[j]
  BY <1>0, ExceptSeq DEF Replaced
<1> HIDE DEF t
<1>2. \A j \in 1 .. Len(s) : t[j].id = s[j].id
  BY <1>1
<1>3. IsList(t, n, T)
  BY <1>1, <1>2 DEF IsList
<1>4. IdsIn(t) = IdsIn(s)
  <2>1. DOMAIN t = 1 .. Len(s) /\ DOMAIN s = 1 .. Len(s)
    BY <1>0, <1>1
  <2> QED BY <1>2, <2>1 DEF IdsIn
<1>5. ASSUME NEW i \in IdsIn(s)
      PROVE  TasksOf(t)[i] = IF i = s[k].id THEN new ELSE TasksOf(s)[i]
  <2>1. PICK j \in 1 .. Len(s) : s[j].id = i
    BY ListFinds
  <2>2. TasksOf(t)[t[j].id] = t[j]
    BY <1>1, <1>3, <2>1, ListFinds
  <2>3. TasksOf(s)[s[j].id] = s[j]
    BY <2>1, ListFinds
  <2>4. j = k <=> i = s[k].id
    BY <2>1 DEF IsList
  <2> QED BY <1>1, <1>2, <2>1, <2>2, <2>3, <2>4
<1>6. TasksOf(t) = [i \in IdsIn(s) |-> TasksOf(t)[i]]
  BY <1>4 DEF TasksOf
<1>7. TasksOf(t) = [i \in IdsIn(s) |-> IF i = s[k].id THEN new ELSE TasksOf(s)[i]]
  BY <1>5, <1>6
<1>8. s[k].id \in IdsIn(s)
  BY ListFinds
<1>9. DOMAIN TasksOf(s) = IdsIn(s) /\ IdsIn(s) \cup {s[k].id} = IdsIn(s)
  BY <1>8 DEF TasksOf
<1>10. TasksOf(t) = With(TasksOf(s), s[k].id, new)
  BY <1>7, <1>9 DEF With
<1> QED BY <1>3, <1>4, <1>8, <1>10 DEF t

\* RemoveAt: the elements after the one removed move up.
LEMMA RemoveAtElements ==
    ASSUME NEW S, NEW s \in Seq(S), NEW k \in 1 .. Len(s)
    PROVE  /\ RemoveAt(s, k) \in Seq(S)
           /\ Len(RemoveAt(s, k)) = Len(s) - 1
           /\ \A j \in 1 .. Len(s) - 1 : RemoveAt(s, k)[j] = IF j < k THEN s[j] ELSE s[j + 1]
<1> DEFINE front == SubSeq(s, 1, k - 1)
           back  == SubSeq(s, k + 1, Len(s))
<1>1. /\ front \in Seq(S) /\ Len(front) = k - 1
      /\ \A j \in 1 .. k - 1 : front[j] = s[j]
  BY SubSeqProperties
<1>2. /\ back \in Seq(S) /\ Len(back) = Len(s) - k
      /\ \A j \in 1 .. Len(s) - k : back[j] = s[k + j]
  BY SubSeqProperties
<1>3. RemoveAt(s, k) = front \o back
  BY DEF RemoveAt
<1> HIDE DEF front, back
<1>4. /\ front \o back \in Seq(S)
      /\ Len(front \o back) = Len(s) - 1
      /\ \A j \in 1 .. Len(s) - 1 :
           (front \o back)[j] = IF j < k THEN front[j] ELSE back[j - (k - 1)]
  <2>1. /\ front \o back \in Seq(S)
        /\ Len(front \o back) = (k - 1) + (Len(s) - k)
    <3>1. front \in Seq(S) /\ back \in Seq(S)
      BY <1>1, <1>2
    <3>2. front \o back \in Seq(S) /\ Len(front \o back) = Len(front) + Len(back)
      BY <3>1, ConcatProperties
    <3> QED BY <1>1, <1>2, <3>2
  <2>2. \A j \in 1 .. (k - 1) + (Len(s) - k) :
           (front \o back)[j] = IF j <= k - 1 THEN front[j] ELSE back[j - (k - 1)]
    BY <1>1, <1>2, ConcatProperties
  <2>3. (k - 1) + (Len(s) - k) = Len(s) - 1 /\ \A j \in 1 .. Len(s) - 1 : j <= k - 1 <=> j < k
    OBVIOUS
  <2> QED BY <2>1, <2>2, <2>3
<1>5. ASSUME NEW j \in 1 .. Len(s) - 1
      PROVE  (front \o back)[j] = IF j < k THEN s[j] ELSE s[j + 1]
  <2>1. CASE j < k
    BY <1>1, <1>4, <2>1
  <2>2. CASE ~(j < k)
    <3>1. j - (k - 1) \in 1 .. Len(s) - k /\ k + (j - (k - 1)) = j + 1
      BY <2>2
    <3> QED BY <1>2, <1>4, <2>2, <3>1
  <2> QED BY <2>1, <2>2
<1> QED BY <1>3, <1>4, <1>5

LEMMA ListDrops ==
    ASSUME NEW s, NEW n, NEW T, IsList(s, n, T), NEW k \in 1 .. Len(s)
    PROVE  /\ IsList(RemoveAt(s, k), n, T)
           /\ s[k].id \in IdsIn(s)
           /\ IdsIn(RemoveAt(s, k)) = IdsIn(s) \ {s[k].id}
           /\ TasksOf(RemoveAt(s, k)) = Without(TasksOf(s), s[k].id)
<1> DEFINE t == RemoveAt(s, k)
<1>0. s \in Seq(T) /\ Len(s) \in Nat
  BY DEF IsList
<1>1. /\ t \in Seq(T) /\ Len(t) = Len(s) - 1
      /\ \A j \in 1 .. Len(s) - 1 : t[j] = IF j < k THEN s[j] ELSE s[j + 1]
  BY <1>0, RemoveAtElements
<1> HIDE DEF t
<1>2. \A j \in 1 .. Len(t) :
         \E m \in 1 .. Len(s) : m # k /\ t[j] = s[m] /\ m = (IF j < k THEN j ELSE j + 1)
  BY <1>0, <1>1
<1>3. ASSUME NEW m \in 1 .. Len(s), m # k
      PROVE  \E j \in 1 .. Len(t) : t[j] = s[m]
  <2>1. CASE m < k
    BY <1>0, <1>1, <2>1
  <2>2. CASE m > k
    <3>1. m - 1 \in 1 .. Len(t) /\ m - 1 \in 1 .. Len(s) - 1 /\ ~(m - 1 < k) /\ (m - 1) + 1 = m
      BY <1>0, <1>1, <2>2
    <3> QED BY <1>1, <3>1
  <2> QED BY <1>3, <2>1, <2>2
<1>4. IsList(t, n, T)
  <2>1. \A j \in 1 .. Len(t) : t[j].id \in 1 .. n - 1
    BY <1>2 DEF IsList
  <2>2. ASSUME NEW i \in 1 .. Len(t), NEW j \in 1 .. Len(t), t[i].id = t[j].id
        PROVE  i = j
    <3>1. PICK m \in 1 .. Len(s) : t[i] = s[m] /\ m = (IF i < k THEN i ELSE i + 1)
      BY <1>2
    <3>2. PICK l \in 1 .. Len(s) : t[j] = s[l] /\ l = (IF j < k THEN j ELSE j + 1)
      BY <1>2
    <3>3. m = l
      BY <2>2, <3>1, <3>2 DEF IsList
    <3> QED BY <1>0, <1>1, <3>1, <3>2, <3>3
  <2> QED BY <1>1, <2>1, <2>2 DEF IsList
<1>5. \A m \in 1 .. Len(s) : s[m].id = s[k].id <=> m = k
  BY DEF IsList
<1>6. s[k].id \in IdsIn(s)
  BY ListFinds
<1>7. IdsIn(t) = IdsIn(s) \ {s[k].id}
  <2>1. DOMAIN t = 1 .. Len(t) /\ DOMAIN s = 1 .. Len(s)
    BY <1>0, <1>1
  <2>2. ASSUME NEW i \in IdsIn(t) PROVE i \in IdsIn(s) \ {s[k].id}
    <3>1. PICK j \in 1 .. Len(t) : t[j].id = i
      BY <2>1 DEF IdsIn
    <3>2. PICK m \in 1 .. Len(s) : m # k /\ t[j] = s[m]
      BY <1>2, <3>1
    <3> QED BY <1>5, <2>1, <3>1, <3>2 DEF IdsIn
  <2>3. ASSUME NEW i \in IdsIn(s) \ {s[k].id} PROVE i \in IdsIn(t)
    <3>1. PICK m \in 1 .. Len(s) : s[m].id = i /\ m # k
      BY <2>1 DEF IdsIn
    <3>2. PICK j \in 1 .. Len(t) : t[j] = s[m]
      BY <1>3, <3>1
    <3> QED BY <2>1, <3>1, <3>2 DEF IdsIn
  <2> QED BY <2>2, <2>3
<1>8. ASSUME NEW i \in IdsIn(t) PROVE TasksOf(t)[i] = TasksOf(s)[i]
  <2>1. PICK j \in 1 .. Len(t) : t[j].id = i
    BY <1>4, ListFinds
  <2>2. PICK m \in 1 .. Len(s) : t[j] = s[m]
    BY <1>2, <2>1
  <2>3. TasksOf(t)[t[j].id] = t[j]
    BY <1>4, <2>1, ListFinds
  <2>4. TasksOf(s)[s[m].id] = s[m]
    BY <2>2, ListFinds
  <2> QED BY <2>1, <2>2, <2>3, <2>4
<1>9. TasksOf(t) = [i \in IdsIn(t) |-> TasksOf(t)[i]]
  BY DEF TasksOf
<1>10. TasksOf(t) = [i \in IdsIn(s) \ {s[k].id} |-> TasksOf(s)[i]]
  BY <1>7, <1>8, <1>9
<1>11. TasksOf(t) = Without(TasksOf(s), s[k].id)
  BY <1>10 DEF TasksOf, Without
<1> QED BY <1>4, <1>6, <1>7, <1>11 DEF t

LEMMA ListStarts ==
    ASSUME NEW T
    PROVE  IsList(<<>>, 1, T) /\ IdsIn(<<>>) = {} /\ TasksOf(<<>>) = <<>>
<1>1. <<>> \in Seq(T) /\ Len(<<>>) = 0 /\ DOMAIN <<>> = {}
  OBVIOUS
<1>2. IsList(<<>>, 1, T)
  BY <1>1 DEF IsList
<1>3. IdsIn(<<>>) = {}
  BY <1>1 DEF IdsIn
<1> QED BY <1>2, <1>3 DEF TasksOf

\* What a server without assignees shows of its tasks.
ShownTask(task) == [title |-> task.title, done |-> task.done]

Shown(s) == [i \in IdsIn(s) |-> ShownTask(TasksOf(s)[i])]

LEMMA ShownSteps ==
    ASSUME NEW s, NEW n, NEW T, IsList(s, n, T)
    PROVE  /\ DOMAIN Shown(s) = IdsIn(s)
           /\ \A new \in T : new.id = n =>
                Shown(Append(s, new)) = With(Shown(s), n, ShownTask(new))
           /\ \A k \in 1 .. Len(s), new \in T : new.id = s[k].id =>
                Shown(Replaced(s, k, new)) = With(Shown(s), s[k].id, ShownTask(new))
           /\ \A k \in 1 .. Len(s) :
                Shown(RemoveAt(s, k)) = Without(Shown(s), s[k].id)
<1>1. /\ DOMAIN Shown(s) = IdsIn(s) /\ DOMAIN TasksOf(s) = IdsIn(s)
      /\ \A i \in IdsIn(s) : Shown(s)[i] = ShownTask(TasksOf(s)[i])
  BY DEF Shown, TasksOf
<1>2. ASSUME NEW t, NEW i, NEW new,
             TasksOf(t) = With(TasksOf(s), i, new), IdsIn(t) = IdsIn(s) \cup {i}
      PROVE  Shown(t) = With(Shown(s), i, ShownTask(new))
  BY <1>1, <1>2 DEF Shown, With
<1>3. ASSUME NEW new \in T, new.id = n
      PROVE  Shown(Append(s, new)) = With(Shown(s), n, ShownTask(new))
  BY <1>2, <1>3, ListAdds
<1>4. ASSUME NEW k \in 1 .. Len(s), NEW new \in T, new.id = s[k].id
      PROVE  Shown(Replaced(s, k, new)) = With(Shown(s), s[k].id, ShownTask(new))
  <2>1. /\ IdsIn(Replaced(s, k, new)) = IdsIn(s) \cup {s[k].id}
        /\ TasksOf(Replaced(s, k, new)) = With(TasksOf(s), s[k].id, new)
    BY <1>4, ListChanges
  <2> QED BY <1>2, <2>1
<1>5. ASSUME NEW t, NEW i, TasksOf(t) = Without(TasksOf(s), i), IdsIn(t) = IdsIn(s) \ {i}
      PROVE  Shown(t) = Without(Shown(s), i)
  BY <1>1, <1>5 DEF Shown, Without
<1>6. ASSUME NEW k \in 1 .. Len(s) PROVE Shown(RemoveAt(s, k)) = Without(Shown(s), s[k].id)
  BY <1>5, ListDrops
<1> QED BY <1>1, <1>3, <1>4, <1>6

-----------------------------------------------------------------------------
(* The styles *)

StylesTask == [id : Nat, title : Texts, done : BOOLEAN \cup {Null}]

StylesInv == IsList(tasks, nextId, StylesTask)

\* The list of the servers in the terms above.
LEMMA StylesTerms ==
    /\ Styles!Ids = IdsIn(tasks)
    /\ \A i : Styles!Find(i) = PlaceOf(tasks, i)
    /\ Styles!Held = Shown(tasks)
    /\ \A s, k : Styles!RemoveAt(s, k) = RemoveAt(s, k)
<1>1. Styles!Ids = IdsIn(tasks)
  BY DEF Styles!Ids, IdsIn
<1>2. \A i : Styles!Find(i) = PlaceOf(tasks, i)
  BY DEF Styles!Find, PlaceOf
<1>3. Styles!Held = Shown(tasks)
  BY <1>1, <1>2 DEF Styles!Held, Shown, ShownTask, TasksOf
<1>4. \A s, k : Styles!RemoveAt(s, k) = RemoveAt(s, k)
  BY DEF Styles!RemoveAt, RemoveAt
<1> QED BY <1>1, <1>2, <1>3, <1>4

LEMMA HeldIsShown == Styles!Held = Shown(tasks) /\ Styles!Held' = Shown(tasks')
<1>1. Styles!Held = Shown(tasks)
  BY StylesTerms
<1>2. (Styles!Held = Shown(tasks))'
  BY <1>1, StylesTerms, PTL
<1> QED BY <1>1, <1>2

LEMMA AddCreates ==
    ASSUME StylesInv, NEW title, Styles!Add(title)
    PROVE  StylesInv' /\ Styles!Store!Next
<1> DEFINE new == [id |-> nextId, title |-> title, done |-> FALSE]
<1>1. title \in Texts /\ tasks' = Append(tasks, new) /\ nextId' = nextId + 1 /\ nextId \in Nat
  BY DEF Styles!Add, StylesInv, IsList
<1>2. new \in StylesTask /\ new.id = nextId
  BY <1>1 DEF StylesTask
<1>3. ShownTask(new) = [title |-> title, done |-> FALSE]
  BY DEF ShownTask
<1> HIDE DEF new
<1>4. IsList(tasks', nextId', StylesTask)
  BY <1>1, <1>2, ListAdds DEF StylesInv
<1>5. Shown(tasks') = With(Shown(tasks), nextId, ShownTask(new))
  BY <1>1, <1>2, ShownSteps DEF StylesInv
<1>6. nextId' - 1 = nextId /\ nextId' - 1 = (nextId - 1) + 1
  BY <1>1
<1>7. [title |-> title, done |-> FALSE] \in Styles!Content
  BY <1>1 DEF Styles!Content
<1>8. Styles!Store!Create([title |-> title, done |-> FALSE])
  BY <1>3, <1>5, <1>6, HeldIsShown DEF Styles!Store!Create, With
<1> QED BY <1>4, <1>7, <1>8 DEF StylesInv, Styles!Store!Next

LEMMA ChangeChanges ==
    ASSUME StylesInv, NEW id, NEW title, NEW done \in BOOLEAN \cup {Null},
           Styles!Change(id, title, done)
    PROVE  StylesInv' /\ Styles!Store!Next
<1> DEFINE k   == PlaceOf(tasks, id)
           new == [tasks[k] EXCEPT !.title = title, !.done = done]
<1>1. /\ id \in IdsIn(tasks) /\ title \in Texts /\ nextId' = nextId
      /\ k \in 1 .. Len(tasks) /\ tasks[k].id = id /\ tasks[k] \in StylesTask
  <2>1. id \in IdsIn(tasks) /\ title \in Texts /\ nextId' = nextId
    BY StylesTerms DEF Styles!Change
  <2> QED BY <2>1, ListFinds DEF StylesInv
<1>2. tasks' = [tasks EXCEPT ![k].title = title, ![k].done = done]
  BY StylesTerms DEF Styles!Change
<1>3. new \in StylesTask /\ new.id = id /\ ShownTask(new) = [title |-> title, done |-> done]
  BY <1>1 DEF StylesTask, ShownTask
<1>4. tasks' = Replaced(tasks, k, new)
  <2>1. tasks \in Seq(StylesTask)
    BY DEF StylesInv, IsList
  <2> QED BY <1>1, <1>2, <2>1 DEF Replaced
<1> HIDE DEF k, new
<1>5. IsList(tasks', nextId', StylesTask)
  BY <1>1, <1>3, <1>4, ListChanges DEF StylesInv
<1>6. /\ Shown(tasks') = With(Shown(tasks), id, ShownTask(new))
      /\ id \in DOMAIN Shown(tasks)
  BY <1>1, <1>3, <1>4, ShownSteps DEF StylesInv
<1>7. [title |-> title, done |-> done] \in Styles!Content
  BY <1>1 DEF Styles!Content
<1>8. id \in DOMAIN Styles!Held /\ Styles!Store!Change(id, [title |-> title, done |-> done])
  <2>1. Shown(tasks) = [i \in DOMAIN Shown(tasks) |-> Shown(tasks)[i]]
    BY DEF Shown
  <2>2. With(Shown(tasks), id, ShownTask(new)) = [Shown(tasks) EXCEPT ![id] = ShownTask(new)]
    BY <1>6, <2>1 DEF With
  <2> QED BY <1>1, <1>3, <1>6, <2>2, HeldIsShown DEF Styles!Store!Change
<1> QED BY <1>5, <1>7, <1>8 DEF StylesInv, Styles!Store!Next

LEMMA DropRemoves ==
    ASSUME StylesInv, NEW id, Styles!Drop(id)
    PROVE  StylesInv' /\ Styles!Store!Next
<1> DEFINE k == PlaceOf(tasks, id)
<1>1. /\ id \in IdsIn(tasks) /\ nextId' = nextId
      /\ tasks' = RemoveAt(tasks, k)
  BY StylesTerms DEF Styles!Drop
<1>2. k \in 1 .. Len(tasks) /\ tasks[k].id = id
  BY <1>1, ListFinds DEF StylesInv
<1> HIDE DEF k
<1>3. IsList(tasks', nextId', StylesTask)
  BY <1>1, <1>2, ListDrops DEF StylesInv
<1>4. /\ Shown(tasks') = Without(Shown(tasks), id)
      /\ id \in DOMAIN Shown(tasks)
  BY <1>1, <1>2, ShownSteps DEF StylesInv
<1>5. id \in DOMAIN Styles!Held /\ Styles!Store!Remove(id)
  BY <1>1, <1>4, HeldIsShown DEF Styles!Store!Remove, Without
<1> QED BY <1>3, <1>5 DEF StylesInv, Styles!Store!Next

\* What a patch leaves out is what the task has.
LEMMA KeptDone ==
    ASSUME StylesInv, NEW id \in Styles!Ids, NEW done \in Styles!Dones
    PROVE  /\ tasks[Styles!Find(id)].done \in BOOLEAN \cup {Null}
           /\ Styles!OrKept(done, tasks[Styles!Find(id)].done) \in BOOLEAN \cup {Null}
           /\ Styles!Truthy(done) \in BOOLEAN \cup {Null}
<1>1. tasks[Styles!Find(id)] \in StylesTask
  BY StylesTerms, ListFinds DEF StylesInv
<1> QED BY <1>1 DEF StylesTask, Styles!OrKept, Styles!Truthy, Styles!Dones

\* Every request that changes the list adds, changes or drops one task.
LEMMA RequestKinds ==
    ASSUME StylesInv, Styles!Next
    PROVE  \/ \E title : Styles!Add(title)
           \/ \E id : Styles!Drop(id)
           \/ \E id, title : \E done \in BOOLEAN \cup {Null} : Styles!Change(id, title, done)
<1>1. CASE \E title \in Styles!GivenTitles :
             \/ Styles!RestPost(title) \/ Styles!RpcCreate(title) \/ Styles!CreateTask(title)
             \/ Styles!ControllerCreate(title) \/ Styles!ViewModelAddTask(title)
  BY <1>1 DEF Styles!RestPost, Styles!RpcCreate, Styles!CreateTask, Styles!ControllerCreate,
              Styles!ViewModelAddTask
<1>2. CASE \E id \in 1 .. MaxTasks :
             Styles!RestDelete(id) \/ Styles!RpcDelete(id) \/ Styles!DeleteTask(id)
  BY <1>2 DEF Styles!RestDelete, Styles!RpcDelete, Styles!DeleteTask
<1>3. ASSUME NEW id, NEW title \in Styles!GivenTitles, NEW done \in Styles!Dones,
             \/ Styles!RestPut(id, title, done) \/ Styles!RpcUpdate(id, title, done)
             \/ Styles!UpdateTask(id, title, done)
      PROVE  \E ticked \in BOOLEAN \cup {Null} : Styles!Change(id, title, ticked)
  BY <1>3 DEF Styles!RestPut, Styles!RpcUpdate, Styles!UpdateTask, Styles!Truthy
<1>4. ASSUME NEW id, NEW title \in Styles!GivenTitles, NEW done \in Styles!Dones,
             \/ Styles!RestPatch(id, title, done) \/ Styles!RpcPatch(id, title, done)
             \/ Styles!PatchTask(id, title, done)
      PROVE  \E text : \E ticked \in BOOLEAN \cup {Null} : Styles!Change(id, text, ticked)
  <2>1. id \in Styles!Ids
    BY <1>4 DEF Styles!RestPatch, Styles!RpcPatch, Styles!PatchTask
  <2> DEFINE kept == tasks[Styles!Find(id)].done
             ticked == IF done = Absent THEN kept ELSE Styles!Truthy(done)
  <2>2. /\ ticked \in BOOLEAN \cup {Null}
        /\ Styles!OrKept(done, kept) \in BOOLEAN \cup {Null}
    BY <2>1, KeptDone
  <2>3. \E text : \/ Styles!Change(id, text, ticked)
                   \/ Styles!Change(id, text, Styles!OrKept(done, kept))
    <3>1. CASE Styles!RestPatch(id, title, done)
      BY <3>1 DEF Styles!RestPatch
    <3>2. CASE Styles!RpcPatch(id, title, done)
      BY <3>2 DEF Styles!RpcPatch
    <3>3. CASE Styles!PatchTask(id, title, done)
      BY <3>3 DEF Styles!PatchTask
    <3> QED BY <1>4, <3>1, <3>2, <3>3
  <2> HIDE DEF ticked, kept
  <2> QED BY <2>2, <2>3
<1> QED BY <1>1, <1>2, <1>3, <1>4 DEF Styles!Next

LEMMA StylesStep ==
    ASSUME StylesInv, [Styles!Next]_(Styles!vars)
    PROVE  StylesInv' /\ [Styles!Store!Next]_(Styles!Store!vars)
<1>1. CASE UNCHANGED Styles!vars
  <2>1. tasks' = tasks /\ nextId' = nextId
    BY <1>1 DEF Styles!vars
  <2> QED BY <2>1, HeldIsShown DEF StylesInv, Styles!Store!vars
<1> QED BY <1>1, RequestKinds, AddCreates, ChangeChanges, DropRemoves

LEMMA StylesSpecServes == Styles!Spec => Styles!ServesAStore
<1>1. ASSUME Styles!Init PROVE StylesInv /\ Styles!Store!Init
  <2>1. tasks = <<>> /\ nextId = 1
    BY <1>1 DEF Styles!Init
  <2>2. IdsIn(tasks) = {} /\ StylesInv
    BY <2>1, ListStarts DEF StylesInv
  <2>3. Shown(tasks) = <<>>
    BY <2>2 DEF Shown
  <2> QED BY <2>1, <2>2, <2>3, HeldIsShown DEF Styles!Store!Init
<1>2. StylesInv /\ [Styles!Next]_(Styles!vars)
        => StylesInv' /\ [Styles!Store!Next]_(Styles!Store!vars)
  BY StylesStep
<1> QED BY <1>1, <1>2, PTL DEF Styles!Spec, Styles!ServesAStore, Styles!Store!Spec

-----------------------------------------------------------------------------
(* The board *)

Card == [id : Nat, title : Titles, done : BOOLEAN]

CardsInv == IsList(cards, nextCard, Card)

LEMMA BoardTerms ==
    /\ Board!Held = Shown(cards)
    /\ Board!Held' = Shown(cards')
    /\ \A s, k : Board!RemoveAt(s, k) = RemoveAt(s, k)
<1>1. Board!Held = Shown(cards)
  BY DEF Board!Held, Board!Ids, Board!Place, Shown, ShownTask, TasksOf, IdsIn, PlaceOf
<1>2. Board!Held' = Shown(cards')
  BY DEF Board!Held, Board!Ids, Board!Place, Shown, ShownTask, TasksOf, IdsIn, PlaceOf
<1>3. \A s, k : Board!RemoveAt(s, k) = RemoveAt(s, k)
  BY DEF Board!RemoveAt, RemoveAt
<1> QED BY <1>1, <1>2, <1>3

LEMMA BoardCreates ==
    ASSUME CardsInv, NEW title \in Titles, NEW u, Board!Create(u, title)
    PROVE  CardsInv' /\ Board!Store!Next
<1> DEFINE new == [id |-> nextCard, title |-> title, done |-> FALSE]
<1>1. cards' = Append(cards, new) /\ nextCard' = nextCard + 1 /\ nextCard \in Nat
  BY DEF Board!Create, CardsInv, IsList
<1>2. new \in Card /\ new.id = nextCard
  BY <1>1 DEF Card
<1>3. ShownTask(new) = [title |-> title, done |-> FALSE]
  BY DEF ShownTask
<1> HIDE DEF new
<1>4. IsList(cards', nextCard', Card)
  BY <1>1, <1>2, ListAdds DEF CardsInv
<1>5. Shown(cards') = With(Shown(cards), nextCard, ShownTask(new))
  BY <1>1, <1>2, ShownSteps DEF CardsInv
<1>6. nextCard' - 1 = nextCard /\ nextCard' - 1 = (nextCard - 1) + 1
  BY <1>1
<1>7. [title |-> title, done |-> FALSE] \in [title : Titles, done : BOOLEAN]
  OBVIOUS
<1>8. Board!Store!Create([title |-> title, done |-> FALSE])
  BY <1>3, <1>5, <1>6, BoardTerms DEF Board!Store!Create, With
<1> QED BY <1>4, <1>7, <1>8 DEF CardsInv, Board!Store!Next

LEMMA BoardUpdates ==
    ASSUME CardsInv, NEW u, NEW k, NEW title \in Titles, NEW done \in BOOLEAN,
           Board!Update(u, k, title, done)
    PROVE  CardsInv' /\ Board!Store!Next
<1> DEFINE new == [id |-> cards[k].id, title |-> title, done |-> done]
           id  == cards[k].id
<1>1. /\ nextCard' = nextCard /\ cards' = Replaced(cards, k, new)
      /\ k \in 1 .. Len(cards) /\ cards[k] \in Card
  <2>1. nextCard' = nextCard /\ cards' = Replaced(cards, k, new) /\ k \in DOMAIN cards
    BY DEF Board!Update, Replaced
  <2> HIDE DEF new
  <2> QED BY <2>1, ListFinds DEF CardsInv
<1>3. new \in Card /\ new.id = id /\ ShownTask(new) = [title |-> title, done |-> done]
  BY <1>1 DEF Card, ShownTask
<1> HIDE DEF new
<1>5. IsList(cards', nextCard', Card)
  BY <1>1, <1>3, ListChanges DEF CardsInv
<1>6. /\ Shown(cards') = With(Shown(cards), id, ShownTask(new))
      /\ id \in DOMAIN Shown(cards)
  <2>1. id \in IdsIn(cards)
    BY <1>1, ListFinds DEF CardsInv
  <2> QED BY <1>1, <1>3, <2>1, ShownSteps DEF CardsInv
<1>8. id \in DOMAIN Board!Held /\ Board!Store!Change(id, [title |-> title, done |-> done])
  <2>1. Shown(cards) = [i \in DOMAIN Shown(cards) |-> Shown(cards)[i]]
    BY DEF Shown
  <2> HIDE DEF id
  <2>2. With(Shown(cards), id, ShownTask(new)) = [Shown(cards) EXCEPT ![id] = ShownTask(new)]
    BY <1>6, <2>1 DEF With
  <2> QED BY <1>1, <1>3, <1>6, <2>2, BoardTerms DEF Board!Store!Change
<1>9. [title |-> title, done |-> done] \in [title : Titles, done : BOOLEAN]
  OBVIOUS
<1> QED BY <1>5, <1>8, <1>9 DEF CardsInv, Board!Store!Next

LEMMA BoardDeletes ==
    ASSUME CardsInv, NEW u, NEW k, Board!Delete(u, k)
    PROVE  CardsInv' /\ Board!Store!Next
<1>1. /\ nextCard' = nextCard /\ cards' = RemoveAt(cards, k) /\ k \in 1 .. Len(cards)
  BY BoardTerms, ListFinds DEF Board!Delete, CardsInv
<1>2. IsList(cards', nextCard', Card)
  BY <1>1, ListDrops DEF CardsInv
<1> DEFINE id == cards[k].id
<1>3. /\ Shown(cards') = Without(Shown(cards), id)
      /\ id \in DOMAIN Shown(cards)
  <2>1. id \in IdsIn(cards)
    BY <1>1, ListFinds DEF CardsInv
  <2> QED BY <1>1, <2>1, ShownSteps DEF CardsInv
<1> HIDE DEF id
<1>4. id \in DOMAIN Board!Held /\ Board!Store!Remove(id)
  BY <1>1, <1>3, BoardTerms DEF Board!Store!Remove, Without
<1> QED BY <1>2, <1>4 DEF CardsInv, Board!Store!Next

LEMMA CardsStep ==
    ASSUME CardsInv, [Board!Next]_(Board!vars)
    PROVE  CardsInv' /\ [Board!Store!Next]_(Board!Store!vars)
<1>1. CASE cards' = cards /\ nextCard' = nextCard
  BY <1>1, BoardTerms DEF CardsInv, Board!Store!vars
<1>2. CASE UNCHANGED Board!vars
  BY <1>1, <1>2 DEF Board!vars
<1>3. ASSUME NEW u \in Users,
             \/ Board!Connect(u) \/ Board!HangUp(u) \/ Board!Close(u) \/ Board!List(u)
             \/ Board!Receive(u) \/ Board!Throw(u)
      PROVE  cards' = cards /\ nextCard' = nextCard
  BY <1>3 DEF Board!Connect, Board!HangUp, Board!Close, Board!List, Board!Receive,
              Board!Throw
<1> QED BY <1>1, <1>2, <1>3, BoardCreates, BoardUpdates, BoardDeletes DEF Board!Next

LEMMA BoardSpecServes == Board!Spec => Board!BoardIsAStore
<1>1. ASSUME Board!Init PROVE CardsInv /\ Board!Store!Init
  <2>1. cards = <<>> /\ nextCard = 1
    BY <1>1 DEF Board!Init
  <2>2. IdsIn(cards) = {} /\ CardsInv
    BY <2>1, ListStarts DEF CardsInv
  <2>3. Shown(cards) = <<>>
    BY <2>2 DEF Shown
  <2> QED BY <2>1, <2>2, <2>3, BoardTerms DEF Board!Store!Init
<1>2. CardsInv /\ [Board!Next]_(Board!vars)
        => CardsInv' /\ [Board!Store!Next]_(Board!Store!vars)
  BY CardsStep
<1> QED BY <1>1, <1>2, PTL DEF Board!Spec, Board!BoardIsAStore, Board!Store!Spec

-----------------------------------------------------------------------------
(* What a user will see: the messages on their way applied one by one to   *)
(* what is seen now.  The fold of the library is a recursive function over *)
(* the sets of positions, as a sum is (SumTheorems), and the argument is   *)
(* the same.                                                               *)

\* The position folded last.
LastPlace(T) == Board!Max(T)

LEMMA LastIsLargest ==
    ASSUME NEW n \in Nat, NEW T \in SUBSET (1 .. n), T # {}
    PROVE  LastPlace(T) \in T /\ \A y \in T : LastPlace(T) >= y
<1> DEFINE B == {n - x : x \in T}
<1>1. B \in SUBSET Nat /\ B # {}
  <2>1. \A x \in T : x \in 1 .. n
    OBVIOUS
  <2>2. \A x \in T : n - x \in Nat
    BY <2>1
  <2> QED BY <2>2
<1>2. PICK b \in B : \A m \in B : b <= m
  <2> HIDE DEF B
  <2> QED BY <1>1, SmallestNumber
<1>3. PICK x \in T : b = n - x
  OBVIOUS
<1>4. ASSUME NEW y \in T PROVE x >= y
  <2>1. n - y \in B
    OBVIOUS
  <2>2. n - x <= n - y /\ x \in Nat /\ y \in Nat
    BY <1>2, <1>3, <2>1
  <2> QED BY <2>2
<1>5. \E z \in T : \A y \in T : z >= y
  BY <1>4
<1> QED BY <1>5 DEF LastPlace, Board!Max

Step(v, s, g, T) == IF T = {} THEN v ELSE Board!Apply(g[T \ {LastPlace(T)}], s[LastPlace(T)])
Solves(v, s, g, S) == g = [T \in SUBSET S |-> Step(v, s, g, T)]
Iter(v, s, S) == CHOOSE g : Solves(v, s, g, S)
Fold(v, s) == Board!FoldLeft(Board!Apply, v, s)

LEMMA FoldIsIter == \A v, s : Fold(v, s) = Iter(v, s, DOMAIN s)[DOMAIN s]
BY DEF Fold, Board!FoldLeft, Board!MapThenFoldSet, Iter, Solves, Step, LastPlace

\* Positions of some sequence, and two sequences that are the same at them.
Positions(S) == \E n \in Nat : S \in SUBSET (1 .. n)
SameOn(s, t, S) == \A k \in S : s[k] = t[k]

\* Two folds agree on the positions where the sequences do.
LEMMA FoldsAgree ==
    ASSUME NEW v, NEW s, NEW t, NEW g, NEW h, NEW S, NEW T,
           Positions(S), Solves(v, s, g, S), Solves(v, t, h, T), SameOn(s, t, S \cap T)
    PROVE  \A U \in (SUBSET S) \cap (SUBSET T) : g[U] = h[U]
<1> DEFINE Bad == {U \in (SUBSET S) \cap (SUBSET T) : g[U] # h[U]}
<1> SUFFICES ASSUME Bad # {} PROVE FALSE
  OBVIOUS
<1>a. PICK m \in Nat : S \in SUBSET (1 .. m)
  BY DEF Positions
<1> DEFINE N == 1 .. m
<1>0. Bad \in SUBSET (SUBSET N) /\ IsFiniteSet(N)
  <2>1. \A U \in Bad : U \in SUBSET S
    OBVIOUS
  <2>2. Bad \in SUBSET (SUBSET N)
    BY <1>a, <2>1
  <2>3. IsFiniteSet(N)
    BY FS_Interval
  <2> QED BY <2>2, <2>3
<1>1. PICK U \in Bad : \A R \in Bad : R \subseteq U => R = U
  <2> HIDE DEF Bad, N
  <2> QED BY <1>0, SmallestSubset
<1>2. g[U] = Step(v, s, g, U) /\ h[U] = Step(v, t, h, U)
  BY DEF Solves
<1>3. CASE U = {}
  BY <1>2, <1>3 DEF Step
<1>4. CASE U # {}
  <2> DEFINE r == U \ {LastPlace(U)}
  <2>0. LastPlace(U) \in U
    <3>1. U \in SUBSET (1 .. m)
      BY <1>a
    <3> QED BY <1>4, <3>1, LastIsLargest
  <2>1. r \in (SUBSET S) \cap (SUBSET T) /\ r \subseteq U /\ r # U
    BY <2>0
  <2>2. g[r] = h[r]
    BY <2>1, <1>1
  <2>3. s[LastPlace(U)] = t[LastPlace(U)]
    BY <2>0 DEF SameOn
  <2> QED BY <1>2, <1>4, <2>2, <2>3 DEF Step
<1> QED BY <1>3, <1>4

LEMMA FoldSolves ==
    ASSUME NEW v, NEW s, NEW n \in Nat, NEW S \in SUBSET (1 .. n)
    PROVE  Solves(v, s, Iter(v, s, S), S)
<1> DEFINE Bad == {T \in SUBSET (1 .. n) : ~ Solves(v, s, Iter(v, s, T), T)}
<1> SUFFICES ASSUME Bad # {} PROVE FALSE
  OBVIOUS
<1> DEFINE N == 1 .. n
<1>0. Bad \in SUBSET (SUBSET N) /\ IsFiniteSet(N)
  BY FS_Interval
<1>1. PICK T \in Bad : \A U \in Bad : U \subseteq T => U = T
  <2> HIDE DEF Bad, N
  <2> QED BY <1>0, SmallestSubset
<1>2. \A U \in SUBSET T : U # T => Solves(v, s, Iter(v, s, U), U) /\ U \in SUBSET (1 .. n)
  BY <1>1
<1> DEFINE h == [U \in SUBSET T |-> IF U = {} THEN v
                   ELSE Board!Apply(Iter(v, s, U \ {LastPlace(U)})[U \ {LastPlace(U)}],
                                    s[LastPlace(U)])]
<1>3. ASSUME NEW U \in SUBSET T PROVE h[U] = Step(v, s, h, U)
  <2>1. CASE U = {}
    BY <2>1 DEF Step
  <2>2. CASE U # {}
    <3> DEFINE u == U \ {LastPlace(U)}
    <3>1. u \in SUBSET T /\ u # T
      BY <2>2, LastIsLargest
    <3> HIDE DEF u
    <3>2. Solves(v, s, Iter(v, s, u), u) /\ u \in SUBSET (1 .. n)
      BY <3>1, <1>2
    <3>3. Iter(v, s, u)[u] = Step(v, s, Iter(v, s, u), u)
      BY <3>2 DEF Solves
    <3>4. h[u] = Iter(v, s, u)[u]
      <4>1. CASE u = {}
        BY <3>1, <3>3, <4>1 DEF Step
      <4>2. CASE u # {}
        <5> DEFINE w == u \ {LastPlace(u)}
        <5>1. w \in SUBSET T /\ w # T /\ w \in SUBSET u
          BY <3>1
        <5> HIDE DEF w
        <5>2. Solves(v, s, Iter(v, s, w), w) /\ w \in SUBSET (1 .. n)
          BY <5>1, <1>2
        <5>3. \A x \in (SUBSET u) \cap (SUBSET w) : Iter(v, s, u)[x] = Iter(v, s, w)[x]
          <6>1. SameOn(s, s, u \cap w) /\ Positions(u)
            BY <3>2 DEF SameOn, Positions
          <6> DEFINE g == Iter(v, s, u)
                     k == Iter(v, s, w)
          <6>2. Solves(v, s, g, u) /\ Solves(v, s, k, w)
            BY <3>2, <5>2
          <6>3. \A x \in (SUBSET u) \cap (SUBSET w) : g[x] = k[x]
            <7> HIDE DEF g, k
            <7> QED BY <6>1, <6>2, FoldsAgree
          <6> QED BY <6>3
        <5>4. Iter(v, s, u)[w] = Iter(v, s, w)[w]
          BY <5>1, <5>3
        <5>5. h[u] = Board!Apply(Iter(v, s, w)[w], s[LastPlace(u)])
          BY <3>1, <4>2 DEF w
        <5> QED BY <3>3, <4>2, <5>4, <5>5 DEF Step, w
      <4> QED BY <4>1, <4>2
    <3>5. h[U] = Board!Apply(Iter(v, s, u)[u], s[LastPlace(U)])
      BY <2>2 DEF u
    <3> QED BY <3>4, <3>5, <2>2 DEF Step, u
  <2> QED BY <2>1, <2>2
<1>4. h = [U \in SUBSET T |-> h[U]]
  OBVIOUS
<1> HIDE DEF h
<1>5. Solves(v, s, h, T)
  BY <1>3, <1>4 DEF Solves
<1>6. Solves(v, s, Iter(v, s, T), T)
  BY <1>5 DEF Iter
<1> QED BY <1>1, <1>6

\* Nothing on its way, and one message more on its way.
LEMMA FoldOfNothing == \A v : Fold(v, <<>>) = v
<1> SUFFICES ASSUME NEW v PROVE Fold(v, <<>>) = v
  OBVIOUS
<1>1. DOMAIN <<>> = {} /\ {} \in SUBSET (1 .. 0)
  OBVIOUS
<1>2. Solves(v, <<>>, Iter(v, <<>>, {}), {})
  BY <1>1, FoldSolves
<1>3. Iter(v, <<>>, {})[{}] = Step(v, <<>>, Iter(v, <<>>, {}), {})
  BY <1>2 DEF Solves
<1> QED BY <1>1, <1>3, FoldIsIter DEF Step

LEMMA FoldOfOneMore ==
    ASSUME NEW M, NEW s \in Seq(M), NEW m \in M, NEW v
    PROVE  Fold(v, Append(s, m)) = Board!Apply(Fold(v, s), m)
<1> DEFINE t == Append(s, m)
           n == Len(s)
<1>1. /\ n \in Nat /\ DOMAIN s = 1 .. n /\ DOMAIN t = 1 .. n + 1
      /\ t[n + 1] = m /\ \A k \in 1 .. n : t[k] = s[k]
  OBVIOUS
<1> HIDE DEF t, n
<1>2. Solves(v, t, Iter(v, t, 1 .. n + 1), 1 .. n + 1)
  <2>1. n + 1 \in Nat /\ 1 .. n + 1 \in SUBSET (1 .. n + 1)
    BY <1>1
  <2> QED BY <2>1, FoldSolves
<1>3. Solves(v, s, Iter(v, s, 1 .. n), 1 .. n)
  BY <1>1, FoldSolves
<1>4. LastPlace(1 .. n + 1) = n + 1 /\ (1 .. n + 1) \ {n + 1} = 1 .. n /\ 1 .. n + 1 # {}
  <2>1. n + 1 \in Nat /\ n + 1 \in 1 .. n + 1
    BY <1>1
  <2> DEFINE T == 1 .. n + 1
  <2>2. LastPlace(T) \in T /\ LastPlace(T) >= n + 1
    <3>1. T \in SUBSET T /\ T # {} /\ n + 1 \in T
      BY <2>1
    <3> QED BY <2>1, <3>1, LastIsLargest
  <2> QED BY <1>1, <2>1, <2>2
<1>5. Iter(v, t, 1 .. n + 1)[1 .. n + 1] = Board!Apply(Iter(v, t, 1 .. n + 1)[1 .. n], m)
  <2>1. Iter(v, t, 1 .. n + 1)[1 .. n + 1] = Step(v, t, Iter(v, t, 1 .. n + 1), 1 .. n + 1)
    <3>1. \A T \in SUBSET (1 .. n + 1) :
            Iter(v, t, 1 .. n + 1)[T] = Step(v, t, Iter(v, t, 1 .. n + 1), T)
      BY <1>2 DEF Solves
    <3>2. 1 .. n + 1 \in SUBSET (1 .. n + 1)
      OBVIOUS
    <3> QED BY <3>1, <3>2
  <2> QED BY <1>1, <1>4, <2>1 DEF Step
<1>6. Iter(v, t, 1 .. n + 1)[1 .. n] = Iter(v, s, 1 .. n)[1 .. n]
  <2>1. /\ n + 1 \in Nat /\ 1 .. n + 1 \in SUBSET (1 .. n + 1) /\ 1 .. n \in SUBSET (1 .. n)
        /\ \A k \in (1 .. n + 1) \cap (1 .. n) : t[k] = s[k]
    BY <1>1
  <2>2. \A U \in (SUBSET (1 .. n + 1)) \cap (SUBSET (1 .. n)) :
          Iter(v, t, 1 .. n + 1)[U] = Iter(v, s, 1 .. n)[U]
    <3> DEFINE S == 1 .. n + 1
               T == 1 .. n
               g == Iter(v, t, S)
               h == Iter(v, s, T)
    <3>1. Solves(v, t, g, S) /\ Solves(v, s, h, T)
      BY <1>2, <1>3
    <3>2. SameOn(t, s, S \cap T) /\ Positions(S)
      BY <2>1 DEF SameOn, Positions
    <3>3. \A U \in (SUBSET S) \cap (SUBSET T) : g[U] = h[U]
      <4> HIDE DEF S, T, g, h
      <4> QED BY <1>1, <2>1, <3>1, <3>2, FoldsAgree
    <3> QED BY <3>3
  <2>3. 1 .. n \in (SUBSET (1 .. n + 1)) \cap (SUBSET (1 .. n))
    BY <1>1
  <2> QED BY <2>2, <2>3
<1>7. Fold(v, t) = Board!Apply(Fold(v, s), m)
  BY <1>1, <1>5, <1>6, FoldIsIter
<1> QED BY <1>7 DEF t

\* The first message applied, and then the others.
LEMMA FoldOfFirst ==
    ASSUME NEW M, NEW v, NEW s \in Seq(M), s # <<>>
    PROVE  Fold(v, s) = Fold(Board!Apply(v, Head(s)), Tail(s))
<1> DEFINE Wrong(r) == r # <<>> /\ Fold(v, r) # Fold(Board!Apply(v, Head(r)), Tail(r))
           Bad == {n \in Nat : \E r \in Seq(M) : Len(r) = n /\ Wrong(r)}
<1> SUFFICES ASSUME Wrong(s) PROVE FALSE
  OBVIOUS
<1>1. Bad \in SUBSET Nat /\ Bad # {}
  OBVIOUS
<1>2. PICK n \in Bad : \A m \in Bad : n <= m
  <2> HIDE DEF Bad
  <2> QED BY <1>1, SmallestNumber
<1>3. PICK r \in Seq(M) : Len(r) = n /\ Wrong(r)
  BY <1>2
<1>4. \A q \in Seq(M) : Len(q) < n => ~Wrong(q)
  <2> HIDE DEF Wrong
  <2>1. \A q \in Seq(M) : Wrong(q) => Len(q) \in Bad /\ Len(q) \in Nat
    OBVIOUS
  <2>2. n \in Nat
    OBVIOUS
  <2> HIDE DEF Bad
  <2> QED BY <1>2, <2>1, <2>2
<1> HIDE DEF Bad
<1> DEFINE q == SubSeq(r, 1, n - 1)
           m == r[n]
<1>5. n \in Nat /\ n >= 1
  BY <1>3
<1>6. q \in Seq(M) /\ Len(q) = n - 1 /\ m \in M /\ r = Append(q, m)
  BY <1>3, <1>5
<1>7. Fold(v, r) = Board!Apply(Fold(v, q), m)
  <2> HIDE DEF q, m
  <2> QED BY <1>6, FoldOfOneMore
<1>8. CASE n = 1
  <2>1. q = <<>> /\ Head(r) = m /\ Tail(r) = <<>>
    <3>1. Len(q) = 0 /\ q \in Seq(M)
      BY <1>6, <1>8
    <3>2. q = <<>>
      BY <3>1, EmptySeq
    <3>3. Head(r) = m
      BY <1>3, <1>8
    <3>4. Len(Tail(r)) = 0 /\ Tail(r) \in Seq(M)
      BY <1>3, <1>8
    <3>5. Tail(r) = <<>>
      BY <3>4, EmptySeq
    <3> QED BY <3>2, <3>3, <3>5
  <2> HIDE DEF q, m
  <2> QED BY <1>3, <1>7, <2>1, FoldOfNothing
<1>9. CASE n > 1
  <2>1. q # <<>> /\ Len(q) < n
    BY <1>5, <1>6, <1>9
  <2>2. Head(r) = Head(q) /\ Tail(r) = Append(Tail(q), m) /\ Tail(q) \in Seq(M)
    <3> HIDE DEF q, m
    <3>1. Len(r) > 1 /\ Len(r) = n /\ q # <<>>
      BY <1>3, <1>9, <2>1
    <3>2. Head(r) = Head(q) /\ Tail(q) \in Seq(M)
      BY <1>5, <1>6, <1>9, <2>1
    <3>3. Tail(Append(q, m)) = Append(Tail(q), m)
      BY <1>6, <3>1, HeadTailAppend
    <3> QED BY <1>6, <3>2, <3>3
  <2> HIDE DEF q, m
  <2>3. Fold(v, q) = Fold(Board!Apply(v, Head(q)), Tail(q))
    BY <1>4, <1>6, <2>1
  <2>4. Fold(Board!Apply(v, Head(q)), Append(Tail(q), m))
          = Board!Apply(Fold(Board!Apply(v, Head(q)), Tail(q)), m)
    BY <1>6, <2>2, FoldOfOneMore
  <2> QED BY <1>3, <1>7, <2>2, <2>3, <2>4
<1> QED BY <1>5, <1>8, <1>9

-----------------------------------------------------------------------------
(* Users see the server's list.                                            *)

Message ==
    [type : {"snapshot"}, tasks : Seq(Card)]
    \cup [type : {"task_created", "task_updated"}, task : Card]
    \cup [type : {"task_deleted"}, id : Nat]

BoardInv ==
    /\ CardsInv
    /\ inbox \in [Users -> Seq(Message)]
    /\ DOMAIN view = Users /\ DOMAIN socket = Users
    /\ \A u \in Users : socket[u] = "open" => u \in clients /\ Fold(view[u], inbox[u]) = cards

\* A message does to the list of a user what its change did to the server's.
LEMMA MessagesRepeatChanges ==
    ASSUME CardsInv
    PROVE  /\ \A list : Board!Apply(list, Board!Snapshot(cards)) = cards
           /\ \A task : Board!Apply(cards, [type |-> "task_created", task |-> task])
                          = Append(cards, task)
           /\ \A k \in 1 .. Len(cards), task \in Card : task.id = cards[k].id =>
                Board!Apply(cards, [type |-> "task_updated", task |-> task])
                  = Replaced(cards, k, task)
           /\ \A k \in 1 .. Len(cards) :
                Board!Apply(cards, [type |-> "task_deleted", id |-> cards[k].id])
                  = RemoveAt(cards, k)
<1>1. \A list : Board!Apply(list, Board!Snapshot(cards)) = cards
  BY DEF Board!Apply, Board!Snapshot
<1>2. \A task : Board!Apply(cards, [type |-> "task_created", task |-> task]) = Append(cards, task)
  BY DEF Board!Apply
<1>3. ASSUME NEW k \in 1 .. Len(cards), NEW task \in Card, task.id = cards[k].id
      PROVE  Board!Apply(cards, [type |-> "task_updated", task |-> task])
               = Replaced(cards, k, task)
  <2>1. Board!Apply(cards, [type |-> "task_updated", task |-> task])
          = [j \in DOMAIN cards |-> IF cards[j].id = task.id THEN task ELSE cards[j]]
    BY DEF Board!Apply
  <2>2. \A j \in DOMAIN cards : cards[j].id = task.id <=> j = k
    BY <1>3, ListFinds DEF CardsInv, IsList
  <2>3. cards \in Seq(Card)
    BY DEF CardsInv, IsList
  <2>4. Replaced(cards, k, task) = [j \in DOMAIN cards |-> IF j = k THEN task ELSE cards[j]]
    BY <2>3 DEF Replaced
  <2> QED BY <2>1, <2>2, <2>4
<1>4. ASSUME NEW k \in 1 .. Len(cards)
      PROVE  Board!Apply(cards, [type |-> "task_deleted", id |-> cards[k].id])
               = RemoveAt(cards, k)
  <2>1. PlaceOf(cards, cards[k].id) = k /\ k \in DOMAIN cards
    BY ListFinds DEF CardsInv
  <2>2. Board!Place(cards, cards[k].id) = k
    BY <2>1 DEF Board!Place, PlaceOf
  <2> QED BY <2>1, <2>2, BoardTerms DEF Board!Apply
<1> QED BY <1>1, <1>2, <1>3, <1>4

\* A change sent to whoever is connected.
LEMMA BroadcastKeepsViews ==
    ASSUME BoardInv, NEW u, NEW m \in Message, Board!Broadcast(u, m),
           Board!Apply(cards, m) = cards', CardsInv',
           UNCHANGED <<clients, socket, view>>
    PROVE  BoardInv'
<1>1. inbox' = [v \in Users |-> IF v \in clients /\ socket[v] = "open"
                                 THEN Append(inbox[v], m) ELSE inbox[v]]
  BY DEF Board!Broadcast
<1>2. inbox' \in [Users -> Seq(Message)]
  BY <1>1 DEF BoardInv
<1>3. ASSUME NEW v \in Users, socket'[v] = "open"
      PROVE  v \in clients' /\ Fold(view'[v], inbox'[v]) = cards'
  <2>1. v \in clients /\ Fold(view[v], inbox[v]) = cards /\ inbox[v] \in Seq(Message)
    BY <1>3 DEF BoardInv
  <2>2. inbox'[v] = Append(inbox[v], m)
    BY <1>1, <1>3, <2>1
  <2>3. Fold(view[v], Append(inbox[v], m)) = Board!Apply(Fold(view[v], inbox[v]), m)
    BY <2>1, FoldOfOneMore
  <2> QED BY <2>1, <2>2, <2>3
<1> QED BY <1>2, <1>3 DEF BoardInv

LEMMA SnapshotIsMessage == ASSUME CardsInv PROVE Board!Snapshot(cards) \in Message
BY DEF CardsInv, IsList, Board!Snapshot, Message

LEMMA ConnectKeepsViews ==
    ASSUME BoardInv, NEW u \in Users, Board!Connect(u)
    PROVE  BoardInv'
<1> DEFINE m == Board!Snapshot(cards)
<1>0. m \in Message /\ CardsInv
  BY SnapshotIsMessage DEF BoardInv
<1>1. /\ cards' = cards /\ nextCard' = nextCard
      /\ socket' = [socket EXCEPT ![u] = "open"]
      /\ clients' = clients \cup {u}
      /\ inbox' = [inbox EXCEPT ![u] = <<m>>]
      /\ view' = [view EXCEPT ![u] = <<>>]
  BY DEF Board!Connect
<1>2. Fold(<<>>, <<m>>) = cards
  <2>1. <<m>> = Append(<<>>, m) /\ <<>> \in Seq(Message)
    OBVIOUS
  <2>2. Fold(<<>>, Append(<<>>, m)) = Board!Apply(Fold(<<>>, <<>>), m)
    <3> HIDE DEF m
    <3> QED BY <1>0, <2>1, FoldOfOneMore
  <2>3. Board!Apply(Fold(<<>>, <<>>), m) = cards
    BY <1>0, MessagesRepeatChanges
  <2> QED BY <2>1, <2>2, <2>3
<1> HIDE DEF m
<1>3. CardsInv'
  BY <1>0, <1>1 DEF CardsInv
<1>4. inbox' \in [Users -> Seq(Message)] /\ DOMAIN view' = Users /\ DOMAIN socket' = Users
  BY <1>0, <1>1 DEF BoardInv
<1>5. ASSUME NEW v \in Users, socket'[v] = "open"
      PROVE  v \in clients' /\ Fold(view'[v], inbox'[v]) = cards'
  <2>1. CASE v = u
    BY <1>1, <1>2, <2>1 DEF BoardInv
  <2>2. CASE v # u
    BY <1>1, <1>5, <2>2 DEF BoardInv
  <2> QED BY <2>1, <2>2
<1> QED BY <1>3, <1>4, <1>5 DEF BoardInv

LEMMA LeavingKeepsViews ==
    ASSUME BoardInv, NEW u \in Users, Board!HangUp(u) \/ Board!Close(u) \/ Board!Throw(u)
    PROVE  BoardInv'
<1>1. CardsInv'
  BY DEF CardsInv, BoardInv, Board!HangUp, Board!Close, Board!Throw
<1>2. CASE Board!HangUp(u)
  <2>1. /\ cards' = cards /\ clients' = clients /\ view' = view
        /\ socket' = [socket EXCEPT ![u] = "closed"]
        /\ inbox' = [inbox EXCEPT ![u] = <<>>]
    BY <1>2 DEF Board!HangUp
  <2>2. \A v \in Users : socket'[v] = "open" =>
          v # u /\ socket[v] = "open" /\ inbox'[v] = inbox[v]
    BY <2>1 DEF BoardInv
  <2> QED BY <1>1, <2>1, <2>2 DEF BoardInv
<1>3. CASE Board!Close(u)
  <2>1. /\ cards' = cards /\ clients' = clients \ {u} /\ view' = view /\ inbox' = inbox
        /\ socket' = [socket EXCEPT ![u] = "none"]
    BY <1>3 DEF Board!Close
  <2>2. \A v \in Users : socket'[v] = "open" => v # u /\ socket[v] = "open"
    BY <2>1 DEF BoardInv
  <2> QED BY <1>1, <2>1, <2>2 DEF BoardInv
<1>4. CASE Board!Throw(u)
  <2>1. /\ inbox' = inbox /\ view' = view
        /\ DOMAIN socket' = Users /\ \A v \in Users : socket'[v] = "ended"
    BY <1>4 DEF Board!Throw
  <2> QED BY <1>1, <2>1 DEF BoardInv
<1> QED BY <1>2, <1>3, <1>4

LEMMA ListKeepsViews ==
    ASSUME BoardInv, NEW u \in Users, Board!List(u)
    PROVE  BoardInv'
<1> DEFINE m == Board!Snapshot(cards)
<1>0. m \in Message /\ CardsInv
  BY SnapshotIsMessage DEF BoardInv
<1>1. /\ cards' = cards /\ nextCard' = nextCard /\ clients' = clients /\ view' = view
      /\ socket' = socket
      /\ inbox' = [inbox EXCEPT ![u] = Append(inbox[u], m)]
  BY DEF Board!List
<1>2. \A list : Board!Apply(list, m) = cards
  BY <1>0, MessagesRepeatChanges
<1> HIDE DEF m
<1>3. CardsInv'
  BY <1>0, <1>1 DEF CardsInv
<1>4. inbox \in [Users -> Seq(Message)] /\ inbox' \in [Users -> Seq(Message)]
  BY <1>0, <1>1 DEF BoardInv
<1>5. ASSUME NEW v \in Users, socket'[v] = "open"
      PROVE  v \in clients' /\ Fold(view'[v], inbox'[v]) = cards'
  <2>1. CASE v = u
    <3>1. inbox[u] \in Seq(Message) /\ inbox'[u] = Append(inbox[u], m)
      BY <1>1, <1>4
    <3>2. Fold(view[u], Append(inbox[u], m)) = Board!Apply(Fold(view[u], inbox[u]), m)
      BY <1>0, <3>1, FoldOfOneMore
    <3> QED BY <1>1, <1>2, <1>5, <2>1, <3>1, <3>2 DEF BoardInv
  <2>2. CASE v # u
    BY <1>1, <1>4, <1>5, <2>2 DEF BoardInv
  <2> QED BY <2>1, <2>2
<1> QED BY <1>1, <1>3, <1>4, <1>5 DEF BoardInv

LEMMA ReceiveKeepsViews ==
    ASSUME BoardInv, NEW u \in Users, Board!Receive(u)
    PROVE  BoardInv'
<1>1. /\ cards' = cards /\ nextCard' = nextCard /\ clients' = clients /\ socket' = socket
      /\ inbox[u] # <<>>
      /\ view' = [view EXCEPT ![u] = Board!Apply(view[u], Head(inbox[u]))]
      /\ inbox' = [inbox EXCEPT ![u] = Tail(inbox[u])]
  BY DEF Board!Receive
<1>2. CardsInv'
  BY <1>1 DEF CardsInv, BoardInv
<1>3. /\ inbox \in [Users -> Seq(Message)] /\ inbox[u] \in Seq(Message)
      /\ DOMAIN view = Users /\ DOMAIN socket = Users
  BY DEF BoardInv
<1>4. Tail(inbox[u]) \in Seq(Message)
  BY <1>1, <1>3
<1>5. inbox' \in [Users -> Seq(Message)] /\ DOMAIN view' = Users
  BY <1>1, <1>3, <1>4
<1>6. Fold(view'[u], inbox'[u]) = Fold(view[u], inbox[u])
  <2>1. view'[u] = Board!Apply(view[u], Head(inbox[u])) /\ inbox'[u] = Tail(inbox[u])
    BY <1>1, <1>3
  <2> QED BY <1>1, <1>3, <2>1, FoldOfFirst
<1>7. \A v \in Users : v # u => view'[v] = view[v] /\ inbox'[v] = inbox[v]
  BY <1>1, <1>3
<1> QED BY <1>1, <1>2, <1>3, <1>5, <1>6, <1>7 DEF BoardInv

LEMMA BoardStep ==
    ASSUME BoardInv, [Board!Next]_(Board!vars)
    PROVE  BoardInv'
<1>0. CardsInv /\ CardsInv'
  BY CardsStep DEF BoardInv
<1>1. CASE UNCHANGED Board!vars
  BY <1>0, <1>1 DEF Board!vars, BoardInv
<1>2. ASSUME NEW u \in Users, NEW title \in Titles, Board!Create(u, title)
      PROVE  BoardInv'
  <2> DEFINE new == [id |-> nextCard, title |-> title, done |-> FALSE]
             m   == [type |-> "task_created", task |-> new]
  <2>1. /\ cards' = Append(cards, new) /\ Board!Broadcast(u, m)
        /\ UNCHANGED <<clients, socket, view>>
    BY <1>2 DEF Board!Create
  <2>2. new \in Card /\ m \in Message
    BY <1>0 DEF CardsInv, IsList, Card, Message
  <2>3. Board!Apply(cards, m) = cards'
    BY <1>0, <2>1, MessagesRepeatChanges
  <2> HIDE DEF m
  <2> QED BY <1>0, <2>1, <2>2, <2>3, BroadcastKeepsViews
<1>3. ASSUME NEW u \in Users, NEW k, NEW title \in Titles, NEW done \in BOOLEAN,
             Board!Update(u, k, title, done)
      PROVE  BoardInv'
  <2> DEFINE new == [id |-> cards[k].id, title |-> title, done |-> done]
             m   == [type |-> "task_updated", task |-> new]
  <2>1. /\ cards' = Replaced(cards, k, new) /\ Board!Broadcast(u, m)
        /\ UNCHANGED <<clients, socket, view>> /\ k \in DOMAIN cards
    BY <1>3 DEF Board!Update, Replaced
  <2>2. k \in 1 .. Len(cards) /\ cards[k] \in Card
    BY <1>0, <2>1, ListFinds DEF CardsInv
  <2>3. new \in Card /\ m \in Message /\ new.id = cards[k].id
    BY <2>2 DEF Card, Message
  <2>4. Board!Apply(cards, m) = cards'
    BY <1>0, <2>1, <2>2, <2>3, MessagesRepeatChanges
  <2> HIDE DEF m
  <2> QED BY <1>0, <2>1, <2>3, <2>4, BroadcastKeepsViews
<1>4. ASSUME NEW u \in Users, NEW k, Board!Delete(u, k)
      PROVE  BoardInv'
  <2> DEFINE m == [type |-> "task_deleted", id |-> cards[k].id]
  <2>1. /\ cards' = RemoveAt(cards, k) /\ Board!Broadcast(u, m)
        /\ UNCHANGED <<clients, socket, view>> /\ k \in DOMAIN cards
    BY <1>4, BoardTerms DEF Board!Delete
  <2>2. k \in 1 .. Len(cards) /\ cards[k] \in Card
    BY <1>0, <2>1, ListFinds DEF CardsInv
  <2>3. m \in Message
    BY <2>2 DEF Card, Message
  <2>4. Board!Apply(cards, m) = cards'
    BY <1>0, <2>1, <2>2, MessagesRepeatChanges
  <2> HIDE DEF m
  <2> QED BY <1>0, <2>1, <2>3, <2>4, BroadcastKeepsViews
<1> QED BY <1>1, <1>2, <1>3, <1>4, ConnectKeepsViews, LeavingKeepsViews, ListKeepsViews,
           ReceiveKeepsViews DEF Board!Next

\* A user whose messages have all come sees the tasks of the server, in the
\* server's order, whoever created, changed and deleted them meanwhile: the
\* messages on their way, applied in turn, always lead from what the user sees
\* to what the server holds (server/src/index.ts, client/src/App.tsx).
THEOREM ViewsAgree == Board!Spec => []BoardsAgree
<1>1. ASSUME Board!Init PROVE BoardInv
  <2>1. cards = <<>> /\ nextCard = 1
    BY <1>1 DEF Board!Init
  <2>2. CardsInv
    BY <2>1, ListStarts DEF CardsInv
  <2> QED BY <1>1, <2>2 DEF Board!Init, BoardInv
<1>2. BoardInv /\ [Board!Next]_(Board!vars) => BoardInv'
  BY BoardStep
<1>3. BoardInv => BoardsAgree
  BY DEF BoardInv, BoardsAgree, Board!BoardsAgree, Fold
<1> QED BY <1>1, <1>2, <1>3, PTL DEF Board!Spec

-----------------------------------------------------------------------------
(* The wire.  What is decoded is what was encoded, level by level.         *)

\* Both sides were generated from one file.
LEMMA SameCodec ==
    /\ Grpc!Server!TaskServiceService = Grpc!Client!TaskServiceService
    /\ \A fields, m : Grpc!Server!Encode(fields, m) = Grpc!Client!Encode(fields, m)
    /\ \A fields, m : Grpc!Server!Decode(fields, m) = Grpc!Client!Decode(fields, m)
    /\ \A fields, m : Messages!Put(fields, m) = Grpc!Client!Put(fields, m)
    /\ Messages!Assignee = Grpc!Client!Assignee
    /\ Messages!Alex = Grpc!Client!Alex
    /\ Messages!Maria = Grpc!Client!Maria
<1>1. Grpc!Server!TaskServiceService = Grpc!Client!TaskServiceService
  BY DEF Grpc!Server!TaskServiceService, Grpc!Client!TaskServiceService,
         Grpc!Server!Task, Grpc!Client!Task, Grpc!Server!Assignee, Grpc!Client!Assignee,
         Grpc!Server!ListTasksRequest, Grpc!Client!ListTasksRequest,
         Grpc!Server!ListTasksResponse, Grpc!Client!ListTasksResponse,
         Grpc!Server!GetTaskRequest, Grpc!Client!GetTaskRequest,
         Grpc!Server!CreateTaskRequest, Grpc!Client!CreateTaskRequest,
         Grpc!Server!UpdateTaskRequest, Grpc!Client!UpdateTaskRequest,
         Grpc!Server!PatchTaskRequest, Grpc!Client!PatchTaskRequest,
         Grpc!Server!DeleteTaskRequest, Grpc!Client!DeleteTaskRequest,
         Grpc!Server!DeleteTaskResponse, Grpc!Client!DeleteTaskResponse,
         Grpc!Server!Field, Grpc!Client!Field, Grpc!Server!Optional, Grpc!Client!Optional,
         Grpc!Server!Submessage, Grpc!Client!Submessage,
         Grpc!Server!Repeated, Grpc!Client!Repeated
<1>2. \A fields, m : Grpc!Server!Encode(fields, m) = Grpc!Client!Encode(fields, m)
  BY DEF Grpc!Server!Encode, Grpc!Client!Encode, Grpc!Server!EncodeOuter, Grpc!Client!EncodeOuter,
         Grpc!Server!EncodeNested, Grpc!Client!EncodeNested, Grpc!Server!Inner, Grpc!Client!Inner,
         Grpc!Server!Put, Grpc!Client!Put, Grpc!Server!Named, Grpc!Client!Named
<1>3. \A fields, m : Grpc!Server!Decode(fields, m) = Grpc!Client!Decode(fields, m)
  BY DEF Grpc!Server!Decode, Grpc!Client!Decode, Grpc!Server!DecodeOuter, Grpc!Client!DecodeOuter,
         Grpc!Server!DecodeNested, Grpc!Client!DecodeNested, Grpc!Server!Inner, Grpc!Client!Inner,
         Grpc!Server!Get, Grpc!Client!Get
<1>4. \A fields, m : Messages!Put(fields, m) = Grpc!Client!Put(fields, m)
  BY DEF Messages!Put, Grpc!Client!Put, Messages!Named, Grpc!Client!Named
<1>5. /\ Messages!Assignee = Grpc!Client!Assignee
      /\ Messages!Alex = Grpc!Client!Alex
      /\ Messages!Maria = Grpc!Client!Maria
  BY DEF Messages!Assignee, Grpc!Client!Assignee, Messages!Alex, Grpc!Client!Alex,
         Messages!Maria, Grpc!Client!Maria, Messages!Field, Grpc!Client!Field
<1> QED BY <1>1, <1>2, <1>3, <1>4, <1>5

\* No two fields have one tag; a message has the fields and no others.
Tagged(fields) == \A f, g \in DOMAIN fields : fields[f].tag = fields[g].tag => f = g
Over(fields, m) == m = [f \in DOMAIN fields |-> m[f]]

LEMMA PutGet ==
    ASSUME NEW fields, NEW m, Tagged(fields), Over(fields, m)
    PROVE  Grpc!Client!Get(fields, Grpc!Client!Put(fields, m)) = m
<1> DEFINE wire == Grpc!Client!Put(fields, m)
<1>1. DOMAIN wire = {fields[f].tag : f \in {f \in DOMAIN fields : m[f] # fields[f].default}}
  BY DEF Grpc!Client!Put
<1>2. ASSUME NEW f \in DOMAIN fields
      PROVE  (IF fields[f].tag \in DOMAIN wire THEN wire[fields[f].tag] ELSE fields[f].default)
               = m[f]
  <2>1. CASE m[f] # fields[f].default
    <3>1. fields[f].tag \in DOMAIN wire
      BY <1>1, <2>1
    <3>2. Grpc!Client!Named(fields, fields[f].tag) = f
      BY DEF Grpc!Client!Named, Tagged
    <3>3. wire[fields[f].tag] = m[f]
      BY <1>1, <3>1, <3>2 DEF Grpc!Client!Put
    <3> QED BY <3>1, <3>3
  <2>2. CASE m[f] = fields[f].default
    <3>1. fields[f].tag \notin DOMAIN wire
      <4>1. SUFFICES ASSUME fields[f].tag \in DOMAIN wire PROVE FALSE
        OBVIOUS
      <4>2. PICK g \in DOMAIN fields : m[g] # fields[g].default /\ fields[g].tag = fields[f].tag
        BY <1>1, <4>1
      <4> QED BY <2>2, <4>2 DEF Tagged
    <3> QED BY <2>2, <3>1
  <2> QED BY <2>1, <2>2
<1> HIDE DEF wire
<1>3. Grpc!Client!Get(fields, wire) = [f \in DOMAIN fields |-> m[f]]
  BY <1>2 DEF Grpc!Client!Get
<1> QED BY <1>3 DEF Over, wire

\* A value of a field whose message, if it holds one, holds no others.
FlatField(field, v) ==
    \/ v = field.default
    \/ DOMAIN field.of = {}
    \/ /\ ~field.list /\ Tagged(field.of) /\ Over(field.of, v)
       /\ Grpc!Client!Put(field.of, v) # field.default

Flat(fields, m) ==
    Tagged(fields) /\ Over(fields, m) /\ \A f \in DOMAIN fields : FlatField(fields[f], m[f])

LEMMA FlatRoundTrip ==
    ASSUME NEW fields, NEW m, Flat(fields, m)
    PROVE  Grpc!Client!DecodeNested(fields, Grpc!Client!EncodeNested(fields, m)) = m
<1> DEFINE Put(field, v) ==
             IF v = field.default \/ DOMAIN field.of = {} THEN v
             ELSE IF field.list THEN [i \in DOMAIN v |-> Grpc!Client!Put(field.of, v[i])]
             ELSE Grpc!Client!Put(field.of, v)
           Get(field, v) ==
             IF v = field.default \/ DOMAIN field.of = {} THEN v
             ELSE IF field.list THEN [i \in DOMAIN v |-> Grpc!Client!Get(field.of, v[i])]
             ELSE Grpc!Client!Get(field.of, v)
           e == [f \in DOMAIN fields |-> Put(fields[f], m[f])]
<1>1. Grpc!Client!EncodeNested(fields, m) = Grpc!Client!Put(fields, e)
  BY DEF Grpc!Client!EncodeNested, Grpc!Client!EncodeOuter, Grpc!Client!Inner
<1>2. Over(fields, e)
  BY DEF Over
<1>3. ASSUME NEW f \in DOMAIN fields PROVE Get(fields[f], e[f]) = m[f]
  <2>1. FlatField(fields[f], m[f]) /\ e[f] = Put(fields[f], m[f])
    BY DEF Flat
  <2> DEFINE field == fields[f]
             v == m[f]
  <2>2. CASE v = field.default \/ DOMAIN field.of = {}
    BY <2>1, <2>2
  <2>3. CASE ~(v = field.default \/ DOMAIN field.of = {})
    <3>1. /\ ~field.list /\ Tagged(field.of) /\ Over(field.of, v)
          /\ Grpc!Client!Put(field.of, v) # field.default
      BY <2>1, <2>3 DEF FlatField
    <3>2. e[f] = Grpc!Client!Put(field.of, v)
      BY <2>1, <2>3, <3>1
    <3>3. Grpc!Client!Get(field.of, Grpc!Client!Put(field.of, v)) = v
      BY <3>1, PutGet
    <3> QED BY <2>3, <3>1, <3>2, <3>3
  <2> QED BY <2>2, <2>3
<1>4. \A wire : Grpc!Client!DecodeNested(fields, wire)
        = [f \in DOMAIN fields |-> Get(fields[f], Grpc!Client!Get(fields, wire)[f])]
  BY DEF Grpc!Client!DecodeNested, Grpc!Client!DecodeOuter, Grpc!Client!Inner
<1>5. Grpc!Client!Get(fields, Grpc!Client!Put(fields, e)) = e
  <2> HIDE DEF e
  <2> QED BY <1>2, PutGet DEF Flat
<1> HIDE DEF e, Get, Put
<1>6. Grpc!Client!DecodeNested(fields, Grpc!Client!EncodeNested(fields, m))
        = [f \in DOMAIN fields |-> m[f]]
  BY <1>1, <1>3, <1>4, <1>5
<1> QED BY <1>6 DEF Flat, Over

LEMMA EmptyFunction ==
    ASSUME NEW v, v = [i \in DOMAIN v |-> v[i]], DOMAIN v = {}
    PROVE  v = <<>>
<1>1. <<>> = [i \in {} |-> v[i]]
  OBVIOUS
<1> QED BY <1>1

\* A value of a field whose message holds messages of that kind.
DeepField(field, v) ==
    \/ v = field.default
    \/ DOMAIN field.of = {}
    \/ /\ ~field.list /\ Flat(field.of, v)
       /\ Grpc!Client!EncodeNested(field.of, v) # field.default
    \/ /\ field.list /\ field.default = <<>>
       /\ v = [i \in DOMAIN v |-> v[i]] /\ \A i \in DOMAIN v : Flat(field.of, v[i])

Deep(fields, m) ==
    Tagged(fields) /\ Over(fields, m) /\ \A f \in DOMAIN fields : DeepField(fields[f], m[f])

LEMMA DeepRoundTrip ==
    ASSUME NEW fields, NEW m, Deep(fields, m)
    PROVE  Grpc!Client!Decode(fields, Grpc!Client!Encode(fields, m)) = m
<1> DEFINE Put(field, v) ==
             IF v = field.default \/ DOMAIN field.of = {} THEN v
             ELSE IF field.list THEN [i \in DOMAIN v |-> Grpc!Client!EncodeNested(field.of, v[i])]
             ELSE Grpc!Client!EncodeNested(field.of, v)
           Get(field, v) ==
             IF v = field.default \/ DOMAIN field.of = {} THEN v
             ELSE IF field.list THEN [i \in DOMAIN v |-> Grpc!Client!DecodeNested(field.of, v[i])]
             ELSE Grpc!Client!DecodeNested(field.of, v)
           e == [f \in DOMAIN fields |-> Put(fields[f], m[f])]
<1>1. Grpc!Client!Encode(fields, m) = Grpc!Client!Put(fields, e)
  BY DEF Grpc!Client!Encode, Grpc!Client!EncodeOuter, Grpc!Client!Inner
<1>2. Over(fields, e)
  BY DEF Over
<1>3. ASSUME NEW f \in DOMAIN fields PROVE Get(fields[f], e[f]) = m[f]
  <2>1. DeepField(fields[f], m[f]) /\ e[f] = Put(fields[f], m[f])
    BY DEF Deep
  <2> DEFINE field == fields[f]
             v == m[f]
  <2>2. CASE v = field.default \/ DOMAIN field.of = {}
    BY <2>1, <2>2
  <2>3. CASE ~(v = field.default \/ DOMAIN field.of = {}) /\ ~field.list
    <3>1. /\ Flat(field.of, v) /\ Grpc!Client!EncodeNested(field.of, v) # field.default
      BY <2>1, <2>3 DEF DeepField
    <3>2. e[f] = Grpc!Client!EncodeNested(field.of, v)
      BY <2>1, <2>3
    <3>3. Grpc!Client!DecodeNested(field.of, Grpc!Client!EncodeNested(field.of, v)) = v
      BY <3>1, FlatRoundTrip
    <3> QED BY <2>3, <3>1, <3>2, <3>3
  <2>4. CASE ~(v = field.default \/ DOMAIN field.of = {}) /\ field.list
    <3>1. /\ field.default = <<>>
          /\ v = [i \in DOMAIN v |-> v[i]] /\ \A i \in DOMAIN v : Flat(field.of, v[i])
      BY <2>1, <2>4 DEF DeepField
    <3>2. e[f] = [i \in DOMAIN v |-> Grpc!Client!EncodeNested(field.of, v[i])]
      BY <2>1, <2>4
    <3>3. DOMAIN v # {}
      <4>1. DOMAIN v = {} => v = <<>>
        BY <3>1, EmptyFunction
      <4> QED BY <2>4, <3>1, <4>1
    <3>4. e[f] # field.default
      BY <3>1, <3>2, <3>3
    <3>5. \A i \in DOMAIN v :
            Grpc!Client!DecodeNested(field.of, Grpc!Client!EncodeNested(field.of, v[i])) = v[i]
      BY <3>1, FlatRoundTrip
    <3>6. Get(field, e[f]) = [i \in DOMAIN e[f] |-> Grpc!Client!DecodeNested(field.of, e[f][i])]
      <4> HIDE DEF e
      <4> QED BY <2>4, <3>4
    <3>7. DOMAIN e[f] = DOMAIN v
      BY <3>2
    <3>8. \A i \in DOMAIN v : e[f][i] = Grpc!Client!EncodeNested(field.of, v[i])
      BY <3>2
    <3>9. Get(field, e[f]) = [i \in DOMAIN v |-> v[i]]
      <4> HIDE DEF e, Get, field, v
      <4> QED BY <3>5, <3>6, <3>7, <3>8
    <3> QED BY <3>1, <3>9
  <2> QED BY <2>2, <2>3, <2>4
<1>4. \A wire : Grpc!Client!Decode(fields, wire)
        = [f \in DOMAIN fields |-> Get(fields[f], Grpc!Client!Get(fields, wire)[f])]
  BY DEF Grpc!Client!Decode, Grpc!Client!DecodeOuter, Grpc!Client!Inner
<1>5. Grpc!Client!Get(fields, Grpc!Client!Put(fields, e)) = e
  <2> HIDE DEF e
  <2> QED BY <1>2, PutGet DEF Deep
<1> HIDE DEF e, Get, Put
<1>6. Grpc!Client!Decode(fields, Grpc!Client!Encode(fields, m)) = [f \in DOMAIN fields |-> m[f]]
  BY <1>1, <1>3, <1>4, <1>5
<1> QED BY <1>6 DEF Deep, Over

-----------------------------------------------------------------------------
(* The messages of the program.                                            *)

Assignees == {Undefined, Grpc!Client!Alex, Grpc!Client!Maria}
GrpcTitles == {"Estudar", "Revisar", "Feito"}
StoredTask == [id : Nat, title : GrpcTitles, done : BOOLEAN, assignee : Assignees]

Methods == {"listTasks", "getTask", "createTask", "updateTask", "patchTask", "deleteTask"}

\* What is sent to a method, and what it answers when it does not refuse.
Requests(method) ==
    CASE method = "listTasks"  -> {<<>>}
      [] method = "getTask"    -> [id : Nat]
      [] method = "createTask" -> [title : GrpcTitles \cup {"", " "}, assignee : Assignees]
      [] method = "updateTask" -> [id : Nat, title : GrpcTitles \cup {"", " "},
                                   done : BOOLEAN, assignee : Assignees]
      [] method = "patchTask"  -> [id : Nat, title : GrpcTitles \cup {"", " ", Undefined},
                                   done : BOOLEAN \cup {Undefined}, assignee : Assignees]
      [] method = "deleteTask" -> [id : Nat]

Responses(method) ==
    CASE method = "listTasks"  -> [tasks : Seq(StoredTask)]
      [] method = "deleteTask" -> [deleted : {TRUE}]
      [] OTHER                 -> StoredTask

\* The types of the messages, in full.
LEMMA Types ==
    /\ Grpc!Client!Assignee =
         [id |-> [tag |-> 8, kind |-> "number", default |-> 0, of |-> <<>>, list |-> FALSE],
          name |-> [tag |-> 18, kind |-> "string", default |-> "", of |-> <<>>, list |-> FALSE],
          email |-> [tag |-> 26, kind |-> "string", default |-> "", of |-> <<>>, list |-> FALSE]]
    /\ Grpc!Client!Task =
         [id |-> [tag |-> 8, kind |-> "number", default |-> 0, of |-> <<>>, list |-> FALSE],
          title |-> [tag |-> 18, kind |-> "string", default |-> "", of |-> <<>>, list |-> FALSE],
          done |-> [tag |-> 24, kind |-> "boolean", default |-> FALSE, of |-> <<>>, list |-> FALSE],
          assignee |-> [tag |-> 34, kind |-> "message", default |-> Undefined,
                        of |-> Grpc!Client!Assignee, list |-> FALSE]]
    /\ Grpc!Client!ListTasksRequest = <<>>
    /\ Grpc!Client!ListTasksResponse =
         [tasks |-> [tag |-> 10, kind |-> "message", default |-> <<>>,
                    of |-> Grpc!Client!Task, list |-> TRUE]]
    /\ Grpc!Client!GetTaskRequest =
         [id |-> [tag |-> 8, kind |-> "number", default |-> 0, of |-> <<>>, list |-> FALSE]]
    /\ Grpc!Client!CreateTaskRequest =
         [title |-> [tag |-> 10, kind |-> "string", default |-> "", of |-> <<>>, list |-> FALSE],
          assignee |-> [tag |-> 18, kind |-> "message", default |-> Undefined,
                        of |-> Grpc!Client!Assignee, list |-> FALSE]]
    /\ Grpc!Client!UpdateTaskRequest =
         [id |-> [tag |-> 8, kind |-> "number", default |-> 0, of |-> <<>>, list |-> FALSE],
          title |-> [tag |-> 18, kind |-> "string", default |-> "", of |-> <<>>, list |-> FALSE],
          done |-> [tag |-> 24, kind |-> "boolean", default |-> FALSE, of |-> <<>>, list |-> FALSE],
          assignee |-> [tag |-> 34, kind |-> "message", default |-> Undefined,
                        of |-> Grpc!Client!Assignee, list |-> FALSE]]
    /\ Grpc!Client!PatchTaskRequest =
         [id |-> [tag |-> 8, kind |-> "number", default |-> 0, of |-> <<>>, list |-> FALSE],
          title |-> [tag |-> 18, kind |-> "string", default |-> Undefined, of |-> <<>>,
                     list |-> FALSE],
          done |-> [tag |-> 24, kind |-> "boolean", default |-> Undefined, of |-> <<>>,
                    list |-> FALSE],
          assignee |-> [tag |-> 34, kind |-> "message", default |-> Undefined,
                        of |-> Grpc!Client!Assignee, list |-> FALSE]]
    /\ Grpc!Client!DeleteTaskRequest =
         [id |-> [tag |-> 8, kind |-> "number", default |-> 0, of |-> <<>>, list |-> FALSE]]
    /\ Grpc!Client!DeleteTaskResponse =
         [deleted |-> [tag |-> 8, kind |-> "boolean", default |-> FALSE, of |-> <<>>,
                       list |-> FALSE]]
BY DEF Grpc!Client!Task, Grpc!Client!Assignee, Grpc!Client!ListTasksRequest,
       Grpc!Client!ListTasksResponse, Grpc!Client!GetTaskRequest, Grpc!Client!CreateTaskRequest,
       Grpc!Client!UpdateTaskRequest, Grpc!Client!PatchTaskRequest,
       Grpc!Client!DeleteTaskRequest, Grpc!Client!DeleteTaskResponse, Grpc!Client!Field,
       Grpc!Client!Optional, Grpc!Client!Submessage, Grpc!Client!Repeated

\* An assignee has no messages within it, and is not lost when it is there.
LEMMA AssigneeIsFlat ==
    ASSUME NEW a \in Assignees
    PROVE  \/ a = Undefined
           \/ /\ Flat(Grpc!Client!Assignee, a) /\ Tagged(Grpc!Client!Assignee)
              /\ Over(Grpc!Client!Assignee, a)
              /\ Grpc!Client!Put(Grpc!Client!Assignee, a) # Undefined
              /\ Grpc!Client!EncodeNested(Grpc!Client!Assignee, a) # Undefined
<1> SUFFICES ASSUME a # Undefined
             PROVE  /\ Flat(Grpc!Client!Assignee, a) /\ Tagged(Grpc!Client!Assignee)
                    /\ Over(Grpc!Client!Assignee, a)
                    /\ Grpc!Client!Put(Grpc!Client!Assignee, a) # Undefined
                    /\ Grpc!Client!EncodeNested(Grpc!Client!Assignee, a) # Undefined
  OBVIOUS
<1> DEFINE A == Grpc!Client!Assignee
<1>1. /\ DOMAIN A = {"id", "name", "email"}
      /\ A.id.tag = 8 /\ A.name.tag = 18 /\ A.email.tag = 26
      /\ \A f \in DOMAIN A : A[f].of = <<>>
  <2>1. A = [id |-> [tag |-> 8, kind |-> "number", default |-> 0, of |-> <<>>, list |-> FALSE],
             name |-> [tag |-> 18, kind |-> "string", default |-> "", of |-> <<>>, list |-> FALSE],
             email |-> [tag |-> 26, kind |-> "string", default |-> "", of |-> <<>>, list |-> FALSE]]
    BY Types
  <2> HIDE DEF A
  <2>2. DOMAIN A = {"id", "name", "email"}
    BY <2>1
  <2>3. A.id.tag = 8 /\ A.name.tag = 18 /\ A.email.tag = 26
    BY <2>1
  <2>4. A.id.of = <<>> /\ A.name.of = <<>> /\ A.email.of = <<>>
    BY <2>1
  <2> QED BY <2>2, <2>3, <2>4
<1>2. a = Grpc!Client!Alex \/ a = Grpc!Client!Maria
  BY DEF Assignees
<1>3. a = [f \in {"id", "name", "email"} |-> a[f]]
  BY <1>2 DEF Grpc!Client!Alex, Grpc!Client!Maria
<1>4. Grpc!Client!Put(A, a) # Undefined
  BY <1>2, SameCodec, UndefinedAssumption
<1> HIDE DEF A
<1>5. Tagged(A)
  BY <1>1 DEF Tagged
<1>6. Over(A, a)
  BY <1>1, <1>3 DEF Over
<1>7. DOMAIN <<>> = {}
  OBVIOUS
<1>8. Flat(A, a)
  BY <1>1, <1>5, <1>6, <1>7 DEF Flat, FlatField
<1>9. Grpc!Client!EncodeNested(A, a) = Grpc!Client!Put(A, [f \in DOMAIN A |-> a[f]])
  BY <1>1, <1>7 DEF Grpc!Client!EncodeNested, Grpc!Client!EncodeOuter, Grpc!Client!Inner
<1>10. Grpc!Client!EncodeNested(A, a) = Grpc!Client!Put(A, a)
  BY <1>6, <1>9 DEF Over
<1> QED BY <1>4, <1>5, <1>6, <1>8, <1>10 DEF A

\* Any fields, with an assignee or without.
LEMMA WithAssignee ==
    ASSUME NEW fields, NEW m, Tagged(fields), Over(fields, m),
           \A f \in DOMAIN fields :
             \/ fields[f].of = <<>>
             \/ /\ fields[f].of = Grpc!Client!Assignee /\ ~fields[f].list
                /\ fields[f].default = Undefined /\ m[f] \in Assignees
    PROVE  Flat(fields, m) /\ Deep(fields, m)
<1>1. DOMAIN <<>> = {}
  OBVIOUS
<1>2. ASSUME NEW f \in DOMAIN fields PROVE FlatField(fields[f], m[f]) /\ DeepField(fields[f], m[f])
  <2>1. CASE fields[f].of = <<>>
    BY <1>1, <2>1 DEF FlatField, DeepField
  <2>2. CASE /\ fields[f].of = Grpc!Client!Assignee /\ ~fields[f].list
             /\ fields[f].default = Undefined /\ m[f] \in Assignees
    BY <2>2, AssigneeIsFlat DEF FlatField, DeepField
  <2> QED BY <2>1, <2>2
<1> QED BY <1>2 DEF Flat, Deep

LEMMA TaskIsFlat ==
    ASSUME NEW task \in StoredTask
    PROVE  Flat(Grpc!Client!Task, task) /\ Deep(Grpc!Client!Task, task)
<1> DEFINE T == Grpc!Client!Task
<1>1. /\ DOMAIN T = {"id", "title", "done", "assignee"}
      /\ T.id.tag = 8 /\ T.title.tag = 18 /\ T.done.tag = 24 /\ T.assignee.tag = 34
      /\ T.id.of = <<>> /\ T.title.of = <<>> /\ T.done.of = <<>>
      /\ T.assignee.of = Grpc!Client!Assignee /\ ~T.assignee.list
      /\ T.assignee.default = Undefined
  BY Types
<1>2. task = [f \in {"id", "title", "done", "assignee"} |-> task[f]] /\ task.assignee \in Assignees
  BY DEF StoredTask
<1> HIDE DEF T
<1>3. Tagged(T)
  BY <1>1 DEF Tagged
<1>4. Over(T, task)
  BY <1>1, <1>2 DEF Over
<1>5. Flat(T, task) /\ Deep(T, task)
  BY <1>1, <1>2, <1>3, <1>4, WithAssignee
<1> QED BY <1>5 DEF T

RequestType(method) == Grpc!Client!TaskServiceService[method].request
ResponseType(method) == Grpc!Client!TaskServiceService[method].response

LEMMA MethodTypes ==
    /\ RequestType("listTasks") = Grpc!Client!ListTasksRequest
    /\ RequestType("getTask") = Grpc!Client!GetTaskRequest
    /\ RequestType("createTask") = Grpc!Client!CreateTaskRequest
    /\ RequestType("updateTask") = Grpc!Client!UpdateTaskRequest
    /\ RequestType("patchTask") = Grpc!Client!PatchTaskRequest
    /\ RequestType("deleteTask") = Grpc!Client!DeleteTaskRequest
    /\ ResponseType("listTasks") = Grpc!Client!ListTasksResponse
    /\ ResponseType("deleteTask") = Grpc!Client!DeleteTaskResponse
    /\ \A method \in Methods \ {"listTasks", "deleteTask"} :
         ResponseType(method) = Grpc!Client!Task
BY DEF RequestType, ResponseType, Methods, Grpc!Client!TaskServiceService

LEMMA RequestsAreDeep ==
    ASSUME NEW method \in Methods, NEW m \in Requests(method)
    PROVE  Deep(RequestType(method), m)
<1> DEFINE F == RequestType(method)
<1>1. CASE method = "listTasks"
  <2>1. F = <<>> /\ m = <<>> /\ DOMAIN <<>> = {}
    <3>1. F = <<>>
      BY <1>1, MethodTypes, Types
    <3>2. m \in {<<>>}
      BY <1>1 DEF Requests
    <3> QED BY <3>1, <3>2
  <2>2. Over(<<>>, <<>>)
    BY DEF Over
  <2>3. Tagged(<<>>)
    BY DEF Tagged
  <2> HIDE DEF F
  <2>4. Deep(<<>>, <<>>)
    BY <2>1, <2>2, <2>3 DEF Deep
  <2> QED BY <2>1, <2>4 DEF F
<1>2. CASE method \in {"getTask", "deleteTask"}
  <2>1. F = [id |-> [tag |-> 8, kind |-> "number", default |-> 0, of |-> <<>>, list |-> FALSE]]
    BY <1>2, MethodTypes, Types
  <2>2. DOMAIN F = {"id"} /\ F.id.of = <<>>
    BY <2>1
  <2>3. m \in [id : Nat]
    BY <1>2 DEF Requests
  <2>4. m = [f \in {"id"} |-> m[f]]
    BY <2>3
  <2> HIDE DEF F
  <2>5. Tagged(F) /\ Over(F, m)
    BY <2>2, <2>4 DEF Tagged, Over
  <2> QED BY <2>2, <2>5, WithAssignee DEF F
<1>3. CASE method = "createTask"
  <2>1. /\ DOMAIN F = {"title", "assignee"}
        /\ F.title.tag = 10 /\ F.assignee.tag = 18 /\ F.title.of = <<>>
        /\ F.assignee.of = Grpc!Client!Assignee /\ ~F.assignee.list
        /\ F.assignee.default = Undefined
    <3>1. F = [title |-> [tag |-> 10, kind |-> "string", default |-> "", of |-> <<>>,
                          list |-> FALSE],
               assignee |-> [tag |-> 18, kind |-> "message", default |-> Undefined,
                        of |-> Grpc!Client!Assignee, list |-> FALSE]]
      BY <1>3, MethodTypes, Types
    <3> HIDE DEF F
    <3> QED BY <3>1
  <2>2. m = [f \in {"title", "assignee"} |-> m[f]] /\ m.assignee \in Assignees
    BY <1>3 DEF Requests
  <2> HIDE DEF F
  <2>3. Tagged(F) /\ Over(F, m)
    BY <2>1, <2>2 DEF Tagged, Over
  <2> QED BY <2>1, <2>2, <2>3, WithAssignee DEF F
<1>4. CASE method \in {"updateTask", "patchTask"}
  <2>1. /\ DOMAIN F = {"id", "title", "done", "assignee"}
        /\ F.id.tag = 8 /\ F.title.tag = 18 /\ F.done.tag = 24 /\ F.assignee.tag = 34
        /\ F.id.of = <<>> /\ F.title.of = <<>> /\ F.done.of = <<>>
        /\ F.assignee.of = Grpc!Client!Assignee /\ ~F.assignee.list
        /\ F.assignee.default = Undefined
    <3> DEFINE G(t, d) ==
            [id |-> [tag |-> 8, kind |-> "number", default |-> 0, of |-> <<>>, list |-> FALSE],
             title |-> [tag |-> 18, kind |-> "string", default |-> t, of |-> <<>>,
                        list |-> FALSE],
             done |-> [tag |-> 24, kind |-> "boolean", default |-> d, of |-> <<>>,
                       list |-> FALSE],
             assignee |-> [tag |-> 34, kind |-> "message", default |-> Undefined,
                           of |-> Grpc!Client!Assignee, list |-> FALSE]]
    <3>1. CASE method = "updateTask"
      <4>1. F = G("", FALSE)
        BY <3>1, MethodTypes, Types
      <4> HIDE DEF F
      <4> QED BY <4>1
    <3>2. CASE method = "patchTask"
      <4>1. F = G(Undefined, Undefined)
        BY <3>2, MethodTypes, Types
      <4> HIDE DEF F
      <4> QED BY <4>1
    <3> QED BY <1>4, <3>1, <3>2
  <2>2. m = [f \in {"id", "title", "done", "assignee"} |-> m[f]] /\ m.assignee \in Assignees
    BY <1>4 DEF Requests
  <2> HIDE DEF F
  <2>3. Tagged(F)
    BY <2>1 DEF Tagged
  <2>4. Over(F, m)
    BY <2>1, <2>2 DEF Over
  <2> QED BY <2>1, <2>2, <2>3, <2>4, WithAssignee DEF F
<1> QED BY <1>1, <1>2, <1>3, <1>4 DEF Methods

LEMMA ResponsesAreDeep ==
    ASSUME NEW method \in Methods, NEW m \in Responses(method)
    PROVE  Deep(ResponseType(method), m)
<1> DEFINE F == ResponseType(method)
<1>1. CASE method = "listTasks"
  <2>1. /\ DOMAIN F = {"tasks"} /\ F.tasks.list /\ F.tasks.default = <<>>
        /\ F.tasks.of = Grpc!Client!Task
    <3>1. F = [tasks |-> [tag |-> 10, kind |-> "message", default |-> <<>>,
                    of |-> Grpc!Client!Task, list |-> TRUE]]
      BY <1>1, MethodTypes, Types
    <3> HIDE DEF F
    <3> QED BY <3>1
  <2>2. m \in [tasks : Seq(StoredTask)]
    BY <1>1 DEF Responses
  <2>3. m = [f \in {"tasks"} |-> m[f]] /\ m.tasks \in Seq(StoredTask)
    BY <2>2
  <2>4. \A i \in DOMAIN m.tasks : m.tasks[i] \in StoredTask
    BY <2>3
  <2>5. m.tasks = [i \in DOMAIN m.tasks |-> m.tasks[i]]
    BY <2>3
  <2> HIDE DEF F
  <2>6. Tagged(F) /\ Over(F, m)
    BY <2>1, <2>3 DEF Tagged, Over
  <2>7. DeepField(F.tasks, m.tasks)
    BY <2>1, <2>4, <2>5, TaskIsFlat DEF DeepField
  <2> QED BY <2>1, <2>6, <2>7 DEF F, Deep
<1>2. CASE method = "deleteTask"
  <2>1. F = [deleted |-> [tag |-> 8, kind |-> "boolean", default |-> FALSE, of |-> <<>>,
                          list |-> FALSE]]
    BY <1>2, MethodTypes, Types
  <2>2. DOMAIN F = {"deleted"} /\ F.deleted.of = <<>>
    BY <2>1
  <2>3. m \in [deleted : {TRUE}]
    BY <1>2 DEF Responses
  <2>4. m = [f \in {"deleted"} |-> m[f]]
    BY <2>3
  <2> HIDE DEF F
  <2>5. Tagged(F) /\ Over(F, m)
    BY <2>2, <2>4 DEF Tagged, Over
  <2> QED BY <2>2, <2>5, WithAssignee DEF F
<1>3. CASE method \notin {"listTasks", "deleteTask"}
  <2>1. m \in StoredTask /\ F = Grpc!Client!Task
    BY <1>3, MethodTypes DEF Responses
  <2> QED BY <2>1, TaskIsFlat
<1> QED BY <1>1, <1>2, <1>3

LEMMA MessagesArrive ==
    ASSUME NEW method \in Methods
    PROVE  /\ \A m \in Requests(method) :
                Grpc!Server!Decode(Grpc!Server!TaskServiceService[method].request,
                    Grpc!Client!Encode(Grpc!Client!TaskServiceService[method].request, m)) = m
           /\ \A m \in Responses(method) :
                Grpc!Client!Decode(Grpc!Client!TaskServiceService[method].response,
                    Grpc!Server!Encode(Grpc!Server!TaskServiceService[method].response, m)) = m
<1>1. ASSUME NEW m \in Requests(method)
      PROVE  Grpc!Client!Decode(RequestType(method), Grpc!Client!Encode(RequestType(method), m)) = m
  BY RequestsAreDeep, DeepRoundTrip
<1>2. ASSUME NEW m \in Responses(method)
      PROVE  Grpc!Client!Decode(ResponseType(method), Grpc!Client!Encode(ResponseType(method), m))
               = m
  BY ResponsesAreDeep, DeepRoundTrip
<1> QED BY <1>1, <1>2, SameCodec DEF RequestType, ResponseType

-----------------------------------------------------------------------------
(* The handlers.                                                           *)

IsStore(s) ==
    /\ s \in [tasks : Seq(StoredTask), nextId : Nat]
    /\ IsList(s.tasks, s.nextId, StoredTask)

\* What a handler may make of the store.
Creates(s, t) ==
    \E new \in StoredTask :
        /\ new.id = s.nextId /\ new.done = FALSE
        /\ t = [tasks |-> Append(s.tasks, new), nextId |-> s.nextId + 1]
Changes(s, t) ==
    \E k \in 1 .. Len(s.tasks), new \in StoredTask :
        /\ new.id = s.tasks[k].id
        /\ t = [tasks |-> Replaced(s.tasks, k, new), nextId |-> s.nextId]
Removes(s, t) ==
    \E k \in 1 .. Len(s.tasks) : t = [tasks |-> RemoveAt(s.tasks, k), nextId |-> s.nextId]

LEMMA ServerTerms ==
    /\ \A s : Grpc!Server!Ids(s) = IdsIn(s.tasks)
    /\ \A s, i : Grpc!Server!Find(s, i) = PlaceOf(s.tasks, i)
    /\ \A s, k : Grpc!Server!RemoveAt(s, k) = RemoveAt(s, k)
    /\ \A s, m : Grpc!Server!Answer(s, m) = [store |-> s, status |-> "OK", message |-> m]
    /\ \A s, e : Grpc!Server!Refuse(s, e) = [store |-> s, status |-> e, message |-> <<>>]
<1>1. \A s : Grpc!Server!Ids(s) = IdsIn(s.tasks)
  BY DEF Grpc!Server!Ids, IdsIn
<1>2. \A s, i : Grpc!Server!Find(s, i) = PlaceOf(s.tasks, i)
  BY DEF Grpc!Server!Find, PlaceOf
<1>3. \A s, k : Grpc!Server!RemoveAt(s, k) = RemoveAt(s, k)
  BY DEF Grpc!Server!RemoveAt, RemoveAt
<1>4. \A s, m : Grpc!Server!Answer(s, m) = [store |-> s, status |-> "OK", message |-> m]
  BY DEF Grpc!Server!Answer
<1>5. \A s, e : Grpc!Server!Refuse(s, e) = [store |-> s, status |-> e, message |-> <<>>]
  BY DEF Grpc!Server!Refuse
<1> QED BY <1>1, <1>2, <1>3, <1>4, <1>5

LEMMA Found ==
    ASSUME NEW s, IsStore(s), NEW i \in IdsIn(s.tasks)
    PROVE  /\ PlaceOf(s.tasks, i) \in 1 .. Len(s.tasks)
           /\ s.tasks[PlaceOf(s.tasks, i)] \in StoredTask
           /\ s.tasks[PlaceOf(s.tasks, i)].id = i
<1> QED BY ListFinds DEF IsStore

\* A task put in the place of the one with its id.
LEMMA ChangedChanges ==
    ASSUME NEW s, IsStore(s), NEW task \in StoredTask, task.id \in IdsIn(s.tasks)
    PROVE  /\ Grpc!Server!Changed(s, task).status = "OK"
           /\ Grpc!Server!Changed(s, task).message = task
           /\ Changes(s, Grpc!Server!Changed(s, task).store)
<1> DEFINE k == PlaceOf(s.tasks, task.id)
<1>1. k \in 1 .. Len(s.tasks) /\ s.tasks[k].id = task.id
  BY Found
<1>2. Grpc!Server!Find(s, task.id) = k
  BY ServerTerms
<1> HIDE DEF k
<1>3. [s EXCEPT !.tasks[k] = task] = [tasks |-> Replaced(s.tasks, k, task), nextId |-> s.nextId]
  BY DEF IsStore, Replaced
<1>4. Grpc!Server!Changed(s, task)
        = [store |-> [tasks |-> Replaced(s.tasks, k, task), nextId |-> s.nextId],
           status |-> "OK", message |-> task]
  BY <1>2, <1>3, ServerTerms DEF Grpc!Server!Changed
<1>5. Changes(s, [tasks |-> Replaced(s.tasks, k, task), nextId |-> s.nextId])
  BY <1>1 DEF Changes
<1> QED BY <1>4, <1>5

LEMMA Creating ==
    ASSUME NEW s, IsStore(s), NEW m \in Requests("createTask"),
           NEW reply, reply = Grpc!Server!HandleCreateTask(s, m)
    PROVE  \/ reply.store = s /\ reply.status # "OK" /\ m.title \notin GrpcTitles
           \/ Creates(s, reply.store) /\ reply.status = "OK" /\ reply.message \in StoredTask
<1>1. m.title \in GrpcTitles \cup {"", " "} /\ m.assignee \in Assignees
  BY DEF Requests
<1>2. CASE m.title \in {"", " "}
  <2>1. reply.store = s /\ reply.status # "OK"
    BY <1>2, ServerTerms DEF Grpc!Server!HandleCreateTask, Grpc!Server!IsBlank
  <2> QED BY <1>2, <2>1 DEF GrpcTitles
<1>3. CASE m.title \in GrpcTitles
  <2> DEFINE new == [id |-> s.nextId, title |-> m.title, done |-> FALSE, assignee |-> m.assignee]
  <2>1. ~Grpc!Server!IsBlank(m.title)
    BY <1>3 DEF Grpc!Server!IsBlank, GrpcTitles
  <2>2. new \in StoredTask /\ new.id = s.nextId /\ new.done = FALSE
    BY <1>1, <1>3 DEF StoredTask, IsStore
  <2>3. reply = [store |-> [tasks |-> Append(s.tasks, new), nextId |-> s.nextId + 1],
                 status |-> "OK", message |-> new]
    BY <2>1, ServerTerms DEF Grpc!Server!HandleCreateTask
  <2> HIDE DEF new
  <2>4. Creates(s, [tasks |-> Append(s.tasks, new), nextId |-> s.nextId + 1])
    BY <2>2 DEF Creates
  <2> QED BY <2>2, <2>3, <2>4
<1> QED BY <1>1, <1>2, <1>3

LEMMA Updating ==
    ASSUME NEW s, IsStore(s), NEW m \in Requests("updateTask"),
           NEW reply, reply = Grpc!Server!HandleUpdateTask(s, m)
    PROVE  \/ reply.store = s /\ reply.status # "OK"
                /\ (m.id \notin IdsIn(s.tasks) \/ m.title \notin GrpcTitles)
           \/ Changes(s, reply.store) /\ reply.status = "OK" /\ reply.message \in StoredTask
<1>1. m \in [id : Nat, title : GrpcTitles \cup {"", " "}, done : BOOLEAN, assignee : Assignees]
  BY DEF Requests
<1>2. CASE m.id \notin IdsIn(s.tasks)
  BY <1>2, ServerTerms DEF Grpc!Server!HandleUpdateTask
<1>3. CASE m.id \in IdsIn(s.tasks) /\ m.title \in {"", " "}
  <2>1. reply.store = s /\ reply.status # "OK"
    BY <1>3, ServerTerms DEF Grpc!Server!HandleUpdateTask, Grpc!Server!IsBlank
  <2> QED BY <1>3, <2>1 DEF GrpcTitles
<1>4. CASE m.id \in IdsIn(s.tasks) /\ m.title \in GrpcTitles
  <2>1. ~Grpc!Server!IsBlank(m.title)
    BY <1>4 DEF Grpc!Server!IsBlank, GrpcTitles
  <2>2. m \in StoredTask
    BY <1>1, <1>4 DEF StoredTask
  <2>3. reply = Grpc!Server!Changed(s, m)
    BY <1>4, <2>1, ServerTerms DEF Grpc!Server!HandleUpdateTask
  <2> QED BY <1>4, <2>2, <2>3, ChangedChanges
<1> QED BY <1>1, <1>2, <1>3, <1>4

LEMMA Patching ==
    ASSUME NEW s, IsStore(s), NEW m \in Requests("patchTask"),
           NEW reply, reply = Grpc!Server!HandlePatchTask(s, m)
    PROVE  \/ reply.store = s /\ reply.status # "OK"
                /\ (m.id \notin IdsIn(s.tasks) \/ m.title = " ")
           \/ Changes(s, reply.store) /\ reply.status = "OK" /\ reply.message \in StoredTask
<1>1. m \in [id : Nat, title : GrpcTitles \cup {"", " ", Undefined},
             done : BOOLEAN \cup {Undefined}, assignee : Assignees]
  BY DEF Requests
<1>2. CASE m.id \notin IdsIn(s.tasks)
  BY <1>2, ServerTerms DEF Grpc!Server!HandlePatchTask
<1>3. CASE m.id \in IdsIn(s.tasks) /\ m.title = " "
  BY <1>3, ServerTerms DEF Grpc!Server!HandlePatchTask
<1>4. CASE m.id \in IdsIn(s.tasks) /\ m.title # " "
  <2> DEFINE task == s.tasks[Grpc!Server!Find(s, m.id)]
             Given(f) == m[f] # Undefined /\ (f = "title" => m[f] # "")
             new == [f \in DOMAIN task |-> IF Given(f) THEN m[f] ELSE task[f]]
  <2>1. task \in StoredTask /\ task.id = m.id
    BY <1>4, Found, ServerTerms
  <2>2. DOMAIN task = {"id", "title", "done", "assignee"}
    BY <2>1 DEF StoredTask
  <2>3. reply = Grpc!Server!Changed(s, new)
    BY <1>4, ServerTerms DEF Grpc!Server!HandlePatchTask
  <2> HIDE DEF task
  <2>a. new = [f \in {"id", "title", "done", "assignee"} |-> new[f]]
    BY <2>2
  <2>4. new = [id |-> new["id"], title |-> new["title"], done |-> new["done"],
               assignee |-> new["assignee"]]
    <3> HIDE DEF new
    <3> QED BY <2>a
  <2>5. /\ new["id"] = m.id
        /\ new["title"] \in GrpcTitles
        /\ new["done"] \in BOOLEAN
        /\ new["assignee"] \in Assignees
    BY <1>1, <1>4, <2>1, <2>2 DEF StoredTask
  <2> HIDE DEF new
  <2>6. new \in StoredTask /\ new.id = m.id
    BY <1>1, <2>4, <2>5 DEF StoredTask
  <2>7. new.id \in IdsIn(s.tasks)
    BY <1>4, <2>6
  <2>8. /\ Grpc!Server!Changed(s, new).status = "OK"
        /\ Grpc!Server!Changed(s, new).message = new
        /\ Changes(s, Grpc!Server!Changed(s, new).store)
    BY <2>6, <2>7, ChangedChanges
  <2> QED BY <2>3, <2>6, <2>8
<1> QED BY <1>2, <1>3, <1>4

LEMMA Deleting ==
    ASSUME NEW s, IsStore(s), NEW m \in Requests("deleteTask"),
           NEW reply, reply = Grpc!Server!HandleDeleteTask(s, m)
    PROVE  \/ reply.store = s /\ reply.status # "OK" /\ m.id \notin IdsIn(s.tasks)
           \/ /\ Removes(s, reply.store) /\ reply.status = "OK"
              /\ reply.message \in Responses("deleteTask")
              /\ m.id \notin IdsIn(reply.store.tasks)
<1>1. CASE m.id \notin IdsIn(s.tasks)
  BY <1>1, ServerTerms DEF Grpc!Server!HandleDeleteTask
<1>2. CASE m.id \in IdsIn(s.tasks)
  <2> DEFINE k == PlaceOf(s.tasks, m.id)
  <2>1. k \in 1 .. Len(s.tasks) /\ s.tasks[k].id = m.id
    BY <1>2, Found
  <2>2. reply = [store |-> [s EXCEPT !.tasks = RemoveAt(s.tasks, k)], status |-> "OK",
                 message |-> [deleted |-> TRUE]]
    BY <1>2, ServerTerms DEF Grpc!Server!HandleDeleteTask
  <2> HIDE DEF k
  <2>3. reply.store = [tasks |-> RemoveAt(s.tasks, k), nextId |-> s.nextId]
    BY <2>2 DEF IsStore
  <2>4. m.id \notin IdsIn(RemoveAt(s.tasks, k))
    BY <2>1, ListDrops DEF IsStore
  <2>5. [deleted |-> TRUE] \in Responses("deleteTask")
    BY DEF Responses
  <2> QED BY <2>1, <2>2, <2>3, <2>4, <2>5 DEF Removes
<1> QED BY <1>1, <1>2

Reply(s, method, m) == Grpc!Server!Handle(s, method, m)

\* Every call makes of the store one of these things.
LEMMA Handling ==
    ASSUME NEW s, IsStore(s), NEW method \in Methods, NEW m \in Requests(method)
    PROVE  /\ \/ Reply(s, method, m).store = s
              \/ Creates(s, Reply(s, method, m).store)
              \/ Changes(s, Reply(s, method, m).store)
              \/ Removes(s, Reply(s, method, m).store)
           /\ Reply(s, method, m).status = "OK" =>
                Reply(s, method, m).message \in Responses(method)
<1> DEFINE reply == Reply(s, method, m)
<1>1. CASE method = "listTasks"
  <2>1. reply = [store |-> s, status |-> "OK", message |-> [tasks |-> s.tasks]]
    BY <1>1, ServerTerms DEF Reply, Grpc!Server!Handle, Grpc!Server!HandleListTasks
  <2>2. [tasks |-> s.tasks] \in Responses(method)
    BY <1>1 DEF Responses, IsStore
  <2> QED BY <2>1, <2>2
<1>2. CASE method = "getTask"
  <2>1. reply = Grpc!Server!HandleGetTask(s, m)
    BY <1>2 DEF Reply, Grpc!Server!Handle
  <2>2. \/ reply.store = s /\ reply.status # "OK"
        \/ /\ reply.store = s /\ m.id \in IdsIn(s.tasks)
           /\ reply.message = s.tasks[PlaceOf(s.tasks, m.id)]
    BY <2>1, ServerTerms DEF Grpc!Server!HandleGetTask
  <2>3. Responses(method) = StoredTask
    BY <1>2 DEF Responses
  <2> HIDE DEF reply
  <2> QED BY <2>2, <2>3, Found DEF reply
<1>3. CASE method \in {"createTask", "updateTask", "patchTask", "deleteTask"}
  <2>1. /\ method = "createTask" => reply = Grpc!Server!HandleCreateTask(s, m)
        /\ method = "updateTask" => reply = Grpc!Server!HandleUpdateTask(s, m)
        /\ method = "patchTask" => reply = Grpc!Server!HandlePatchTask(s, m)
        /\ method = "deleteTask" => reply = Grpc!Server!HandleDeleteTask(s, m)
    BY <1>3 DEF Reply, Grpc!Server!Handle
  <2>2. method # "deleteTask" => Responses(method) = StoredTask
    BY <1>3 DEF Responses
  <2> HIDE DEF reply
  <2>3. CASE method = "createTask"
    BY <2>1, <2>2, <2>3, Creating DEF reply
  <2>4. CASE method = "updateTask"
    BY <2>1, <2>2, <2>4, Updating DEF reply
  <2>5. CASE method = "patchTask"
    BY <2>1, <2>2, <2>5, Patching DEF reply
  <2>6. CASE method = "deleteTask"
    BY <2>1, <2>6, Deleting DEF reply
  <2> QED BY <1>3, <2>3, <2>4, <2>5, <2>6
<1> QED BY <1>1, <1>2, <1>3 DEF Methods

-----------------------------------------------------------------------------
(* The calls.                                                              *)

\* Tasks that there were.
Deleted(s) == (1 .. s.nextId - 1) \ IdsIn(s.tasks)

LEMMA StoreSteps ==
    ASSUME NEW s, NEW t, IsStore(s),
           t = s \/ Creates(s, t) \/ Changes(s, t) \/ Removes(s, t)
    PROVE  /\ IsStore(t)
           /\ t.nextId >= s.nextId
           /\ Creates(s, t) => t.nextId = s.nextId + 1
           /\ Deleted(s) \subseteq Deleted(t)
<1>0. s.nextId \in Nat \ {0} /\ s.tasks \in Seq(StoredTask)
  BY DEF IsStore, IsList
<1>1. CASE t = s
  <2>1. ~Creates(s, t)
    BY <1>0, <1>1 DEF Creates
  <2> QED BY <1>0, <1>1, <2>1
<1>2. CASE Creates(s, t)
  <2>1. PICK new \in StoredTask :
          /\ new.id = s.nextId
          /\ t = [tasks |-> Append(s.tasks, new), nextId |-> s.nextId + 1]
    BY <1>2 DEF Creates
  <2>2. /\ IsList(t.tasks, t.nextId, StoredTask)
        /\ IdsIn(t.tasks) = IdsIn(s.tasks) \cup {s.nextId}
    BY <2>1, ListAdds DEF IsStore
  <2>3. t.nextId = s.nextId + 1
    BY <2>1
  <2>4. IsStore(t)
    BY <1>0, <2>1, <2>2 DEF IsStore, IsList
  <2> QED BY <1>0, <2>2, <2>3, <2>4 DEF Deleted
<1>3. CASE Changes(s, t)
  <2>1. PICK k \in 1 .. Len(s.tasks), new \in StoredTask :
          /\ new.id = s.tasks[k].id
          /\ t = [tasks |-> Replaced(s.tasks, k, new), nextId |-> s.nextId]
    BY <1>3 DEF Changes
  <2>2. /\ IsList(t.tasks, t.nextId, StoredTask)
        /\ IdsIn(t.tasks) = IdsIn(s.tasks)
    BY <2>1, ListChanges DEF IsStore
  <2>3. t.nextId = s.nextId
    BY <2>1
  <2>4. IsStore(t)
    BY <1>0, <2>1, <2>2 DEF IsStore, IsList
  <2>5. ~Creates(s, t)
    BY <1>0, <2>3 DEF Creates
  <2> QED BY <1>0, <2>2, <2>3, <2>4, <2>5 DEF Deleted
<1>4. CASE Removes(s, t)
  <2>1. PICK k \in 1 .. Len(s.tasks) : t = [tasks |-> RemoveAt(s.tasks, k), nextId |-> s.nextId]
    BY <1>4 DEF Removes
  <2>2. /\ IsList(t.tasks, t.nextId, StoredTask)
        /\ IdsIn(t.tasks) \subseteq IdsIn(s.tasks)
    BY <2>1, ListDrops DEF IsStore
  <2>3. t.nextId = s.nextId
    BY <2>1
  <2>4. IsStore(t)
    BY <1>0, <2>1, <2>2 DEF IsStore, IsList
  <2>5. ~Creates(s, t)
    BY <1>0, <2>3 DEF Creates
  <2> QED BY <1>0, <2>2, <2>3, <2>4, <2>5 DEF Deleted
<1> QED BY <1>1, <1>2, <1>3, <1>4

Callers == Clients \cup Guests

CallInv(c) ==
    \/ call[c] = Grpc!Idle
    \/ /\ call[c].leg = "request" /\ call[c].method \in Methods
       /\ call[c].message \in Requests(call[c].method)
       /\ call[c].bytes =
            Grpc!Client!Encode(Grpc!Client!TaskServiceService[call[c].method].request,
                               call[c].message)
    \/ /\ call[c].leg = "reply" /\ call[c].method \in Methods
       /\ status[c] = "OK" =>
            /\ call[c].message \in Responses(call[c].method)
            /\ call[c].bytes =
                 Grpc!Server!Encode(Grpc!Server!TaskServiceService[call[c].method].response,
                                    call[c].message)

\* Where a script is: the number of its next call, or of the one after the call
\* that was served.
Progress(c) == IF call[c].leg = "reply" THEN pc[c] + 1 ELSE pc[c]

\* The tasks that a script has made sure of: 1 and 2 were created, 2 is deleted.
ScriptInv(c) ==
    /\ pc[c] \in Nat \ {0}
    /\ call[c] # Grpc!Idle => outcome[c] = "running" /\ pc[c] <= 8
    /\ call[c].leg = "request" => /\ call[c].method = Grpc!Client!Script[pc[c]].method
                                  /\ call[c].message = Grpc!Client!Script[pc[c]].request
    /\ Progress(c) > 1 => store.nextId > 1
    /\ Progress(c) > 2 => store.nextId > 2
    /\ Progress(c) > 7 => 2 \in Deleted(store)
    /\ call[c].leg = "reply" /\ status[c] # "OK" => {1, 2} \cap Deleted(store) # {}
    /\ outcome[c] = "rejected" => {1, 2} \cap Deleted(store) # {}
    /\ outcome[c] = "done" => 2 \in Deleted(store)

GrpcInv ==
    /\ IsStore(store)
    /\ DOMAIN call = Callers /\ DOMAIN pc = Callers /\ DOMAIN outcome = Callers
    /\ DOMAIN status = Callers
    /\ \A c \in Callers : CallInv(c)
    /\ \A c \in Clients : ScriptInv(c)

LEMMA IdleHasNoLeg == Grpc!Idle.leg = "none"
BY DEF Grpc!Idle

\* A step of one caller leaves the others as they are.
LEMMA OneCallerSteps ==
    ASSUME GrpcInv, NEW c \in Callers, IsStore(store'),
           store'.nextId >= store.nextId, Deleted(store) \subseteq Deleted(store'),
           DOMAIN call' = Callers, DOMAIN pc' = Callers, DOMAIN outcome' = Callers,
           DOMAIN status' = Callers,
           \A d \in Callers : d # c => /\ call'[d] = call[d] /\ pc'[d] = pc[d]
                                       /\ outcome'[d] = outcome[d] /\ status'[d] = status[d],
           CallInv(c)', c \in Clients => ScriptInv(c)'
    PROVE  GrpcInv'
<1>1. ASSUME NEW d \in Callers, d # c PROVE CallInv(d)'
  BY <1>1 DEF GrpcInv, CallInv
<1>2. ASSUME NEW d \in Clients, d # c PROVE ScriptInv(d)'
  <2>1. /\ call'[d] = call[d] /\ pc'[d] = pc[d] /\ outcome'[d] = outcome[d]
        /\ status'[d] = status[d] /\ ScriptInv(d)
    BY <1>2 DEF GrpcInv, Callers
  <2>2. Progress(d)' = Progress(d) /\ Progress(d) \in Nat
    BY <2>1 DEF Progress, ScriptInv
  <2>3. store.nextId \in Nat /\ store'.nextId \in Nat
    BY DEF GrpcInv, IsStore
  <2>4. {1, 2} \cap Deleted(store) # {} => {1, 2} \cap Deleted(store') # {}
    OBVIOUS
  <2> HIDE DEF Deleted
  <2> QED BY <2>1, <2>2, <2>3, <2>4 DEF ScriptInv
<1> QED BY <1>1, <1>2 DEF GrpcInv, Callers

LEMMA RequestSets ==
    /\ Requests("listTasks") = {<<>>}
    /\ Requests("getTask") = [id : Nat]
    /\ Requests("createTask") = [title : GrpcTitles \cup {"", " "}, assignee : Assignees]
    /\ Requests("updateTask") = [id : Nat, title : GrpcTitles \cup {"", " "},
                                 done : BOOLEAN, assignee : Assignees]
    /\ Requests("patchTask") = [id : Nat, title : GrpcTitles \cup {"", " ", Undefined},
                                done : BOOLEAN \cup {Undefined}, assignee : Assignees]
    /\ Requests("deleteTask") = [id : Nat]
BY DEF Requests

\* What the script and the guests send.
LEMMA SentIsRequest ==
    /\ Len(Grpc!Client!Script) = 8
    /\ \A k \in 1 .. 8 : /\ Grpc!Client!Script[k].method \in Methods
                         /\ Grpc!Client!Script[k].request
                              \in Requests(Grpc!Client!Script[k].method)
    /\ \A called \in SomeCalls : /\ called.method \in Methods
                                 /\ called.request \in Requests(called.method)
<1>1. Len(Grpc!Client!Script) = 8
  BY DEF Grpc!Client!Script
<1>2. \A k \in 1 .. 8 : k = 1 \/ k = 2 \/ k = 3 \/ k = 4 \/ k = 5 \/ k = 6 \/ k = 7 \/ k = 8
  OBVIOUS
<1>3. ASSUME NEW k \in 1 .. 8
      PROVE  /\ Grpc!Client!Script[k].method \in Methods
             /\ Grpc!Client!Script[k].request \in Requests(Grpc!Client!Script[k].method)
  <2> DEFINE S == Grpc!Client!Script
  <2>1. /\ S[1].method = "createTask"
        /\ S[1].request = [title |-> "Estudar", assignee |-> Grpc!Client!Alex]
        /\ S[2].method = "createTask"
        /\ S[2].request = [title |-> "Revisar", assignee |-> Undefined]
        /\ S[3].method = "listTasks"  /\ S[3].request = <<>>
        /\ S[4].method = "getTask"    /\ S[4].request = [id |-> 1]
    BY DEF Grpc!Client!Script, Grpc!Client!Call
  <2>2. /\ S[5].method = "updateTask"
        /\ S[5].request = [id |-> 1, title |-> "Feito", done |-> TRUE,
                            assignee |-> Grpc!Client!Maria]
        /\ S[6].method = "patchTask"
        /\ S[6].request = [id |-> 2, title |-> Undefined, done |-> TRUE, assignee |-> Undefined]
        /\ S[7].method = "deleteTask" /\ S[7].request = [id |-> 2]
        /\ S[8].method = "listTasks"  /\ S[8].request = <<>>
    BY DEF Grpc!Client!Script, Grpc!Client!Call
  <2> HIDE DEF S
  <2>3. \/ S[k] = S[1] \/ S[k] = S[2] \/ S[k] = S[3] \/ S[k] = S[4]
        \/ S[k] = S[5] \/ S[k] = S[6] \/ S[k] = S[7] \/ S[k] = S[8]
    BY <1>2
  <2>4. /\ S[1].request \in Requests("createTask") /\ S[2].request \in Requests("createTask")
        /\ S[3].request \in Requests("listTasks") /\ S[8].request \in Requests("listTasks")
        /\ S[4].request \in Requests("getTask") /\ S[7].request \in Requests("deleteTask")
    BY <2>1, <2>2, RequestSets DEF GrpcTitles, Assignees
  <2>5. S[5].request \in Requests("updateTask") /\ S[6].request \in Requests("patchTask")
    BY <2>2, RequestSets DEF GrpcTitles, Assignees
  <2>6. S[k].method \in Methods /\ S[k].request \in Requests(S[k].method)
    BY <2>1, <2>2, <2>3, <2>4, <2>5 DEF Methods
  <2> QED BY <2>6 DEF S
<1>4. ASSUME NEW called \in SomeCalls
      PROVE  called.method \in Methods /\ called.request \in Requests(called.method)
  <2> DEFINE P == [id : {1}, title : {Undefined, "", " "}, done : {Undefined, FALSE},
                  assignee : {Undefined}]
  <2>1. \/ \E patch \in P : called = Messages!Call("patchTask", patch)
        \/ called = Messages!Call("deleteTask", [id |-> 1])
        \/ called = Messages!Call("createTask", [title |-> "", assignee |-> Undefined])
        \/ called = Messages!Call("updateTask", [id |-> 0, title |-> "", done |-> FALSE,
                                                 assignee |-> Undefined])
    BY DEF SomeCalls
  <2>2. Undefined \in Assignees
    BY DEF Assignees
  <2>3. ASSUME NEW patch \in P, called = Messages!Call("patchTask", patch)
        PROVE  called.method \in Methods /\ called.request \in Requests(called.method)
    <3>1. called.method = "patchTask" /\ called.request = patch
      BY <2>3 DEF Messages!Call
    <3>2. patch \in [id : Nat, title : GrpcTitles \cup {"", " ", Undefined},
                     done : BOOLEAN \cup {Undefined}, assignee : Assignees]
      <4>1. /\ patch.id \in Nat /\ patch.title \in {Undefined, "", " "}
            /\ patch.assignee = Undefined
        <5>1. patch.id \in {1} /\ patch.title \in {Undefined, "", " "}
          OBVIOUS
        <5>2. patch.assignee \in {Undefined}
          OBVIOUS
        <5>3. patch.id \in Nat
          <6>1. patch.id = 1
            BY <5>1, Zenon
          <6> HIDE DEF P
          <6>2. 1 \in Nat
            OBVIOUS
          <6> QED BY <6>1, <6>2, Zenon
        <5>4. patch.assignee = Undefined
          BY <5>2, Zenon
        <5> HIDE DEF P
        <5> QED BY <5>1, <5>3, <5>4
      <4>2. patch.done \in BOOLEAN \cup {Undefined}
        <5>1. patch.done \in {Undefined, FALSE}
          OBVIOUS
        <5> QED BY <5>1
      <4>3. patch = [id |-> patch.id, title |-> patch.title, done |-> patch.done,
                     assignee |-> patch.assignee]
        OBVIOUS
      <4> HIDE DEF P
      <4> QED BY <2>2, <4>1, <4>2, <4>3
    <3>3. patch \in Requests("patchTask")
      BY <3>2, RequestSets
    <3> QED BY <3>1, <3>3 DEF Methods
  <2>4. CASE called = Messages!Call("deleteTask", [id |-> 1])
    BY <2>4, RequestSets DEF Messages!Call, Methods
  <2>5. CASE called = Messages!Call("createTask", [title |-> "", assignee |-> Undefined])
    BY <2>2, <2>5, RequestSets DEF Messages!Call, Methods
  <2>6. CASE called = Messages!Call("updateTask", [id |-> 0, title |-> "", done |-> FALSE,
                                                  assignee |-> Undefined])
    BY <2>2, <2>6, RequestSets DEF Messages!Call, Methods
  <2> HIDE DEF P
  <2> QED BY <2>1, <2>3, <2>4, <2>5, <2>6
<1> QED BY <1>1, <1>3, <1>4

LEMMA SendKeeps ==
    ASSUME GrpcInv, NEW c \in Callers, NEW method \in Methods, NEW request \in Requests(method),
           Grpc!Send(c, method, request),
           c \in Clients =>
             /\ outcome[c] = "running" /\ pc[c] <= 8
             /\ method = Grpc!Client!Script[pc[c]].method
             /\ request = Grpc!Client!Script[pc[c]].request
    PROVE  GrpcInv' /\ UNCHANGED Grpc!Store!vars
<1> DEFINE new == [leg |-> "request", method |-> method, message |-> request,
                   bytes |-> Grpc!Client!Encode(
                     Grpc!Client!TaskServiceService[method].request, request)]
<1>1. /\ call[c] = Grpc!Idle /\ call' = [call EXCEPT ![c] = new]
      /\ store' = store /\ pc' = pc /\ outcome' = outcome /\ status' = status
  BY DEF Grpc!Send
<1>2. DOMAIN call = Callers
  BY DEF GrpcInv
<1>3. /\ new.leg = "request" /\ new.method = method /\ new.message = request
      /\ new.bytes = Grpc!Client!Encode(Grpc!Client!TaskServiceService[method].request, request)
  OBVIOUS
<1> HIDE DEF new
<1>4. call'[c] = new /\ DOMAIN call' = Callers /\ \A d \in Callers : d # c => call'[d] = call[d]
  BY <1>1, <1>2
<1>5. CallInv(c)'
  BY <1>3, <1>4 DEF CallInv
<1>6. ASSUME c \in Clients PROVE ScriptInv(c)'
  <2>1. ScriptInv(c) /\ Progress(c) = pc[c]
    BY <1>1, <1>6, IdleHasNoLeg DEF GrpcInv, Progress
  <2>2. Progress(c)' = pc[c]
    BY <1>1, <1>3, <1>4 DEF Progress
  <2> QED BY <1>1, <1>3, <1>4, <1>6, <2>1, <2>2 DEF ScriptInv
<1>7. GrpcInv'
  <2>1. store'.nextId >= store.nextId
    BY <1>1 DEF GrpcInv, IsStore
  <2> QED BY <1>1, <1>4, <1>5, <1>6, <2>1, OneCallerSteps DEF GrpcInv
<1>8. UNCHANGED Grpc!Store!vars
  BY <1>1 DEF Grpc!Store!vars, Grpc!Held, Grpc!Server!Ids, Grpc!Server!Find
<1> QED BY <1>7, <1>8

LEMMA ReceiveKeeps ==
    ASSUME GrpcInv, NEW c \in Callers, Grpc!Receive(c)
    PROVE  GrpcInv' /\ UNCHANGED Grpc!Store!vars
<1>1. /\ call[c].leg = "reply" /\ call' = [call EXCEPT ![c] = Grpc!Idle]
      /\ pc' = [pc EXCEPT ![c] = pc[c] + 1]
      /\ outcome' = IF c \in Guests THEN outcome
                    ELSE IF status[c] # "OK" THEN [outcome EXCEPT ![c] = "rejected"]
                    ELSE IF pc[c] = Len(Grpc!Client!Script) THEN [outcome EXCEPT ![c] = "done"]
                    ELSE outcome
      /\ store' = store /\ status' = status
  BY DEF Grpc!Receive
<1>2. DOMAIN call = Callers /\ DOMAIN pc = Callers /\ DOMAIN outcome = Callers
  BY DEF GrpcInv
<1>3. /\ call'[c] = Grpc!Idle /\ pc'[c] = pc[c] + 1
      /\ DOMAIN call' = Callers /\ DOMAIN pc' = Callers
      /\ \A d \in Callers : d # c => call'[d] = call[d] /\ pc'[d] = pc[d]
  BY <1>1, <1>2
<1>4. DOMAIN outcome' = Callers /\ \A d \in Callers : d # c => outcome'[d] = outcome[d]
  BY <1>1, <1>2
<1>5. CallInv(c)'
  BY <1>3 DEF CallInv
<1>6. ASSUME c \in Clients PROVE ScriptInv(c)'
  <2>1. ScriptInv(c) /\ c \notin Guests
    BY <1>6, CallersAssumption DEF GrpcInv
  <2>2. Progress(c) = pc[c] + 1 /\ Progress(c)' = pc[c] + 1 /\ pc[c] \in Nat \ {0}
    BY <1>1, <1>3, <2>1, IdleHasNoLeg DEF Progress, ScriptInv
  <2>3. \/ outcome'[c] = "rejected" /\ status[c] # "OK"
        \/ outcome'[c] = "done" /\ pc[c] = 8
        \/ outcome'[c] = outcome[c]
    BY <1>1, <1>2, <2>1, SentIsRequest
  <2>4. outcome'[c] = "done" => 2 \in Deleted(store)
    BY <2>1, <2>2, <2>3 DEF ScriptInv
  <2>5. outcome'[c] = "rejected" => {1, 2} \cap Deleted(store) # {}
    BY <1>1, <2>1, <2>3 DEF ScriptInv
  <2> HIDE DEF Deleted
  <2> QED BY <1>1, <1>3, <2>1, <2>2, <2>4, <2>5, IdleHasNoLeg DEF ScriptInv
<1>7. GrpcInv'
  <2>1. store'.nextId >= store.nextId
    BY <1>1 DEF GrpcInv, IsStore
  <2> QED BY <1>1, <1>3, <1>4, <1>5, <1>6, <2>1, OneCallerSteps DEF GrpcInv
<1>8. UNCHANGED Grpc!Store!vars
  BY <1>1 DEF Grpc!Store!vars, Grpc!Held, Grpc!Server!Ids, Grpc!Server!Find
<1> QED BY <1>7, <1>8

LEMMA UnavailableKeeps ==
    ASSUME GrpcInv, NEW c, Grpc!Unavailable(c)
    PROVE  GrpcInv' /\ UNCHANGED Grpc!Store!vars
<1>1. /\ c \in Clients /\ c \in Callers /\ call' = [call EXCEPT ![c] = Grpc!Idle]
      /\ outcome' = [outcome EXCEPT ![c] = "unreachable"]
      /\ pc' = pc /\ store' = store /\ status' = status
  BY DEF Grpc!Unavailable, Callers
<1>2. DOMAIN call = Callers /\ DOMAIN pc = Callers /\ DOMAIN outcome = Callers
  BY DEF GrpcInv
<1>3. /\ call'[c] = Grpc!Idle /\ outcome'[c] = "unreachable"
      /\ DOMAIN call' = Callers /\ DOMAIN outcome' = Callers
      /\ \A d \in Callers : d # c => call'[d] = call[d] /\ outcome'[d] = outcome[d]
  BY <1>1, <1>2
<1>4. CallInv(c)'
  BY <1>3 DEF CallInv
<1>5. ScriptInv(c)'
  <2>1. ScriptInv(c)
    BY <1>1 DEF GrpcInv
  <2>2. Progress(c)' = pc[c] /\ Progress(c) >= pc[c] /\ pc[c] \in Nat /\ Progress(c) \in Nat
    BY <1>1, <1>3, <2>1, IdleHasNoLeg DEF Progress, ScriptInv
  <2> HIDE DEF Deleted
  <2> QED BY <1>1, <1>3, <2>1, <2>2, IdleHasNoLeg DEF ScriptInv
<1>6. GrpcInv'
  <2>1. store'.nextId >= store.nextId
    BY <1>1 DEF GrpcInv, IsStore
  <2> QED BY <1>1, <1>3, <1>4, <1>5, <2>1, OneCallerSteps DEF GrpcInv
<1>7. UNCHANGED Grpc!Store!vars
  BY <1>1 DEF Grpc!Store!vars, Grpc!Held, Grpc!Server!Ids, Grpc!Server!Find
<1> QED BY <1>6, <1>7

\* What the list of the server shows.
FullTask(task) == [title |-> task.title, done |-> task.done, assignee |-> task.assignee]

FullShown(s) == [i \in IdsIn(s) |-> FullTask(TasksOf(s)[i])]

LEMMA FullShownSteps ==
    ASSUME NEW s, NEW n, NEW T, IsList(s, n, T)
    PROVE  /\ DOMAIN FullShown(s) = IdsIn(s)
           /\ \A new \in T : new.id = n =>
                FullShown(Append(s, new)) = With(FullShown(s), n, FullTask(new))
           /\ \A k \in 1 .. Len(s), new \in T : new.id = s[k].id =>
                FullShown(Replaced(s, k, new)) = With(FullShown(s), s[k].id, FullTask(new))
           /\ \A k \in 1 .. Len(s) :
                FullShown(RemoveAt(s, k)) = Without(FullShown(s), s[k].id)
<1>1. /\ DOMAIN FullShown(s) = IdsIn(s) /\ DOMAIN TasksOf(s) = IdsIn(s)
      /\ \A i \in IdsIn(s) : FullShown(s)[i] = FullTask(TasksOf(s)[i])
  BY DEF FullShown, TasksOf
<1>2. ASSUME NEW t, NEW i, NEW new,
             TasksOf(t) = With(TasksOf(s), i, new), IdsIn(t) = IdsIn(s) \cup {i}
      PROVE  FullShown(t) = With(FullShown(s), i, FullTask(new))
  BY <1>1, <1>2 DEF FullShown, With
<1>3. ASSUME NEW new \in T, new.id = n
      PROVE  FullShown(Append(s, new)) = With(FullShown(s), n, FullTask(new))
  BY <1>2, <1>3, ListAdds
<1>4. ASSUME NEW k \in 1 .. Len(s), NEW new \in T, new.id = s[k].id
      PROVE  FullShown(Replaced(s, k, new)) = With(FullShown(s), s[k].id, FullTask(new))
  <2>1. /\ IdsIn(Replaced(s, k, new)) = IdsIn(s) \cup {s[k].id}
        /\ TasksOf(Replaced(s, k, new)) = With(TasksOf(s), s[k].id, new)
    BY <1>4, ListChanges
  <2> QED BY <1>2, <2>1
<1>5. ASSUME NEW t, NEW i, TasksOf(t) = Without(TasksOf(s), i), IdsIn(t) = IdsIn(s) \ {i}
      PROVE  FullShown(t) = Without(FullShown(s), i)
  BY <1>1, <1>5 DEF FullShown, Without
<1>6. ASSUME NEW k \in 1 .. Len(s)
      PROVE  FullShown(RemoveAt(s, k)) = Without(FullShown(s), s[k].id)
  BY <1>5, ListDrops
<1> QED BY <1>1, <1>3, <1>4, <1>6

LEMMA GrpcHeld ==
    /\ Grpc!Held = FullShown(store.tasks)
    /\ Grpc!Held' = FullShown(store'.tasks)
<1>1. Grpc!Held = FullShown(store.tasks)
  BY DEF Grpc!Held, Grpc!Server!Ids, Grpc!Server!Find, FullShown, FullTask, TasksOf, IdsIn, PlaceOf
<1>2. Grpc!Held' = FullShown(store'.tasks)
  BY DEF Grpc!Held, Grpc!Server!Ids, Grpc!Server!Find, FullShown, FullTask, TasksOf, IdsIn, PlaceOf
<1> QED BY <1>1, <1>2

GrpcContent == [title : GrpcTitles, done : BOOLEAN, assignee : Assignees]

LEMMA GrpcStoreNext ==
    /\ \A content \in GrpcContent : Grpc!Store!Create(content) => Grpc!Store!Next
    /\ \A id \in DOMAIN Grpc!Held : Grpc!Store!Remove(id) => Grpc!Store!Next
    /\ \A id \in DOMAIN Grpc!Held, content \in GrpcContent :
         Grpc!Store!Change(id, content) => Grpc!Store!Next
BY DEF Grpc!Store!Next, GrpcContent, GrpcTitles, Assignees

LEMMA HandlerIsStoreStep ==
    ASSUME IsStore(store),
           Creates(store, store') \/ Changes(store, store') \/ Removes(store, store')
    PROVE  Grpc!Store!Next
<1>0. IsList(store.tasks, store.nextId, StoredTask) /\ store.nextId \in Nat
  BY DEF IsStore
<1>1. CASE Creates(store, store')
  <2>1. PICK new \in StoredTask :
          /\ new.id = store.nextId
          /\ store' = [tasks |-> Append(store.tasks, new), nextId |-> store.nextId + 1]
    BY <1>1 DEF Creates
  <2>2. /\ store'.tasks = Append(store.tasks, new)
        /\ store'.nextId - 1 = store.nextId /\ store'.nextId - 1 = (store.nextId - 1) + 1
    BY <1>0, <2>1
  <2>3. FullShown(store'.tasks) = With(FullShown(store.tasks), store.nextId, FullTask(new))
    BY <1>0, <2>1, <2>2, FullShownSteps
  <2>4. FullTask(new) \in GrpcContent
    BY DEF FullTask, GrpcContent, StoredTask
  <2>5. Grpc!Store!Create(FullTask(new))
    BY <2>2, <2>3, GrpcHeld DEF Grpc!Store!Create, With
  <2> QED BY <2>4, <2>5, GrpcStoreNext
<1>2. CASE Changes(store, store')
  <2>1. PICK k \in 1 .. Len(store.tasks), new \in StoredTask :
          /\ new.id = store.tasks[k].id
          /\ store' = [tasks |-> Replaced(store.tasks, k, new), nextId |-> store.nextId]
    BY <1>2 DEF Changes
  <2> DEFINE id == store.tasks[k].id
  <2>2. store'.tasks = Replaced(store.tasks, k, new) /\ store'.nextId = store.nextId
    BY <2>1
  <2>3. /\ FullShown(store'.tasks) = With(FullShown(store.tasks), id, FullTask(new))
        /\ id \in DOMAIN FullShown(store.tasks)
    <3>1. id \in IdsIn(store.tasks)
      BY <1>0, ListFinds
    <3>2. DOMAIN FullShown(store.tasks) = IdsIn(store.tasks)
      BY <1>0, FullShownSteps
    <3> QED BY <1>0, <2>1, <2>2, <3>1, <3>2, FullShownSteps
  <2>4. FullTask(new) \in GrpcContent
    BY DEF FullTask, GrpcContent, StoredTask
  <2> HIDE DEF id
  <2>5. Grpc!Store!Change(id, FullTask(new))
    <3>1. FullShown(store.tasks)
            = [i \in DOMAIN FullShown(store.tasks) |-> FullShown(store.tasks)[i]]
      BY DEF FullShown
    <3>2. With(FullShown(store.tasks), id, FullTask(new))
            = [FullShown(store.tasks) EXCEPT ![id] = FullTask(new)]
      BY <2>3, <3>1 DEF With
    <3> QED BY <2>2, <2>3, <3>2, GrpcHeld DEF Grpc!Store!Change
  <2> QED BY <2>3, <2>4, <2>5, GrpcStoreNext, GrpcHeld
<1>3. CASE Removes(store, store')
  <2>1. PICK k \in 1 .. Len(store.tasks) :
          store' = [tasks |-> RemoveAt(store.tasks, k), nextId |-> store.nextId]
    BY <1>3 DEF Removes
  <2> DEFINE id == store.tasks[k].id
  <2>2. store'.tasks = RemoveAt(store.tasks, k) /\ store'.nextId = store.nextId
    BY <2>1
  <2>3. /\ FullShown(store'.tasks) = Without(FullShown(store.tasks), id)
        /\ id \in DOMAIN FullShown(store.tasks)
    <3>1. id \in IdsIn(store.tasks)
      BY <1>0, ListFinds
    <3> QED BY <1>0, <2>2, <3>1, FullShownSteps
  <2> HIDE DEF id
  <2>4. Grpc!Store!Remove(id)
    BY <2>2, <2>3, GrpcHeld DEF Grpc!Store!Remove, Without
  <2> QED BY <2>3, <2>4, GrpcStoreNext, GrpcHeld
<1> QED BY <1>1, <1>2, <1>3

\* What the calls of the script come to.
LEMMA ScriptCalls ==
    ASSUME NEW s, IsStore(s), NEW k \in 1 .. 8
    PROVE  LET reply == Reply(s, Grpc!Client!Script[k].method, Grpc!Client!Script[k].request)
           IN  /\ k \in {1, 2} => Creates(s, reply.store) /\ reply.status = "OK"
               /\ k > 2 /\ s.nextId > 2 /\ reply.status # "OK" =>
                    {1, 2} \cap Deleted(reply.store) # {}
               /\ k = 7 /\ s.nextId > 2 => 2 \in Deleted(reply.store)
<1> DEFINE S == Grpc!Client!Script
           reply == Reply(s, S[k].method, S[k].request)
<1>0. s.nextId \in Nat /\ IdsIn(s.tasks) = IdsIn(s.tasks)
  BY DEF IsStore
<1>1. \A i \in {1, 2} : s.nextId > 2 /\ i \notin IdsIn(s.tasks) => i \in Deleted(s)
  BY <1>0 DEF Deleted
<1>2. S[k].method \in Methods /\ S[k].request \in Requests(S[k].method)
  BY SentIsRequest
<1>3. CASE k \in {1, 2}
  <2>1. S[k].method = "createTask" /\ S[k].request.title \in GrpcTitles
    BY <1>3 DEF Grpc!Client!Script, Grpc!Client!Call, GrpcTitles
  <2>2. reply = Grpc!Server!HandleCreateTask(s, S[k].request)
    BY <2>1 DEF Reply, Grpc!Server!Handle
  <2>3. S[k].request \in Requests("createTask")
    BY <1>2, <2>1
  <2> HIDE DEF reply, S
  <2>4. Creates(s, reply.store) /\ reply.status = "OK"
    BY <2>1, <2>2, <2>3, Creating
  <2> QED BY <1>3, <2>4 DEF reply, S
<1>4. CASE k \in {3, 8}
  <2>1. S[k].method = "listTasks"
    BY <1>4 DEF Grpc!Client!Script, Grpc!Client!Call
  <2>2. reply.status = "OK"
    BY <2>1, ServerTerms DEF Reply, Grpc!Server!Handle, Grpc!Server!HandleListTasks
  <2> QED BY <1>4, <2>2
<1>5. CASE k = 4
  <2>1. S[k].method = "getTask" /\ S[k].request.id = 1
    BY <1>5 DEF Grpc!Client!Script, Grpc!Client!Call
  <2>2. reply = Grpc!Server!HandleGetTask(s, S[k].request)
    BY <2>1 DEF Reply, Grpc!Server!Handle
  <2> HIDE DEF reply, S
  <2>3. reply.store = s /\ (reply.status # "OK" => 1 \notin IdsIn(s.tasks))
    BY <2>1, <2>2, ServerTerms DEF Grpc!Server!HandleGetTask
  <2> QED BY <1>1, <1>5, <2>3 DEF reply, S
<1>6. CASE k = 5
  <2>1. S[k].method = "updateTask" /\ S[k].request.id = 1 /\ S[k].request.title \in GrpcTitles
    BY <1>6 DEF Grpc!Client!Script, Grpc!Client!Call, GrpcTitles
  <2>2. reply = Grpc!Server!HandleUpdateTask(s, S[k].request)
    BY <2>1 DEF Reply, Grpc!Server!Handle
  <2>3. S[k].request \in Requests("updateTask")
    BY <1>2, <2>1
  <2> HIDE DEF reply, S
  <2>4. reply.status # "OK" => reply.store = s /\ 1 \notin IdsIn(s.tasks)
    BY <2>1, <2>2, <2>3, Updating
  <2> QED BY <1>1, <1>6, <2>4 DEF reply, S
<1>7. CASE k = 6
  <2>1. S[k].method = "patchTask" /\ S[k].request.id = 2 /\ S[k].request.title = Undefined
    BY <1>7 DEF Grpc!Client!Script, Grpc!Client!Call
  <2>2. reply = Grpc!Server!HandlePatchTask(s, S[k].request)
    BY <2>1 DEF Reply, Grpc!Server!Handle
  <2>3. S[k].request \in Requests("patchTask")
    BY <1>2, <2>1
  <2>4. Undefined # " "
    BY UndefinedAssumption
  <2> HIDE DEF reply, S
  <2>5. reply.status # "OK" => reply.store = s /\ 2 \notin IdsIn(s.tasks)
    BY <2>1, <2>2, <2>3, <2>4, Patching
  <2> QED BY <1>1, <1>7, <2>5 DEF reply, S
<1>8. CASE k = 7
  <2>1. S[k].method = "deleteTask" /\ S[k].request.id = 2
    BY <1>8 DEF Grpc!Client!Script, Grpc!Client!Call
  <2>2. reply = Grpc!Server!HandleDeleteTask(s, S[k].request)
    BY <2>1 DEF Reply, Grpc!Server!Handle
  <2>3. S[k].request \in Requests("deleteTask")
    BY <1>2, <2>1
  <2> HIDE DEF reply, S
  <2>4. \/ reply.store = s /\ 2 \notin IdsIn(s.tasks)
        \/ Removes(s, reply.store) /\ 2 \notin IdsIn(reply.store.tasks)
    BY <2>1, <2>2, <2>3, Deleting
  <2>5. s.nextId > 2 => reply.store.nextId > 2 /\ reply.store.nextId \in Nat
    BY <1>0, <2>4, StoreSteps DEF IsStore
  <2>6. s.nextId > 2 => 2 \in Deleted(reply.store)
    BY <2>4, <2>5 DEF Deleted
  <2> QED BY <1>8, <2>6 DEF reply, S
<1> QED BY <1>3, <1>4, <1>5, <1>6, <1>7, <1>8

LEMMA ServeKeeps ==
    ASSUME GrpcInv, NEW c \in Callers, Grpc!Serve(c)
    PROVE  GrpcInv' /\ [Grpc!Store!Next]_(Grpc!Store!vars)
<1> DEFINE method == call[c].method
           m == call[c].message
           reply == Reply(store, method, m)
           new == [leg |-> "reply", method |-> method, message |-> reply.message,
                   bytes |-> IF reply.status = "OK"
                             THEN Grpc!Server!Encode(
                                    Grpc!Server!TaskServiceService[method].response, reply.message)
                             ELSE <<>>]
<1>1. call[c].leg = "request"
  BY DEF Grpc!Serve
<1>2. /\ method \in Methods /\ m \in Requests(method)
      /\ call[c].bytes = Grpc!Client!Encode(Grpc!Client!TaskServiceService[method].request, m)
  BY <1>1, IdleHasNoLeg DEF GrpcInv, CallInv
<1>3. Grpc!Server!Decode(Grpc!Server!TaskServiceService[method].request, call[c].bytes) = m
  BY <1>2, MessagesArrive
<1>4. /\ store' = reply.store
      /\ status' = [status EXCEPT ![c] = reply.status]
      /\ call' = [call EXCEPT ![c] = new]
      /\ pc' = pc /\ outcome' = outcome
  BY <1>3 DEF Grpc!Serve, Reply
<1>5. IsStore(store)
  BY DEF GrpcInv
<1>6. /\ new.leg = "reply" /\ new.method = method /\ new.message = reply.message
      /\ reply.status = "OK" =>
           new.bytes = Grpc!Server!Encode(Grpc!Server!TaskServiceService[method].response,
                                          reply.message)
  OBVIOUS
<1> HIDE DEF new, reply, method, m
<1>7. /\ \/ reply.store = store \/ Creates(store, reply.store)
         \/ Changes(store, reply.store) \/ Removes(store, reply.store)
      /\ reply.status = "OK" => reply.message \in Responses(method)
  BY <1>2, <1>5, Handling DEF reply
<1>8. /\ IsStore(store') /\ store'.nextId >= store.nextId
      /\ Deleted(store) \subseteq Deleted(store')
      /\ Creates(store, store') => store'.nextId = store.nextId + 1
  BY <1>4, <1>5, <1>7, StoreSteps
<1>9. DOMAIN call = Callers /\ DOMAIN status = Callers
  BY DEF GrpcInv
<1>10. /\ call'[c] = new /\ status'[c] = reply.status
       /\ DOMAIN call' = Callers /\ DOMAIN status' = Callers
       /\ \A d \in Callers : d # c => call'[d] = call[d] /\ status'[d] = status[d]
  BY <1>4, <1>9
<1>11. CallInv(c)'
  BY <1>2, <1>6, <1>7, <1>10 DEF CallInv
<1>12. ASSUME c \in Clients PROVE ScriptInv(c)'
  <2> DEFINE k == pc[c]
  <2>1. /\ ScriptInv(c) /\ Progress(c) = k
        /\ store.nextId \in Nat \ {0} /\ store'.nextId \in Nat
    BY <1>1, <1>5, <1>8, <1>12, IdleHasNoLeg DEF GrpcInv, Progress, IsStore, IsList
  <2>2. /\ k \in 1 .. 8 /\ outcome[c] = "running"
        /\ method = Grpc!Client!Script[k].method /\ m = Grpc!Client!Script[k].request
    BY <1>1, <2>1, IdleHasNoLeg DEF ScriptInv, method, m
  <2>3. Progress(c)' = k + 1
    BY <1>4, <1>6, <1>10 DEF Progress
  <2> HIDE DEF k
  <2>4. /\ k \in {1, 2} => Creates(store, store') /\ reply.status = "OK"
        /\ k > 2 /\ store.nextId > 2 /\ reply.status # "OK" =>
             {1, 2} \cap Deleted(store') # {}
        /\ k = 7 /\ store.nextId > 2 => 2 \in Deleted(store')
    BY <1>4, <1>5, <2>2, ScriptCalls DEF reply
  <2>5. k > 1 => store.nextId > 1
    BY <2>1 DEF ScriptInv
  <2>6. k > 2 => store.nextId > 2
    BY <2>1 DEF ScriptInv
  <2>7. k > 7 => 2 \in Deleted(store')
    BY <1>8, <2>1 DEF ScriptInv
  <2>8. k + 1 > 1 => store'.nextId > 1
    BY <1>8, <2>1, <2>2, <2>4, <2>5
  <2>9. k + 1 > 2 => store'.nextId > 2
    BY <1>8, <2>1, <2>2, <2>4, <2>5, <2>6
  <2>10. k + 1 > 7 => 2 \in Deleted(store')
    BY <2>2, <2>4, <2>6, <2>7
  <2>11. reply.status # "OK" => {1, 2} \cap Deleted(store') # {}
    BY <2>2, <2>4, <2>6
  <2>12. pc'[c] \in Nat \ {0} /\ pc'[c] <= 8
    BY <1>4, <2>1, <2>2 DEF ScriptInv, k
  <2> HIDE DEF Deleted
  <2> QED BY <1>4, <1>6, <1>10, <2>2, <2>3, <2>8, <2>9, <2>10, <2>11, <2>12 DEF ScriptInv
<1>13. GrpcInv'
  BY <1>4, <1>8, <1>10, <1>11, <1>12, OneCallerSteps DEF GrpcInv
<1>14. [Grpc!Store!Next]_(Grpc!Store!vars)
  <2>1. CASE store' = store
    BY <2>1 DEF Grpc!Store!vars, Grpc!Held, Grpc!Server!Ids, Grpc!Server!Find
  <2> QED BY <1>4, <1>5, <1>7, <2>1, HandlerIsStoreStep
<1> QED BY <1>13, <1>14

LEMMA GrpcStep ==
    ASSUME GrpcInv, [Grpc!Next]_(Grpc!vars)
    PROVE  GrpcInv' /\ [Grpc!Store!Next]_(Grpc!Store!vars)
<1>1. CASE UNCHANGED Grpc!vars
  <2>1. /\ store' = store /\ pc' = pc /\ outcome' = outcome /\ call' = call /\ status' = status
    BY <1>1 DEF Grpc!vars
  <2> QED BY <2>1 DEF GrpcInv, CallInv, ScriptInv, Progress, Grpc!Store!vars, Grpc!Held,
                      Grpc!Server!Ids, Grpc!Server!Find
<1>2. ASSUME NEW c \in Clients, Grpc!Promisify(c)
      PROVE  GrpcInv' /\ UNCHANGED Grpc!Store!vars
  <2> DEFINE k == pc[c]
  <2>1. /\ outcome[c] = "running" /\ k \in 1 .. 8
        /\ Grpc!Send(c, Grpc!Client!Script[k].method, Grpc!Client!Script[k].request)
    <3>1. pc[c] \in Nat \ {0}
      BY DEF GrpcInv, ScriptInv
    <3> QED BY <1>2, <3>1, SentIsRequest DEF Grpc!Promisify
  <2>2. /\ Grpc!Client!Script[k].method \in Methods
        /\ Grpc!Client!Script[k].request \in Requests(Grpc!Client!Script[k].method)
    BY <2>1, SentIsRequest
  <2>3. c \in Callers /\ pc[c] <= 8
    BY <2>1 DEF Callers
  <2> QED BY <2>1, <2>2, <2>3, SendKeeps
<1>3. ASSUME NEW g \in Guests, Grpc!GuestSend(g)
      PROVE  GrpcInv' /\ UNCHANGED Grpc!Store!vars
  <2>1. PICK called \in SomeCalls : Grpc!Send(g, called.method, called.request)
    BY <1>3 DEF Grpc!GuestSend
  <2>2. called.method \in Methods /\ called.request \in Requests(called.method)
    BY SentIsRequest
  <2>3. g \in Callers /\ g \notin Clients
    BY CallersAssumption DEF Callers
  <2> QED BY <2>1, <2>2, <2>3, SendKeeps
<1>4. Grpc!Callers = Callers
  BY DEF Grpc!Callers, Callers
<1> QED BY <1>1, <1>2, <1>3, <1>4, ServeKeeps, ReceiveKeeps, UnavailableKeeps DEF Grpc!Next

LEMMA GrpcStarts ==
    ASSUME Grpc!Init
    PROVE  GrpcInv /\ Grpc!Store!Init
<1>1. /\ store = [tasks |-> <<>>, nextId |-> 1]
      /\ pc = [c \in Callers |-> 1] /\ outcome = [c \in Callers |-> "running"]
      /\ call = [c \in Callers |-> Grpc!Idle] /\ status = [c \in Callers |-> "OK"]
  BY DEF Grpc!Init, Grpc!Server!Empty, Grpc!Callers, Callers
<1>2. IsStore(store) /\ IdsIn(store.tasks) = {}
  BY <1>1, ListStarts DEF IsStore
<1>3. \A c \in Clients : c \in Callers
  BY DEF Callers
<1>4. \A c \in Callers : CallInv(c)
  BY <1>1 DEF CallInv
<1>5. \A c \in Clients : ScriptInv(c)
  BY <1>1, <1>3, IdleHasNoLeg DEF ScriptInv, Progress
<1>6. Grpc!Store!Init
  <2>1. FullShown(store.tasks) = <<>>
    BY <1>2 DEF FullShown
  <2> QED BY <1>1, <2>1, GrpcHeld DEF Grpc!Store!Init
<1> QED BY <1>1, <1>2, <1>4, <1>5, <1>6 DEF GrpcInv

LEMMA GrpcSpecServes == Grpc!Spec => Grpc!CallsServeAStore
<1>1. GrpcInv /\ [Grpc!Next]_(Grpc!vars)
        => GrpcInv' /\ [Grpc!Store!Next]_(Grpc!Store!vars)
  BY GrpcStep
<1> QED BY <1>1, GrpcStarts, PTL DEF Grpc!Spec, Grpc!CallsServeAStore, Grpc!Store!Spec

LEMMA GrpcInvIsKept == Grpc!Spec => []GrpcInv
<1>1. GrpcInv /\ [Grpc!Next]_(Grpc!vars) => GrpcInv'
  BY GrpcStep
<1> QED BY <1>1, GrpcStarts, PTL DEF Grpc!Spec

\* What is decoded is what was encoded, on the way to the server and on the way
\* back, whatever fields a call leaves at their defaults (generated/tasks.ts).
THEOREM WireKeepsMessages == Grpc!Spec => []Grpc!SameAfterTheWire
<1>1. ASSUME GrpcInv PROVE Grpc!SameAfterTheWire
  <2>1. ASSUME NEW c \in Callers, call[c].leg = "request"
        PROVE  Grpc!Server!Decode(Grpc!Server!TaskServiceService[call[c].method].request,
                                  call[c].bytes) = call[c].message
    BY <1>1, <2>1, IdleHasNoLeg, MessagesArrive DEF GrpcInv, CallInv
  <2>2. ASSUME NEW c \in Callers, call[c].leg = "reply", status[c] = "OK"
        PROVE  Grpc!Client!Decode(Grpc!Client!TaskServiceService[call[c].method].response,
                                  call[c].bytes) = call[c].message
    BY <1>1, <2>2, IdleHasNoLeg, MessagesArrive DEF GrpcInv, CallInv
  <2> QED BY <2>1, <2>2 DEF Grpc!SameAfterTheWire, Grpc!Callers, Callers
<1> QED BY <1>1, GrpcInvIsKept, PTL

\* A script is rejected only when task 1 or task 2, which its calls name, has
\* been deleted by then, and one that ends well leaves no task 2, whatever the
\* other clients and the guests call (client/src/index.ts).
THEOREM OnlyDeletedReject == Grpc!Spec => []RejectedForDeleted
<1>1. ASSUME GrpcInv PROVE RejectedForDeleted
  <2>1. (1 .. store.nextId - 1) \ Grpc!Server!Ids(store) = Deleted(store)
    BY ServerTerms DEF Deleted
  <2>2. \A c \in Clients : /\ outcome[c] = "rejected" => {1, 2} \cap Deleted(store) # {}
                           /\ outcome[c] = "done" => 2 \in Deleted(store)
    BY <1>1 DEF GrpcInv, ScriptInv
  <2> HIDE DEF Deleted
  <2> QED BY <2>1, <2>2 DEF RejectedForDeleted, Grpc!RejectedForDeleted
<1> QED BY <1>1, GrpcInvIsKept, PTL

\* The servers of REST, JSON-RPC and GraphQL, the board and the gRPC service each
\* implement the task store: what a request does to the tasks is a step of the
\* store, or nothing, and no id is handed out twice (the store of each server).
THEOREM AllServeAStore == Styles!Spec /\ Board!Spec /\ Grpc!Spec => EveryServerIsAStore
BY StylesSpecServes, BoardSpecServes, GrpcSpecServes, PTL DEF EveryServerIsAStore

=============================================================================
