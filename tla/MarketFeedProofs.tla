-------------------------- MODULE MarketFeedProofs --------------------------
(***************************************************************************)
(* Proofs about MarketFeed, for any files, timeframes, readers and gaps:   *)
(* what a chart may show, what a window keeps of its feed, and what an     *)
(* ingest leaves behind.  The first half speaks of sets of rows and of     *)
(* views of them alone; the second of the steps that hand them around.     *)
(***************************************************************************)
EXTENDS MarketFeed, FiniteSetTheorems, WellFoundedInduction, TLAPS

USE FeedAssumption

----------------------------------------------------------------------------
(* Arithmetic of buckets. *)

\* The multiple of d at or before n, and less than d before it.
LEMMA Multiple ==
    ASSUME NEW n \in Nat, NEW d \in Nat \ {0}
    PROVE  /\ n \div d \in Nat
           /\ (n \div d) * d \in Nat
           /\ (n \div d) * d <= n
           /\ n < (n \div d) * d + d
OBVIOUS

\* Two multiples less than d apart are in order.
LEMMA MultiplesApart ==
    ASSUME NEW p \in Nat, NEW q \in Nat, NEW d \in Nat \ {0}, p * d < q * d + d
    PROVE  p <= q
OBVIOUS

LEMMA MultipleMonotone ==
    ASSUME NEW p \in Nat, NEW q \in Nat, NEW d \in Nat \ {0}, p <= q
    PROVE  p * d <= q * d
OBVIOUS

LEMMA MultipleOnce ==
    ASSUME NEW p \in Nat, NEW d \in Nat \ {0}
    PROVE  (p * d) \div d = p
OBVIOUS

----------------------------------------------------------------------------

Smaller == {ss \in Nat \X Nat : ss[1] < ss[2]}

LEMMA SmallerWellFounded == IsWellFoundedOn(Smaller, Nat)
BY NatLessThanWellFounded, Zenon DEF OpToRel, Smaller

LEMMA LeastExists ==
    ASSUME NEW S \in SUBSET Nat, S # {}
    PROVE  \E x \in S : \A y \in S : x <= y
<1>1. PICK x \in S : \A y \in S : <<y, x>> \notin Smaller
  BY WFMin, SmallerWellFounded
<1>2. \A y \in S : ~(y < x)
  BY <1>1 DEF Smaller
<1> QED  BY <1>2

----------------------------------------------------------------------------
(* Rows and what is rolled up from them. *)

\* A bar opens on its timeframe's grid and sums up minutes of its own interval.
Bars == [tf : Nat \ {0}, at : Minutes, of : SUBSET Nat]

Sound(x) ==
    /\ x \in Bars
    /\ Bucket(x, x.tf) = x.at
    /\ x.of \subseteq x.at .. x.at + x.tf - 1

Keyed(rows) == \A x, y \in rows : x.at = y.at => x = y

Listing(rows, base) ==
    /\ base \in Nat \ {0}
    /\ \A x \in rows : Sound(x) /\ x.tf = base
    /\ Keyed(rows)

\* Rows of one timeframe are finitely many: each has a minute of its own to open at.
LEMMA KeyedFinite ==
    ASSUME NEW rows, Keyed(rows), \A x \in rows : x.at \in Minutes
    PROVE  IsFiniteSet(rows)
<1> DEFINE f == [x \in rows |-> x.at]
<1>1. f \in Injection(rows, Minutes)
  BY DEF Keyed, Injection, IsInjective
<1>2. IsFiniteSet(Minutes)
  BY FS_Interval DEF Minutes
<1> QED  BY <1>1, <1>2, FS_Injection

LEMMA LeastRow ==
    ASSUME NEW rows, rows # {}, \A x \in rows : x.at \in Nat
    PROVE  \E x \in rows : \A y \in rows : x.at <= y.at
<1> DEFINE S == {x.at : x \in rows}
<1>1. S \in SUBSET Nat /\ S # {}
  OBVIOUS
<1>2. PICK a \in S : \A b \in S : a <= b
  BY <1>1, LeastExists
<1> QED  BY <1>2

LEMMA GreatestRow ==
    ASSUME NEW rows, rows # {}, \A x \in rows : x.at \in Minutes
    PROVE  \E x \in rows : \A y \in rows : y.at <= x.at
<1> DEFINE S == {Horizon - x.at : x \in rows}
<1>1. S \in SUBSET Nat /\ S # {}
  BY DEF Minutes
<1>2. PICK a \in S : \A b \in S : a <= b
  BY <1>1, LeastExists
<1>3. PICK x \in rows : a = Horizon - x.at
  BY <1>2
<1>4. \A y \in rows : Horizon - x.at <= Horizon - y.at
  BY <1>2, <1>3
<1>5. ASSUME NEW y \in rows
      PROVE  y.at <= x.at
  <2>1. Horizon - x.at <= Horizon - y.at
    BY <1>4
  <2>2. x.at \in Int /\ y.at \in Int
    BY DEF Minutes
  <2> QED  BY <2>1, <2>2
<1> QED  BY <1>5

LEMMA NewestIs ==
    ASSUME NEW rows, rows # {}, \A x \in rows : x.at \in Minutes
    PROVE  /\ Newest(rows) \in rows
           /\ \A y \in rows : y.at <= Newest(rows).at
BY GreatestRow, Zenon DEF Newest

\* The bucket of a row: on the view's grid, at or before the row.
LEMMA BucketIs ==
    ASSUME NEW x, x.at \in Nat, NEW tf \in Nat \ {0}
    PROVE  /\ Bucket(x, tf) \in Nat
           /\ Bucket(x, tf) <= x.at
           /\ x.at < Bucket(x, tf) + tf
           /\ \E p \in Nat : Bucket(x, tf) = p * tf
BY Multiple DEF Bucket

LEMMA BucketMonotone ==
    ASSUME NEW x, NEW y, x.at \in Nat, y.at \in Nat, NEW tf \in Nat \ {0}, x.at <= y.at
    PROVE  Bucket(x, tf) <= Bucket(y, tf)
<1>1. PICK p \in Nat : Bucket(x, tf) = p * tf
  BY BucketIs
<1>2. PICK q \in Nat : Bucket(y, tf) = q * tf
  BY BucketIs
<1>3. p * tf < q * tf + tf
  <2>1. Bucket(x, tf) \in Nat /\ Bucket(x, tf) <= x.at
    BY BucketIs
  <2>2. Bucket(y, tf) \in Nat /\ y.at < Bucket(y, tf) + tf
    BY BucketIs
  <2>3. Bucket(x, tf) < Bucket(y, tf) + tf
    BY <2>1, <2>2
  <2> QED  BY <1>1, <1>2, <2>3
<1>4. p <= q
  BY <1>3, MultiplesApart
<1> QED  BY <1>1, <1>2, <1>4, MultipleMonotone

\* Rows of one timeframe less than an interval apart are in order.
LEMMA RowsApart ==
    ASSUME NEW rows, NEW base, Listing(rows, base), NEW x \in rows, NEW y \in rows,
           x.at < y.at + base
    PROVE  x.at <= y.at
<1>1. /\ x.at \in Nat /\ y.at \in Nat /\ base \in Nat \ {0}
      /\ Bucket(x, base) = x.at /\ Bucket(y, base) = y.at
  BY DEF Listing, Sound, Bars, Minutes
<1>2. PICK p \in Nat : x.at = p * base
  BY <1>1, BucketIs
<1>3. PICK q \in Nat : y.at = q * base
  BY <1>1, BucketIs
<1>4. p <= q
  BY <1>1, <1>2, <1>3, MultiplesApart
<1> QED  BY <1>1, <1>2, <1>3, <1>4, MultipleMonotone

InBucket(rows, tf, b) == {y \in rows : Bucket(y, tf) = b}
RolledBar(rows, tf, b) == Bar(tf, b, UNION {x.of : x \in InBucket(rows, tf, b)})

\* A rolled-up bar is the one of a bucket some row is in.
LEMMA RolledIs ==
    ASSUME NEW rows, NEW tf
    PROVE  /\ \A x \in rows : RolledBar(rows, tf, Bucket(x, tf)) \in Rolled(rows, tf)
           /\ \A z \in Rolled(rows, tf) : \E x \in rows :
                  z.at = Bucket(x, tf) /\ z = RolledBar(rows, tf, Bucket(x, tf))
           /\ Keyed(Rolled(rows, tf))
<1>1. Rolled(rows, tf) = {RolledBar(rows, tf, b) : b \in {Bucket(x, tf) : x \in rows}}
  BY Zenon DEF Rolled, RolledBar, InBucket
<1>2. \A b : RolledBar(rows, tf, b).at = b
  BY DEF RolledBar, Bar
<1> QED  BY <1>1, <1>2 DEF Keyed

\* Minutes and bars rolled up from sound rows of one timeframe are sound.
LEMMA RolledSound ==
    ASSUME NEW rows, Listing(rows, 1), NEW tf \in Nat \ {0}
    PROVE  Listing(Rolled(rows, tf), tf)
<1>1. Keyed(Rolled(rows, tf))
  BY RolledIs
<1>2. ASSUME NEW z \in Rolled(rows, tf)
      PROVE  Sound(z) /\ z.tf = tf
  <2>1. PICK x \in rows : z = RolledBar(rows, tf, Bucket(x, tf))
    BY RolledIs
  <2>2. PICK b : b = Bucket(x, tf)
    OBVIOUS
  <2>3. /\ z.tf = tf /\ z.at = b
        /\ z.of = UNION {y.of : y \in InBucket(rows, tf, b)}
    BY <2>1, <2>2 DEF RolledBar, Bar
  <2>4. x.at \in Minutes
    BY DEF Listing, Sound, Bars
  <2>5. z.at \in Minutes
    BY <2>2, <2>3, <2>4, BucketIs DEF Minutes
  <2>6. PICK p \in Nat : b = p * tf
    <3>1. x.at \in Nat
      BY <2>4 DEF Minutes
    <3> QED  BY <2>2, <3>1, BucketIs
  <2>7. Bucket(z, tf) = b
    BY <2>3, <2>6, MultipleOnce DEF Bucket
  <2>8. ASSUME NEW y \in InBucket(rows, tf, b)
        PROVE  y.of \subseteq b .. b + tf - 1
    <3>1. y \in rows /\ Bucket(y, tf) = b
      BY <2>8 DEF InBucket
    <3>2. y.at \in Nat /\ y.of \subseteq y.at .. y.at
      BY <3>1 DEF Listing, Sound, Bars, Minutes
    <3>3. b \in Nat /\ b <= y.at /\ y.at < b + tf
      BY <3>1, <3>2, BucketIs
    <3> QED  BY <3>2, <3>3
  <2>9. z \in Bars
    <3>1. b \in Nat
      BY <2>3, <2>5 DEF Minutes
    <3>2. z.of \subseteq Nat
      BY <2>3, <2>8, <3>1
    <3>3. z = [tf |-> tf, at |-> b, of |-> z.of]
      BY <2>1, <2>2 DEF RolledBar, Bar
    <3> QED  BY <2>3, <2>5, <3>2, <3>3 DEF Bars
  <2> QED  BY <2>3, <2>5, <2>7, <2>8, <2>9 DEF Sound
<1> QED  BY <1>1, <1>2 DEF Listing

LEMMA MinutesSound ==
    ASSUME NEW file \in SUBSET Minutes
    PROVE  Listing({Minute(m) : m \in file}, 1)
<1>1. ASSUME NEW m \in file
      PROVE  Sound(Minute(m)) /\ Minute(m).tf = 1 /\ Minute(m).at = m
  <2>1. /\ Minute(m).tf = 1 /\ Minute(m).at = m /\ Minute(m).of = {m}
        /\ m \in Nat /\ m \in Minutes
    BY DEF Minute, Bar, Minutes
  <2>2. Bucket(Minute(m), 1) = m
    BY <2>1, MultipleOnce DEF Bucket
  <2>3. Minute(m) \in Bars
    BY <2>1 DEF Minute, Bar, Bars
  <2> QED  BY <2>1, <2>2, <2>3 DEF Sound
<1> QED  BY <1>1 DEF Listing, Keyed

----------------------------------------------------------------------------
(* Positions in a listing. *)

Before(rows, at) == {y \in rows : y.at < at}

\* A row further back has no higher position.
LEMMA IndexOrder ==
    ASSUME NEW rows, NEW base, Listing(rows, base), NEW x \in rows, NEW y \in rows,
           x.at <= y.at
    PROVE  Index(x, rows) \in Nat /\ Index(x, rows) <= Index(y, rows)
<1>1. \A z \in rows : z.at \in Int
  BY DEF Listing, Sound, Bars, Minutes
<1>2. Before(rows, x.at) \subseteq Before(rows, y.at)
  BY <1>1 DEF Before
<1>3. IsFiniteSet(rows)
  BY KeyedFinite DEF Listing, Sound, Bars
<1>4. IsFiniteSet(Before(rows, y.at))
  BY <1>3, FS_Subset DEF Before
<1>5. /\ IsFiniteSet(Before(rows, x.at))
      /\ Cardinality(Before(rows, x.at)) <= Cardinality(Before(rows, y.at))
  BY <1>2, <1>4, FS_Subset
<1> QED  BY <1>5, FS_CardinalityType DEF Index, Before

\* What is revealed is a first part of the listing.
LEMMA RevealedIsPrefix ==
    ASSUME NEW rows, NEW base, Listing(rows, base), NEW e \in Nat,
           NEW y \in Revealed(rows, e), NEW x \in rows, x.at <= y.at
    PROVE  x \in Revealed(rows, e)
<1>1. y \in rows /\ Index(y, rows) <= e
  BY DEF Revealed
<1>2. Index(x, rows) \in Nat /\ Index(x, rows) <= Index(y, rows) /\ Index(y, rows) \in Nat
  <2>1. y.at <= y.at
    BY <1>1 DEF Listing, Sound, Bars, Minutes
  <2> QED  BY <1>1, <2>1, IndexOrder
<1> QED  BY <1>1, <1>2 DEF Revealed

LEMMA RevealedGrows ==
    ASSUME NEW rows, NEW base, Listing(rows, base), NEW e \in Nat, NEW f \in Nat, e <= f
    PROVE  Revealed(rows, e) \subseteq Revealed(rows, f)
<1> SUFFICES ASSUME NEW x \in Revealed(rows, e) PROVE x \in Revealed(rows, f)
  OBVIOUS
<1>1. x \in rows /\ Index(x, rows) <= e
  BY DEF Revealed
<1>2. Index(x, rows) \in Nat
  <2>1. x.at <= x.at
    BY <1>1 DEF Listing, Sound, Bars, Minutes
  <2> QED  BY <1>1, <2>1, IndexOrder
<1> QED  BY <1>1, <1>2 DEF Revealed

LEMMA PartOfListing ==
    ASSUME NEW rows, NEW base, Listing(rows, base), NEW part, part \subseteq rows
    PROVE  Listing(part, base)
BY DEF Listing, Keyed

----------------------------------------------------------------------------
(* What a view shows, over a feed of the given timeframe. *)

Forms(x, rows, tf, base) ==
    tf # base /\ Partial(rows, tf) /\ x = Newest(Rolled(rows, tf))

ViewOver(rows, tf, base) ==
    {[index |-> Index(x, Rolled(rows, tf)), bar |-> x, forming |-> Forms(x, rows, tf, base)] :
        x \in Rolled(rows, tf)}

LEMMA ViewIs ==
    ASSUME NEW rows, NEW tf
    PROVE  View(rows, tf) = ViewOver(rows, tf, feed.base)
BY Zenon DEF View, ViewOver, Forms

\* The newest bar of a view is the one of the newest row's bucket.
LEMMA NewestBucket ==
    ASSUME NEW rows, NEW base, Listing(rows, base), rows # {}, NEW tf \in Nat \ {0}
    PROVE  Newest(Rolled(rows, tf)) = RolledBar(rows, tf, Bucket(Newest(rows), tf))
<1> DEFINE last == Newest(rows)
           newest == Newest(Rolled(rows, tf))
<1>1. \A x \in rows : x.at \in Minutes /\ x.at \in Nat
  BY DEF Listing, Sound, Bars, Minutes
<1>2. last \in rows /\ \A y \in rows : y.at <= last.at
  BY <1>1, NewestIs
<1>3. RolledBar(rows, tf, Bucket(last, tf)) \in Rolled(rows, tf)
  BY <1>2, RolledIs
<1>4. \A z \in Rolled(rows, tf) : z.at \in Minutes
  <2> TAKE z \in Rolled(rows, tf)
  <2>1. PICK x \in rows : z.at = Bucket(x, tf)
    BY RolledIs
  <2>2. z.at \in Nat /\ z.at <= x.at
    BY <1>1, <2>1, BucketIs
  <2> QED  BY <1>1, <2>2 DEF Minutes
<1>5. newest \in Rolled(rows, tf) /\ \A z \in Rolled(rows, tf) : z.at <= newest.at
  BY <1>3, <1>4, NewestIs
<1>6. PICK x \in rows : newest.at = Bucket(x, tf) /\ newest = RolledBar(rows, tf, Bucket(x, tf))
  BY <1>5, RolledIs
<1>7. Bucket(last, tf) <= Bucket(x, tf)
  BY <1>3, <1>5, <1>6 DEF RolledBar, Bar
<1>8. Bucket(x, tf) <= Bucket(last, tf)
  BY <1>1, <1>2, <1>6, BucketMonotone
<1>9. Bucket(x, tf) = Bucket(last, tf)
  <2>1. Bucket(x, tf) \in Nat
    BY <1>1, BucketIs
  <2>2. Bucket(last, tf) \in Nat
    BY <1>1, <1>2, BucketIs
  <2> HIDE DEF last
  <2> QED  BY <1>7, <1>8, <2>1, <2>2
<1> QED  BY <1>6, <1>9

\* The buckets before one somebody has released a row of are released whole.
LEMMA EarlierBuckets ==
    ASSUME NEW rows, NEW base, Listing(rows, base), NEW e \in Nat, NEW tf \in Nat \ {0},
           NEW y \in Revealed(rows, e), NEW x \in rows, Bucket(x, tf) < Bucket(y, tf)
    PROVE  x \in Revealed(rows, e)
<1>1. y \in rows
  BY DEF Revealed
<1>2. x.at \in Nat /\ y.at \in Nat
  BY <1>1 DEF Listing, Sound, Bars, Minutes
<1>3. Bucket(x, tf) \in Nat /\ Bucket(y, tf) \in Nat
  BY <1>2, BucketIs
<1>4. ~(y.at <= x.at)
  <2> SUFFICES ASSUME y.at <= x.at PROVE FALSE
    OBVIOUS
  <2>1. Bucket(y, tf) <= Bucket(x, tf)
    BY <1>2, BucketMonotone
  <2> QED  BY <1>3, <2>1
<1> QED  BY <1>1, <1>2, <1>4, RevealedIsPrefix

\* A bar of a view is the one of a bucket with a row in it.
LEMMA ShownIs ==
    ASSUME NEW rows, NEW tf, NEW base, NEW v \in ViewOver(rows, tf, base)
    PROVE  \E y \in rows :
              /\ v.bar \in Rolled(rows, tf)
              /\ v.bar.at = Bucket(y, tf)
              /\ v.bar = RolledBar(rows, tf, v.bar.at)
              /\ v = [index |-> Index(v.bar, Rolled(rows, tf)), bar |-> v.bar,
                      forming |-> Forms(v.bar, rows, tf, base)]
<1>1. PICK z \in Rolled(rows, tf) :
        v = [index |-> Index(z, Rolled(rows, tf)), bar |-> z, forming |-> Forms(z, rows, tf, base)]
  BY Zenon DEF ViewOver
<1>2. PICK y \in rows : z.at = Bucket(y, tf) /\ z = RolledBar(rows, tf, Bucket(y, tf))
  BY RolledIs
<1>3. v.bar = z
  BY <1>1
<1> QED  BY <1>1, <1>2, <1>3, Zenon

\* The bucket of a bar drawn as closed is released whole.
LEMMA ClosedIsCovered ==
    ASSUME NEW rows, NEW base, Listing(rows, base), NEW e \in Nat, NEW tf \in Nat \ {0},
           NEW v \in ViewOver(Revealed(rows, e), tf, base), ~v.forming,
           NEW x \in rows, Bucket(x, tf) = v.bar.at
    PROVE  x \in Revealed(rows, e)
<1> DEFINE P == Revealed(rows, e)
           last == Newest(P)
<1>1. PICK y \in P : /\ v.bar \in Rolled(P, tf)
                     /\ v.bar.at = Bucket(y, tf)
                     /\ v = [index |-> Index(v.bar, Rolled(P, tf)), bar |-> v.bar,
                             forming |-> Forms(v.bar, P, tf, base)]
  BY ShownIs
<1>2. P \subseteq rows /\ Listing(P, base)
  BY PartOfListing DEF Revealed
<1>3. \A z \in rows : z.at \in Minutes /\ z.at \in Nat /\ z.tf = base /\ Bucket(z, base) = z.at
  BY DEF Listing, Sound, Bars, Minutes
<1>4. last \in P /\ \A z \in P : z.at <= last.at
  BY <1>1, <1>2, <1>3, NewestIs
<1>5. ~Forms(v.bar, P, tf, base)
  BY <1>1
<1>6. Bucket(y, tf) \in Nat /\ Bucket(last, tf) \in Nat
  BY <1>2, <1>3, <1>4, BucketIs
<1>7. Bucket(y, tf) <= Bucket(last, tf)
  BY <1>2, <1>3, <1>4, BucketMonotone
<1>8. CASE tf = base
  <2>1. x.at = y.at
    BY <1>1, <1>2, <1>3, <1>8
  <2> QED  BY <1>2, <2>1 DEF Listing, Keyed
<1>9. CASE v.bar # Newest(Rolled(P, tf))
  <2>1. Newest(Rolled(P, tf)) = RolledBar(P, tf, Bucket(last, tf))
    BY <1>1, <1>2, NewestBucket
  <2>2. RolledBar(P, tf, Bucket(last, tf)) \in Rolled(P, tf)
    BY <1>4, RolledIs
  <2>3. RolledBar(P, tf, Bucket(last, tf)).at = Bucket(last, tf)
    BY DEF RolledBar, Bar
  <2>4. Keyed(Rolled(P, tf))
    BY RolledIs
  <2>5. v.bar.at # Bucket(last, tf)
    BY <1>1, <1>9, <2>1, <2>2, <2>3, <2>4, Zenon DEF Keyed
  <2>6. Bucket(x, tf) < Bucket(last, tf)
    BY <1>1, <1>6, <1>7, <2>5
  <2> QED  BY <1>4, <2>6, EarlierBuckets
<1>10. CASE ~Partial(P, tf)
  <2>1. last.tf = base /\ last.at \in Nat /\ x.at \in Nat /\ base \in Nat
    BY <1>2, <1>3, <1>4 DEF Listing
  <2>2. ~(last.at + base < Bucket(last, tf) + tf)
    BY <1>10, <2>1 DEF Partial
  <2>3. x.at < Bucket(x, tf) + tf
    BY <2>1, BucketIs
  <2>4. x.at < last.at + base
    BY <1>1, <1>6, <1>7, <2>1, <2>2, <2>3, SMTT(40)
  <2>5. x.at <= last.at
    BY <1>2, <1>4, <2>4, RowsApart
  <2> QED  BY <1>4, <2>5, RevealedIsPrefix
<1> QED  BY <1>5, <1>8, <1>9, <1>10 DEF Forms

\* So it sums up all of its bucket,
LEMMA ClosedSumsUp ==
    ASSUME NEW rows, NEW base, Listing(rows, base), NEW e \in Nat, NEW tf \in Nat \ {0},
           NEW v \in ViewOver(Revealed(rows, e), tf, base), ~v.forming,
           NEW x \in rows, Bucket(x, tf) = v.bar.at
    PROVE  x.of \subseteq v.bar.of
<1>1. v.bar = RolledBar(Revealed(rows, e), tf, v.bar.at)
  BY ShownIs
<1>2. x \in InBucket(Revealed(rows, e), tf, v.bar.at)
  BY ClosedIsCovered DEF InBucket
<1>3. PICK b : b = v.bar.at
  OBVIOUS
<1>4. v.bar.of = UNION {y.of : y \in InBucket(Revealed(rows, e), tf, b)}
  BY <1>1, <1>3 DEF RolledBar, Bar
<1> QED  BY <1>2, <1>3, <1>4

\* and a later edge draws the same bar at the same index, closed.
LEMMA ClosedStays ==
    ASSUME NEW rows, NEW base, Listing(rows, base), NEW e \in Nat, NEW f \in Nat, e <= f,
           NEW tf \in Nat \ {0},
           NEW v \in ViewOver(Revealed(rows, e), tf, base), ~v.forming
    PROVE  v \in ViewOver(Revealed(rows, f), tf, base)
<1> DEFINE P == Revealed(rows, e)
           Q == Revealed(rows, f)
           b == v.bar.at
<1>1. PICK y \in P : /\ v.bar \in Rolled(P, tf)
                     /\ b = Bucket(y, tf)
                     /\ v.bar = RolledBar(P, tf, b)
                     /\ v = [index |-> Index(v.bar, Rolled(P, tf)), bar |-> v.bar,
                             forming |-> Forms(v.bar, P, tf, base)]
  BY ShownIs
<1>2. P \subseteq Q /\ Q \subseteq rows /\ Listing(P, base) /\ Listing(Q, base)
  BY RevealedGrows, PartOfListing DEF Revealed
<1>3. \A z \in rows : z.at \in Minutes /\ z.at \in Nat /\ z.tf = base
  BY DEF Listing, Sound, Bars, Minutes
<1>4. InBucket(P, tf, b) = InBucket(Q, tf, b)
  <2>1. \A x \in rows : Bucket(x, tf) = b => x \in P
    BY ClosedIsCovered
  <2> HIDE DEF P, Q, b
  <2> QED  BY <1>2, <2>1 DEF InBucket
<1>5. v.bar = RolledBar(Q, tf, b) /\ v.bar \in Rolled(Q, tf)
  <2>1. RolledBar(P, tf, b) = RolledBar(Q, tf, b)
    BY <1>4, Zenon DEF RolledBar
  <2>2. RolledBar(Q, tf, Bucket(y, tf)) \in Rolled(Q, tf)
    BY <1>2, RolledIs
  <2> QED  BY <1>1, <2>1, <2>2
<1>6. Index(v.bar, Rolled(P, tf)) = Index(v.bar, Rolled(Q, tf))
  <2>1. ASSUME NEW x \in Q, Bucket(x, tf) < b
        PROVE  x \in P /\ RolledBar(P, tf, Bucket(x, tf)) = RolledBar(Q, tf, Bucket(x, tf))
    <3>1. \A z \in rows : Bucket(z, tf) = Bucket(x, tf) => z \in P
      BY <1>1, <2>1, EarlierBuckets
    <3>2. InBucket(P, tf, Bucket(x, tf)) = InBucket(Q, tf, Bucket(x, tf))
      <4> HIDE DEF P, Q, b
      <4> QED  BY <1>2, <3>1 DEF InBucket
    <3> QED  BY <1>2, <3>1, <3>2, Zenon DEF RolledBar
  <2>2. \A z : z \in Before(Rolled(P, tf), b) <=> z \in Before(Rolled(Q, tf), b)
    <3>1. ASSUME NEW z \in Rolled(P, tf), z.at < b
          PROVE  z \in Rolled(Q, tf)
      <4>1. PICK x \in P : z.at = Bucket(x, tf) /\ z = RolledBar(P, tf, Bucket(x, tf))
        BY RolledIs
      <4>2. z = RolledBar(Q, tf, Bucket(x, tf))
        BY <1>2, <2>1, <3>1, <4>1
      <4>3. RolledBar(Q, tf, Bucket(x, tf)) \in Rolled(Q, tf)
        BY <1>2, RolledIs
      <4> QED  BY <4>2, <4>3
    <3>2. ASSUME NEW z \in Rolled(Q, tf), z.at < b
          PROVE  z \in Rolled(P, tf)
      <4>1. PICK x \in Q : z.at = Bucket(x, tf) /\ z = RolledBar(Q, tf, Bucket(x, tf))
        BY RolledIs
      <4>2. x \in P /\ z = RolledBar(P, tf, Bucket(x, tf))
        BY <2>1, <3>2, <4>1
      <4>3. RolledBar(P, tf, Bucket(x, tf)) \in Rolled(P, tf)
        BY <4>2, RolledIs
      <4> QED  BY <4>2, <4>3
    <3> HIDE DEF P, Q, b
    <3> QED  BY <3>1, <3>2 DEF Before
  <2>3. Before(Rolled(P, tf), b) = Before(Rolled(Q, tf), b)
    BY <2>2
  <2> QED  BY <2>3, Zenon DEF Index, Before
<1>7. ~Forms(v.bar, P, tf, base)
  BY <1>1
<1>8. ~Forms(v.bar, Q, tf, base)
  <2> SUFFICES ASSUME tf # base, Partial(Q, tf), v.bar = Newest(Rolled(Q, tf)) PROVE FALSE
    BY DEF Forms
  <2> DEFINE last == Newest(Q)
  <2>1. y \in Q
    BY <1>2
  <2>2. last \in Q /\ \A z \in Q : z.at <= last.at
    BY <1>2, <1>3, <2>1, NewestIs
  <2>3. Bucket(last, tf) = b
    <3>1. v.bar = RolledBar(Q, tf, Bucket(last, tf))
      BY <1>2, <2>1, NewestBucket
    <3>2. RolledBar(Q, tf, Bucket(last, tf)).at = Bucket(last, tf)
      BY DEF RolledBar, Bar
    <3> QED  BY <3>1, <3>2
  <2>4. last \in P
    BY <1>2, <2>2, <2>3, ClosedIsCovered
  <2>5. Newest(P) = last
    <3>1. Newest(P) \in P /\ \A z \in P : z.at <= Newest(P).at
      BY <1>1, <1>2, <1>3, NewestIs
    <3>2. Newest(P).at = last.at
      <4>1. Newest(P).at \in Nat /\ last.at \in Nat
        BY <1>2, <1>3, <2>2, <3>1
      <4>2. Newest(P).at <= last.at /\ last.at <= Newest(P).at
        BY <1>2, <2>2, <2>4, <3>1
      <4> HIDE DEF last, P, Q
      <4> QED  BY <4>1, <4>2
    <3> QED  BY <1>2, <2>4, <3>1, <3>2 DEF Listing, Keyed
  <2>6. Partial(P, tf)
    BY <2>5, Zenon DEF Partial
  <2>7. v.bar = Newest(Rolled(P, tf))
    <3>1. Newest(Rolled(P, tf)) = RolledBar(P, tf, Bucket(last, tf))
      BY <1>1, <1>2, <2>5, NewestBucket
    <3> QED  BY <1>1, <2>3, <3>1
  <2> QED  BY <1>7, <2>6, <2>7 DEF Forms
<1>9. Forms(v.bar, P, tf, base) = Forms(v.bar, Q, tf, base)
  BY <1>7, <1>8 DEF Forms
<1>10. v = [index |-> Index(v.bar, Rolled(Q, tf)), bar |-> v.bar,
            forming |-> Forms(v.bar, Q, tf, base)]
  BY <1>1, <1>6, <1>9, Zenon
<1> QED  BY <1>5, <1>10, Zenon DEF ViewOver

\* However many rows a window has besides those the builder saw, nothing drawn up to an
\* edge reaches past the builder's row at that edge.
LEMMA ShownBeforeEdge ==
    ASSUME NEW rows, NEW base, Listing(rows, base), NEW e \in Nat, NEW tf \in Nat \ {0},
           NEW seen, seen \subseteq rows,
           \E top \in seen : \A z \in rows : z.at <= top.at,
           NEW v \in ViewOver(Revealed(rows, e), tf, base)
    PROVE  \E x \in seen : Index(x, seen) <= e /\ \A m \in v.bar.of : m < x.at + x.tf
<1> DEFINE P == Revealed(rows, e)
           last == Newest(P)
           ahead == {x \in seen : last.at <= x.at}
<1>1. PICK y \in P : v.bar = RolledBar(P, tf, v.bar.at)
  BY ShownIs
<1>2. P \subseteq rows
  BY DEF Revealed
<1>3. \A z \in rows : /\ z.at \in Minutes /\ z.at \in Nat /\ z.tf = base /\ base \in Nat
                      /\ z.of \subseteq z.at .. z.at + base - 1
  BY DEF Listing, Sound, Bars, Minutes
<1>4. last \in P /\ \A z \in P : z.at <= last.at
  BY <1>1, <1>2, <1>3, NewestIs
<1>5. PICK x \in ahead : \A z \in ahead : x.at <= z.at
  <2>1. ahead # {}
    BY <1>2, <1>4
  <2>2. \A z \in ahead : z.at \in Nat
    BY <1>3
  <2> HIDE DEF ahead
  <2> QED  BY <2>1, <2>2, LeastRow
<1>6. x \in seen /\ x \in rows /\ last \in rows /\ last.at <= x.at
  BY <1>2, <1>4
<1>7. Index(x, seen) <= e
  <2>1. Before(seen, x.at) \subseteq Before(rows, last.at)
    <3> SUFFICES ASSUME NEW z \in seen, z.at < x.at PROVE z.at < last.at
      BY DEF Before
    <3>1. z.at \in Nat /\ x.at \in Nat /\ last.at \in Nat
      BY <1>3, <1>6
    <3>2. z \notin ahead
      BY <1>5, <3>1
    <3>3. ~(last.at <= z.at)
      BY <3>2
    <3> HIDE DEF last
    <3> QED  BY <3>1, <3>3
  <2>2. IsFiniteSet(Before(rows, last.at))
    <3>1. IsFiniteSet(rows)
      BY <1>3, KeyedFinite DEF Listing
    <3> QED  BY <3>1, FS_Subset DEF Before
  <2>3. /\ IsFiniteSet(Before(seen, x.at))
        /\ Cardinality(Before(seen, x.at)) <= Cardinality(Before(rows, last.at))
    BY <2>1, <2>2, FS_Subset
  <2>4. Index(last, rows) <= e
    BY <1>4 DEF Revealed
  <2>5. Index(x, seen) = Cardinality(Before(seen, x.at))
    BY Zenon DEF Index, Before
  <2>6. Index(last, rows) = Cardinality(Before(rows, last.at))
    BY Zenon DEF Index, Before
  <2>7. Cardinality(Before(seen, x.at)) \in Nat /\ Cardinality(Before(rows, last.at)) \in Nat
    BY <2>2, <2>3, FS_CardinalityType
  <2> HIDE DEF last
  <2> QED  BY <2>3, <2>4, <2>5, <2>6, <2>7
<1>8. ASSUME NEW m \in v.bar.of
      PROVE  m < x.at + x.tf
  <2>1. PICK b : b = v.bar.at
    OBVIOUS
  <2>2. v.bar.of = UNION {z.of : z \in InBucket(P, tf, b)}
    BY <1>1, <2>1 DEF RolledBar, Bar
  <2>3. PICK z \in P : m \in z.of
    BY <2>2 DEF InBucket
  <2>4. z \in rows /\ z.at <= last.at
    BY <1>2, <1>4, <2>3
  <2>5. m \in z.at .. z.at + base - 1 /\ z.at \in Nat
    BY <1>3, <2>3, <2>4
  <2>6. x.at \in Nat /\ x.tf = base /\ base \in Nat /\ last.at \in Nat
    BY <1>3, <1>6
  <2> HIDE DEF last
  <2> QED  BY <1>6, <2>4, <2>5, <2>6
<1> QED  BY <1>6, <1>7, <1>8

----------------------------------------------------------------------------
(* The inductive invariant. *)

\* No two rows of the table share a timeframe and an opening, its primary key.
TableInv ==
    /\ \A x \in table : Sound(x)
    /\ \A x, y \in table : x.tf = y.tf /\ x.at = y.at => x = y

\* The table has a bar wherever the first n - 1 derived timeframes of a file give one.
Done(file, n, rows) ==
    \A i \in DOMAIN Derived : i < n =>
        \A x \in Aggregate({Minute(m) : m \in file}, Derived[i]) :
            \E y \in rows : y.tf = x.tf /\ y.at = x.at

LoadInv ==
    /\ loader \in [file : SUBSET Minutes, next : Nat \ {0}]
    /\ Done(loader.file, loader.next, table)
    /\ \A file \in ingested : Done(file, Len(Derived) + 1, table)

Listed(rows, from, base) == rows \subseteq from /\ \A x \in rows : x.tf = base

BuildInv ==
    /\ builder \in [step : {"idle", "bounded", "listed"}, base : Nat \ {0},
                    from : Int, to : Int, rows : SUBSET Bars]
    /\ builder.step # "idle" => feed = NoFeed
    /\ builder.step = "listed" =>
        /\ Listed(builder.rows, table, builder.base)
        /\ Cardinality(builder.rows) > Warmup

\* What a feed promises of the rows its builder saw.
FeedOf(f, rows, from) ==
    /\ f.base \in Nat \ {0}
    /\ Listed(rows, from, f.base)
    /\ \A x \in rows : f.from <= x.at /\ x.at <= f.to
    /\ \E x \in rows : x.at = f.to
    /\ f.total = Cardinality(rows) /\ f.total > Warmup

\* A window keeps those rows, and may have more between them.
IsWindow(rows, f, seen, from) ==
    /\ seen \subseteq rows
    /\ Listed(rows, from, f.base)
    /\ \A x \in rows : x.at <= f.to

FeedInv ==
    /\ edge \in Int /\ edge >= -1
    /\ feed = NoFeed => edge = -1
    /\ feed # NoFeed => FeedOf(feed, built, table) /\ edge < feed.total
    /\ cached # {} => feed # NoFeed /\ IsWindow(cached, feed, built, table)

\* A chart is the view of some edge released before, no newer than the one its reader
\* asks for next.
Drawn(c, e, f, seen, from) ==
    /\ c.tf \in Nat \ {0}
    /\ IsWindow(c.rows, f, seen, from)
    /\ c.bars = ViewOver(Revealed(c.rows, e), c.tf, f.base)

Asking(r) ==
    asked[r] # NoQuestion =>
        /\ feed # NoFeed
        /\ asked[r].tf \in Nat \ {0}
        /\ asked[r].edge \in 0 .. edge

Holding(r) ==
    window[r] # NoWindow =>
        /\ asked[r] # NoQuestion
        /\ IsWindow(window[r].rows, feed, built, table)

Showing(r) ==
    chart[r] # NoChart =>
        /\ feed # NoFeed
        /\ \E e \in 0 .. edge :
              /\ asked[r] # NoQuestion => e <= asked[r].edge
              /\ Drawn(chart[r], e, feed, built, table)

ReadInv ==
    /\ DOMAIN asked = Readers /\ DOMAIN window = Readers /\ DOMAIN chart = Readers
    /\ \A r \in Readers : Asking(r) /\ Holding(r) /\ Showing(r)

MarketInv == TableInv /\ LoadInv /\ BuildInv /\ FeedInv /\ ReadInv

LEMMA ListingOf ==
    ASSUME TableInv, NEW rows, NEW base \in Nat \ {0}, Listed(rows, table, base)
    PROVE  Listing(rows, base)
BY DEF TableInv, Listed, Listing, Keyed

LEMMA MarketInitially == Init => MarketInv
<1> SUFFICES ASSUME Init PROVE MarketInv
  OBVIOUS
<1>1. TableInv
  BY DEF Init, TableInv
<1>2. LoadInv
  BY DEF Init, LoadInv, Idle, Done
<1>3. BuildInv
  BY DEF Init, BuildInv, NoBuild
<1>4. FeedInv
  BY DEF Init, FeedInv
<1>5. ReadInv
  BY DEF Init, ReadInv, Asking, Holding, Showing
<1> QED  BY <1>1, <1>2, <1>3, <1>4, <1>5 DEF MarketInv

----------------------------------------------------------------------------
(* The loader only adds rows, and only where there was none. *)

LEMMA InsertKeeps ==
    ASSUME TableInv, NEW rows, NEW tf, Listing(rows, tf), table' = Insert(rows)
    PROVE  /\ TableInv'
           /\ table \subseteq table'
           /\ \A x \in rows : \E y \in table' : y.tf = x.tf /\ y.at = x.at
<1>1. table' = table \union {x \in rows : ~Taken(x)}
  BY DEF Insert
<1>2. \A x \in rows : Sound(x) /\ x.tf = tf
  BY DEF Listing
<1>3. \A x \in table' : Sound(x)
  BY <1>1, <1>2 DEF TableInv
<1>4. ASSUME NEW x \in table', NEW y \in table', x.tf = y.tf, x.at = y.at
      PROVE  x = y
  <2>1. CASE x \in table /\ y \in table
    BY <1>4, <2>1 DEF TableInv
  <2>2. CASE x \in rows /\ y \in rows
    BY <1>4, <2>2 DEF Listing, Keyed
  <2>3. CASE x \in table /\ y \notin table
    BY <1>1, <1>4, <2>3 DEF Taken
  <2>4. CASE x \notin table /\ y \in table
    BY <1>1, <1>4, <2>4 DEF Taken
  <2> QED  BY <1>1, <2>1, <2>2, <2>3, <2>4
<1>5. ASSUME NEW x \in rows
      PROVE  \E y \in table' : y.tf = x.tf /\ y.at = x.at
  <2>1. CASE Taken(x)
    BY <1>1, <2>1 DEF Taken
  <2>2. CASE ~Taken(x)
    BY <1>1, <2>2
  <2> QED  BY <2>1, <2>2
<1> QED  BY <1>1, <1>3, <1>4, <1>5 DEF TableInv

LEMMA AggregateSound ==
    ASSUME NEW file \in SUBSET Minutes, NEW i \in DOMAIN Derived
    PROVE  Listing(Aggregate({Minute(m) : m \in file}, Derived[i]), Derived[i])
<1>1. Derived[i] \in Nat \ {0}
  OBVIOUS
<1>2. Listing(Rolled({Minute(m) : m \in file}, Derived[i]), Derived[i])
  BY <1>1, MinutesSound, RolledSound
<1>3. Aggregate({Minute(m) : m \in file}, Derived[i])
        \subseteq Rolled({Minute(m) : m \in file}, Derived[i])
  BY DEF Aggregate
<1> QED  BY <1>2, <1>3, PartOfListing

LEMMA DoneStays ==
    ASSUME NEW file, NEW n, NEW rows, NEW more, rows \subseteq more, Done(file, n, rows)
    PROVE  Done(file, n, more)
BY DEF Done

\* More rows in the table leave what was read of it as it was.
LEMMA TableGrows ==
    ASSUME MarketInv, table \subseteq table',
           UNCHANGED <<edge, cached, catalogue, reading>>
    PROVE  BuildInv' /\ FeedInv' /\ ReadInv'
<1>1. \A rows, base : Listed(rows, table, base) => Listed(rows, table', base)
  BY DEF Listed
<1>2. UNCHANGED <<edge, cached, builder, feed, built, asked, window, chart>>
  BY DEF catalogue, reading
<1>3. BuildInv'
  BY <1>1, <1>2 DEF MarketInv, BuildInv
<1>4. \A rows : IsWindow(rows, feed, built, table) => IsWindow(rows, feed, built, table')
  BY <1>1 DEF IsWindow
<1>5. FeedInv'
  <2>1. FeedOf(feed, built, table) => FeedOf(feed, built, table')
    BY <1>1 DEF FeedOf
  <2> QED  BY <1>2, <1>4, <2>1 DEF MarketInv, FeedInv
<1>6. ReadInv'
  <2>1. \A c, e : Drawn(c, e, feed, built, table) => Drawn(c, e, feed, built, table')
    BY <1>4 DEF Drawn
  <2> QED  BY <1>2, <1>4, <2>1 DEF MarketInv, ReadInv, Asking, Holding, Showing
<1> QED  BY <1>3, <1>5, <1>6

LEMMA LoadKeeps ==
    ASSUME MarketInv, Load
    PROVE  MarketInv'
<1>1. /\ TableInv /\ LoadInv
      /\ UNCHANGED <<edge, cached, catalogue, reading>>
  BY DEF MarketInv, Load, IngestMinutes, IngestDerived, IngestReturns, IngestDies
<1>2. ASSUME NEW file \in SUBSET Minutes, IngestMinutes(file)
      PROVE  TableInv' /\ LoadInv' /\ table \subseteq table'
  <2>1. table' = Insert({Minute(m) : m \in file}) /\ UNCHANGED ingested
    BY <1>2 DEF IngestMinutes
  <2>2. TableInv' /\ table \subseteq table'
    BY <1>1, <2>1, MinutesSound, InsertKeeps
  <2>3. loader' = [file |-> file, next |-> 1]
    BY <1>2 DEF IngestMinutes
  <2>4. Done(file, 1, table')
    BY DEF Done
  <2>5. \A g \in ingested : Done(g, Len(Derived) + 1, table')
    BY <1>1, <2>2, DoneStays DEF LoadInv
  <2> QED  BY <2>1, <2>2, <2>3, <2>4, <2>5 DEF LoadInv
<1>3. ASSUME IngestDerived
      PROVE  TableInv' /\ LoadInv' /\ table \subseteq table'
  <2>1. PICK file, n : file = loader.file /\ n = loader.next
    OBVIOUS
  <2>2. file \in SUBSET Minutes /\ n \in Nat \ {0} /\ n \in DOMAIN Derived
    BY <1>1, <1>3, <2>1 DEF LoadInv, IngestDerived
  <2>3. table' = Insert(Aggregate({Minute(m) : m \in file}, Derived[n])) /\ UNCHANGED ingested
    BY <1>3, <2>1 DEF IngestDerived
  <2>4. /\ TableInv' /\ table \subseteq table'
        /\ \A x \in Aggregate({Minute(m) : m \in file}, Derived[n]) :
              \E y \in table' : y.tf = x.tf /\ y.at = x.at
    BY <1>1, <2>2, <2>3, AggregateSound, InsertKeeps
  <2>5. /\ loader' \in [file : SUBSET Minutes, next : Nat \ {0}]
        /\ loader'.file = file /\ loader'.next = n + 1
    BY <1>1, <1>3, <2>1, <2>2 DEF LoadInv, IngestDerived
  <2>6. Done(file, n, table')
    BY <1>1, <2>1, <2>4, DoneStays DEF LoadInv
  <2>7. Done(file, n + 1, table')
    <3>1. \A i \in DOMAIN Derived : i < n + 1 => i < n \/ i = n
      BY <2>2
    <3> QED  BY <2>4, <2>6, <3>1 DEF Done
  <2>8. \A g \in ingested : Done(g, Len(Derived) + 1, table')
    BY <1>1, <2>4, DoneStays DEF LoadInv
  <2>9. UNCHANGED ingested
    BY <2>3
  <2>10. LoadInv'
    BY <2>5, <2>7, <2>8, <2>9 DEF LoadInv
  <2> QED  BY <2>4, <2>10
<1>4. ASSUME IngestReturns \/ IngestDies
      PROVE  TableInv' /\ LoadInv' /\ table \subseteq table'
  <2>1. UNCHANGED table /\ loader' = Idle
    BY <1>4 DEF IngestReturns, IngestDies
  <2>2. ingested' = ingested \/ (IngestReturns /\ ingested' = ingested \union {loader.file})
    BY <1>4 DEF IngestReturns, IngestDies
  <2>3. ASSUME IngestReturns PROVE Done(loader.file, Len(Derived) + 1, table)
    <3>1. \A i \in DOMAIN Derived : i < Len(Derived) + 1 => i < loader.next
      BY <1>1, <2>3 DEF IngestReturns, LoadInv
    <3> QED  BY <1>1, <3>1 DEF Done, LoadInv
  <2>4. Done({}, 1, table)
    BY DEF Done
  <2>5. LoadInv'
    BY <1>1, <2>1, <2>2, <2>3, <2>4 DEF LoadInv, Idle
  <2>6. TableInv'
    BY <1>1, <2>1 DEF TableInv
  <2>7. table \subseteq table'
    BY <2>1
  <2> QED  BY <2>5, <2>6, <2>7
<1>5. TableInv' /\ LoadInv' /\ table \subseteq table'
  <2>1. CASE \E file \in SUBSET Minutes \ {{}} : IngestMinutes(file)
    <3>1. PICK file \in SUBSET Minutes : IngestMinutes(file)
      BY <2>1
    <3> QED  BY <1>2, <3>1
  <2> QED  BY <1>3, <1>4, <2>1 DEF Load
<1> QED  BY <1>1, <1>5, TableGrows DEF MarketInv

----------------------------------------------------------------------------
(* The builder fixes a window before anybody has opened a session on it. *)

\* Steps of the builder that write no feed.
LEMMA BuilderKeeps ==
    ASSUME MarketInv, BuildInv', UNCHANGED <<market, feed, built, edge, cached, reading>>
    PROVE  MarketInv'
<1>1. UNCHANGED <<table, loader, ingested, feed, built, edge, cached, asked, window, chart>>
  BY DEF market, reading
<1>2. TableInv'
  BY <1>1 DEF MarketInv, TableInv
<1>3. LoadInv'
  BY <1>1 DEF MarketInv, LoadInv
<1>4. FeedInv'
  BY <1>1 DEF MarketInv, FeedInv
<1>5. ReadInv'
  BY <1>1 DEF MarketInv, ReadInv, Asking, Holding, Showing
<1> QED  BY <1>2, <1>3, <1>4, <1>5 DEF MarketInv

LEMMA BoundsKeeps ==
    ASSUME MarketInv, NEW tf \in Timeframes, BuildBounds(tf)
    PROVE  MarketInv'
<1>1. TableInv /\ feed = NoFeed
  BY DEF MarketInv, BuildBounds
<1>2. tf \in Nat \ {0}
  BY DEF Timeframes
<1>3. PICK first \in {x \in table : x.tf = tf}, last \in {x \in table : x.tf = tf} :
        builder' = [step |-> "bounded", base |-> tf,
                    from |-> IF last.at - BarCount * tf < first.at
                             THEN first.at ELSE last.at - BarCount * tf,
                    to |-> last.at, rows |-> {}]
  BY DEF BuildBounds
<1>4. first.at \in Int /\ last.at \in Int
  BY <1>1 DEF TableInv, Sound, Bars, Minutes
<1>5. BarCount * tf \in Int
  BY <1>2
<1>6. (IF last.at - BarCount * tf < first.at
       THEN first.at ELSE last.at - BarCount * tf) \in Int
  BY <1>4, <1>5
<1>7. UNCHANGED <<market, feed, built, edge, cached, reading>>
  BY DEF BuildBounds
<1>8. BuildInv'
  BY <1>1, <1>2, <1>3, <1>4, <1>6, <1>7 DEF BuildInv
<1> QED  BY <1>7, <1>8, BuilderKeeps

LEMMA WindowKeeps ==
    ASSUME MarketInv, BuildWindow
    PROVE  MarketInv'
<1>1. /\ TableInv /\ feed = NoFeed
      /\ builder \in [step : {"idle", "bounded", "listed"}, base : Nat \ {0},
                      from : Int, to : Int, rows : SUBSET Bars]
  BY DEF MarketInv, BuildInv, BuildWindow
<1>2. PICK rows : rows = ListWindow(builder.base, builder.from, builder.to)
  OBVIOUS
<1>3. Listed(rows, table, builder.base) /\ rows \in SUBSET Bars
  BY <1>1, <1>2 DEF ListWindow, Listed, TableInv, Sound
<1>4. Cardinality(rows) \in Nat
  <2>1. Listing(rows, builder.base)
    BY <1>1, <1>3, ListingOf
  <2>2. IsFiniteSet(rows)
    BY <2>1, KeyedFinite DEF Listing, Sound, Bars
  <2> QED  BY <2>2, FS_CardinalityType
<1>5. UNCHANGED <<market, feed, built, edge, cached, reading>>
  BY DEF BuildWindow
<1>6. BuildInv'
  <2>1. CASE Cardinality(rows) - Warmup < MinTradeable
    <3>1. builder' = NoBuild
      BY <1>2, <2>1 DEF BuildWindow
    <3> QED  BY <3>1 DEF BuildInv, NoBuild
  <2>2. CASE ~(Cardinality(rows) - Warmup < MinTradeable)
    <3>1. builder' = [step |-> "listed", base |-> builder.base, from |-> builder.from,
                      to |-> builder.to, rows |-> rows]
      BY <1>2, <2>2 DEF BuildWindow
    <3>2. Cardinality(rows) > Warmup
      BY <1>4, <2>2
    <3>3. feed' = NoFeed /\ table' = table
      BY <1>1, <1>5 DEF market
    <3> QED  BY <1>1, <1>3, <3>1, <3>2, <3>3 DEF BuildInv, NoFeed
  <2> QED  BY <2>1, <2>2
<1> QED  BY <1>5, <1>6, BuilderKeeps

LEMMA CreateKeeps ==
    ASSUME MarketInv, BuildCreate
    PROVE  MarketInv'
<1>1. /\ TableInv /\ LoadInv /\ feed = NoFeed /\ edge = -1 /\ cached = {}
      /\ Listed(builder.rows, table, builder.base)
      /\ Cardinality(builder.rows) > Warmup
      /\ builder.base \in Nat \ {0}
  BY DEF MarketInv, BuildInv, FeedInv, BuildCreate
<1>2. PICK rows, base : rows = builder.rows /\ base = builder.base
  OBVIOUS
<1>3. Listing(rows, base)
  BY <1>1, <1>2, ListingOf
<1>4. \A x \in rows : x.at \in Minutes /\ x.at \in Nat
  BY <1>3 DEF Listing, Sound, Bars, Minutes
<1>5. IsFiniteSet(rows)
  BY <1>3, <1>4, KeyedFinite DEF Listing
<1>6. Cardinality(rows) \in Nat /\ rows # {}
  <2>1. Cardinality(rows) \in Nat
    BY <1>5, FS_CardinalityType
  <2>2. Cardinality(rows) # 0
    BY <1>1, <1>2, <2>1
  <2> QED  BY <2>1, <2>2, FS_EmptySet
<1>7. PICK from : from = (CHOOSE a \in {x.at : x \in rows} : \A x \in rows : a <= x.at)
  OBVIOUS
<1>8. \A x \in rows : from <= x.at
  <2>1. \E a \in {x.at : x \in rows} : \A x \in rows : a <= x.at
    <3>1. PICK x \in rows : \A y \in rows : x.at <= y.at
      BY <1>4, <1>6, LeastRow
    <3>2. x.at \in {y.at : y \in rows}
      OBVIOUS
    <3> QED  BY <3>1, <3>2
  <2> QED  BY <1>7, <2>1, Zenon
<1>9. Newest(rows) \in rows /\ \A x \in rows : x.at <= Newest(rows).at
  BY <1>4, <1>6, NewestIs
<1>10. PICK f : f = [base |-> base, from |-> from, to |-> Newest(rows).at,
                     total |-> Counted(rows, base, from, Newest(rows).at)]
  OBVIOUS
<1>11. feed' = f /\ built' = rows /\ builder' = NoBuild
  BY <1>2, <1>7, <1>10, Zenon DEF BuildCreate
<1>12. UNCHANGED <<table, loader, ingested, edge, cached, asked, window, chart>>
  BY DEF BuildCreate, market, reading
<1>13. f.base = base /\ f.from = from /\ f.to = Newest(rows).at /\ f.total = Cardinality(rows)
  BY <1>10 DEF Counted
<1>14. FeedOf(f, rows, table)
  BY <1>1, <1>2, <1>8, <1>9, <1>13 DEF FeedOf
<1>15. FeedInv'
  <2>1. edge < f.total /\ edge \in Int /\ edge >= -1
    BY <1>1, <1>6, <1>13
  <2>2. f # NoFeed
    BY <1>1, <1>2, <1>13 DEF NoFeed
  <2> QED  BY <1>1, <1>11, <1>12, <1>14, <2>1, <2>2 DEF FeedInv
<1>16. BuildInv'
  BY <1>11 DEF BuildInv, NoBuild
<1>17. ReadInv'
  <2>1. \A r \in Readers : asked[r] = NoQuestion /\ window[r] = NoWindow /\ chart[r] = NoChart
    BY <1>1 DEF MarketInv, ReadInv, Asking, Holding, Showing
  <2> QED  BY <1>12, <2>1 DEF MarketInv, ReadInv, Asking, Holding, Showing
<1>18. TableInv' /\ LoadInv'
  <2>1. TableInv'
    BY <1>1, <1>12 DEF TableInv
  <2>2. LoadInv'
    BY <1>1, <1>12 DEF LoadInv
  <2> QED  BY <2>1, <2>2
<1> QED  BY <1>15, <1>16, <1>17, <1>18 DEF MarketInv

LEMMA DiesKeeps ==
    ASSUME MarketInv, BuildDies
    PROVE  MarketInv'
<1>1. builder' = NoBuild /\ UNCHANGED <<market, feed, built, edge, cached, reading>>
  BY DEF BuildDies
<1>2. BuildInv'
  BY <1>1 DEF BuildInv, NoBuild
<1> QED  BY <1>1, <1>2, BuilderKeeps

----------------------------------------------------------------------------
(* The session moves its edge forward within the feed. *)

LEMMA EdgeKeeps ==
    ASSUME MarketInv, Open \/ Release
    PROVE  MarketInv'
<1>1. /\ TableInv /\ LoadInv /\ BuildInv /\ FeedInv /\ ReadInv
      /\ UNCHANGED <<table, loader, ingested, builder, feed, built, cached, asked, window, chart>>
  BY DEF MarketInv, Open, Release, market, catalogue, reading
<1>2. feed # NoFeed /\ feed.total \in Int /\ edge \in Int
  <2>1. feed # NoFeed
    BY <1>1 DEF Open, Release, FeedInv
  <2>2. feed.total = Cardinality(built) /\ Listed(built, table, feed.base) /\ feed.base \in Nat \ {0}
    BY <1>1, <2>1 DEF FeedInv, FeedOf
  <2>3. IsFiniteSet(built)
    BY <1>1, <2>2, ListingOf, KeyedFinite DEF Listing, Sound, Bars
  <2> QED  BY <1>1, <2>1, <2>2, <2>3, FS_CardinalityType DEF FeedInv
<1>3. edge' \in Int /\ edge' >= -1 /\ edge <= edge' /\ edge' < feed.total
  <2>1. CASE Open
    <3>1. edge = -1 /\ feed.total > Warmup /\ edge' = IF Warmup > 0 THEN Warmup - 1 ELSE 0
      BY <1>1, <1>2, <2>1 DEF Open, FeedInv, FeedOf
    <3> QED  BY <1>2, <3>1
  <2>2. CASE Release
    BY <1>1, <1>2, <2>2 DEF Release, FeedInv
  <2> QED  BY <2>1, <2>2
<1>4. FeedInv'
  BY <1>1, <1>2, <1>3 DEF FeedInv
<1>5. 0 .. edge \subseteq 0 .. edge'
  BY <1>2, <1>3
<1>6. ReadInv'
  <2>1. \A r \in Readers : Asking(r)'
    BY <1>1, <1>5 DEF ReadInv, Asking
  <2>2. \A r \in Readers : Holding(r)'
    BY <1>1 DEF ReadInv, Holding
  <2>3. \A r \in Readers : Showing(r)'
    BY <1>1, <1>5 DEF ReadInv, Showing
  <2> QED  BY <1>1, <2>1, <2>2, <2>3 DEF ReadInv
<1>7. TableInv' /\ LoadInv'
  <2>1. TableInv'
    BY <1>1 DEF TableInv
  <2>2. LoadInv'
    BY <1>1 DEF LoadInv
  <2> QED  BY <2>1, <2>2
<1>8. BuildInv'
  BY <1>1 DEF BuildInv
<1> QED  BY <1>4, <1>6, <1>7, <1>8 DEF MarketInv

----------------------------------------------------------------------------
(* Readers, through the cache or past it. *)

\* What a reader or the cache does leaves the market and the session as they were.
LEMMA ReadersKeep ==
    ASSUME MarketInv, UNCHANGED <<market, catalogue, edge>>, ReadInv',
           cached' # {} => feed # NoFeed /\ IsWindow(cached', feed, built, table)
    PROVE  MarketInv'
<1>1. /\ TableInv /\ LoadInv /\ BuildInv /\ FeedInv
      /\ UNCHANGED <<table, loader, ingested, builder, feed, built, edge>>
  BY DEF MarketInv, market, catalogue
<1>2. TableInv'
  BY <1>1 DEF TableInv
<1>3. LoadInv'
  BY <1>1 DEF LoadInv
<1>4. BuildInv'
  BY <1>1 DEF BuildInv
<1>5. FeedInv'
  BY <1>1 DEF FeedInv
<1> QED  BY <1>2, <1>3, <1>4, <1>5 DEF MarketInv

\* A step of one reader.
LEMMA OneReader ==
    ASSUME MarketInv, NEW r \in Readers, UNCHANGED <<market, catalogue, edge>>,
           DOMAIN asked' = Readers, DOMAIN window' = Readers, DOMAIN chart' = Readers,
           \A q \in Readers \ {r} :
               asked'[q] = asked[q] /\ window'[q] = window[q] /\ chart'[q] = chart[q],
           Asking(r)', Holding(r)', Showing(r)'
    PROVE  ReadInv'
<1>1. UNCHANGED <<table, feed, built, edge>>
  BY DEF market, catalogue
<1>2. ASSUME NEW q \in Readers \ {r}
      PROVE  Asking(q)' /\ Holding(q)' /\ Showing(q)'
  <2>1. Asking(q) /\ Holding(q) /\ Showing(q)
    BY DEF MarketInv, ReadInv
  <2>2. asked'[q] = asked[q] /\ window'[q] = window[q] /\ chart'[q] = chart[q]
    OBVIOUS
  <2>3. Asking(q)'
    BY <1>1, <2>1, <2>2 DEF Asking
  <2>4. Holding(q)'
    BY <1>1, <2>1, <2>2 DEF Holding
  <2>5. Showing(q)'
    BY <1>1, <2>1, <2>2 DEF Showing
  <2> QED  BY <2>3, <2>4, <2>5
<1>3. \A q \in Readers : Asking(q)' /\ Holding(q)' /\ Showing(q)'
  BY <1>2
<1> QED  BY <1>3 DEF ReadInv

LEMMA AskKeeps ==
    ASSUME MarketInv, NEW r \in Readers, NEW tf \in Views, Ask(r, tf)
    PROVE  MarketInv'
<1>1. /\ asked' = [asked EXCEPT ![r] = [tf |-> tf, edge |-> edge]]
      /\ asked[r] = NoQuestion /\ edge >= 0
      /\ UNCHANGED <<market, catalogue, edge, cached, window, chart>>
  BY DEF Ask
<1>2. UNCHANGED <<table, feed, built>>
  BY <1>1 DEF market, catalogue
<1>3. FeedInv /\ ReadInv /\ Asking(r) /\ Holding(r) /\ Showing(r)
  BY DEF MarketInv, ReadInv
<1>4. feed # NoFeed /\ edge \in Nat
  BY <1>1, <1>3 DEF FeedInv
<1>5. asked'[r].tf = tf /\ asked'[r].edge = edge
  BY <1>1, <1>3 DEF ReadInv
<1>6. Asking(r)'
  BY <1>1, <1>2, <1>4, <1>5 DEF Asking
<1>7. Holding(r)'
  BY <1>1, <1>3 DEF Holding
<1>8. Showing(r)'
  <2> SUFFICES ASSUME chart'[r] # NoChart
               PROVE  /\ feed' # NoFeed
                      /\ \E e \in 0 .. edge' :
                            /\ asked'[r] # NoQuestion => e <= asked'[r].edge
                            /\ Drawn(chart'[r], e, feed', built', table')
    BY DEF Showing
  <2>1. PICK e \in 0 .. edge : Drawn(chart[r], e, feed, built, table)
    BY <1>1, <1>3 DEF Showing
  <2>2. e <= edge
    BY <1>4
  <2> QED  BY <1>1, <1>2, <1>4, <1>5, <2>1, <2>2
<1>9. ReadInv'
  BY <1>1, <1>3, <1>6, <1>7, <1>8, OneReader DEF ReadInv
<1> QED  BY <1>1, <1>3, <1>9, ReadersKeep DEF FeedInv

\* Whichever way a reader comes by its rows, they are a window of the feed.
LEMMA TakeKeeps ==
    ASSUME MarketInv, NEW r \in Readers, WindowHit(r) \/ WindowMiss(r)
    PROVE  MarketInv'
<1>1. asked[r] # NoQuestion /\ UNCHANGED <<market, catalogue, edge, cached, asked, chart>>
  BY DEF WindowHit, WindowMiss
<1>2. UNCHANGED <<table, feed, built>>
  BY <1>1 DEF market, catalogue
<1>3. TableInv /\ FeedInv /\ ReadInv /\ Asking(r) /\ Holding(r) /\ Showing(r)
  BY DEF MarketInv, ReadInv
<1>4. PICK rows : /\ IsWindow(rows, feed, built, table)
                  /\ \E put \in BOOLEAN : window' = [window EXCEPT ![r] = [rows |-> rows, put |-> put]]
  <2>1. CASE WindowHit(r)
    BY <1>3, <2>1 DEF WindowHit, FeedInv
  <2>2. CASE WindowMiss(r)
    <3>1. PICK rows : rows = ListWindow(feed.base, feed.from, feed.to)
      OBVIOUS
    <3>2. FeedOf(feed, built, table)
      BY <1>1, <1>3 DEF Asking, FeedInv
    <3>3. IsWindow(rows, feed, built, table)
      BY <3>1, <3>2 DEF IsWindow, FeedOf, Listed, ListWindow
    <3>4. window' = [window EXCEPT ![r] = [rows |-> rows, put |-> TRUE]]
      BY <2>2, <3>1 DEF WindowMiss
    <3> QED  BY <3>3, <3>4
  <2> QED  BY <2>1, <2>2
<1>5. window'[r].rows = rows
  BY <1>3, <1>4 DEF ReadInv
<1>6. Asking(r)'
  BY <1>1, <1>2, <1>3 DEF Asking
<1>7. Holding(r)'
  BY <1>1, <1>2, <1>4, <1>5 DEF Holding
<1>8. Showing(r)'
  BY <1>1, <1>2, <1>3 DEF Showing
<1>9. ReadInv'
  BY <1>1, <1>3, <1>4, <1>6, <1>7, <1>8, OneReader DEF ReadInv
<1> QED  BY <1>1, <1>3, <1>9, ReadersKeep DEF FeedInv

LEMMA PutKeeps ==
    ASSUME MarketInv, NEW r \in Readers, WindowPut(r)
    PROVE  MarketInv'
<1>1. /\ window' = [window EXCEPT ![r] = [rows |-> window[r].rows, put |-> FALSE]]
      /\ cached' \in {cached, window[r].rows}
      /\ UNCHANGED <<market, catalogue, edge, asked, chart>>
  BY DEF WindowPut
<1>2. UNCHANGED <<table, feed, built>>
  BY <1>1 DEF market, catalogue
<1>3. FeedInv /\ ReadInv /\ Asking(r) /\ Holding(r) /\ Showing(r)
  BY DEF MarketInv, ReadInv
<1>4. /\ asked[r] # NoQuestion /\ feed # NoFeed
      /\ IsWindow(window[r].rows, feed, built, table)
  <2>1. window[r] # NoWindow
    BY DEF WindowPut, NoWindow
  <2> QED  BY <1>3, <2>1 DEF Holding, Asking
<1>5. window'[r].rows = window[r].rows
  BY <1>1, <1>3 DEF ReadInv
<1>6. Asking(r)' /\ Showing(r)'
  BY <1>1, <1>2, <1>3 DEF Asking, Showing
<1>7. Holding(r)'
  BY <1>1, <1>2, <1>4, <1>5 DEF Holding
<1>8. ReadInv'
  BY <1>1, <1>3, <1>6, <1>7, OneReader DEF ReadInv
<1>9. cached' # {} => feed # NoFeed /\ IsWindow(cached', feed, built, table)
  BY <1>1, <1>3, <1>4 DEF FeedInv
<1> QED  BY <1>1, <1>8, <1>9, ReadersKeep

LEMMA AnswerKeeps ==
    ASSUME MarketInv, NEW r \in Readers, Answer(r)
    PROVE  MarketInv'
<1>1. /\ asked' = [asked EXCEPT ![r] = NoQuestion]
      /\ window' = [window EXCEPT ![r] = NoWindow]
      /\ UNCHANGED <<market, catalogue, edge, cached>>
  BY DEF Answer
<1>2. UNCHANGED <<table, feed, built>>
  BY <1>1 DEF market, catalogue
<1>3. FeedInv /\ ReadInv /\ Asking(r) /\ Holding(r) /\ Showing(r)
  BY DEF MarketInv, ReadInv
<1>4. asked'[r] = NoQuestion /\ window'[r] = NoWindow
  BY <1>1, <1>3 DEF ReadInv
<1>5. PICK q, rows : q = asked[r] /\ rows = window[r].rows
  OBVIOUS
<1>6. /\ feed # NoFeed /\ q.tf \in Nat \ {0} /\ q.edge \in 0 .. edge
      /\ IsWindow(rows, feed, built, table)
  <2>1. window[r] # NoWindow
    BY DEF Answer, NoWindow
  <2> QED  BY <1>3, <1>5, <2>1 DEF Holding, Asking
<1>7. Asking(r)' /\ Holding(r)'
  BY <1>4 DEF Asking, Holding
<1>8. Showing(r)' /\ DOMAIN chart' = Readers /\ \A p \in Readers \ {r} : chart'[p] = chart[p]
  <2>1. CASE q.edge >= Cardinality(rows)
    <3>1. chart' = chart
      BY <1>5, <2>1 DEF Answer
    <3> QED  BY <1>1, <1>2, <1>3, <1>4, <3>1 DEF ReadInv, Showing
  <2>2. CASE ~(q.edge >= Cardinality(rows))
    <3>1. PICK bars : bars = View(Revealed(rows, q.edge), q.tf)
      OBVIOUS
    <3>2. chart' = [chart EXCEPT ![r] = [tf |-> q.tf, rows |-> rows, bars |-> bars]]
      BY <1>5, <2>2, <3>1 DEF Answer
    <3>3. PICK c : c = [tf |-> q.tf, rows |-> rows, bars |-> bars]
      OBVIOUS
    <3>4. chart'[r] = c
      BY <1>3, <3>2, <3>3 DEF ReadInv
    <3>5. bars = ViewOver(Revealed(rows, q.edge), q.tf, feed.base)
      BY <3>1, ViewIs
    <3>6. Drawn(c, q.edge, feed, built, table)
      BY <1>6, <3>3, <3>5 DEF Drawn
    <3>7. Showing(r)'
      BY <1>1, <1>2, <1>4, <1>6, <3>4, <3>6 DEF Showing
    <3> QED  BY <1>3, <3>2, <3>7 DEF ReadInv
  <2> QED  BY <2>1, <2>2
<1>9. ReadInv'
  BY <1>1, <1>3, <1>7, <1>8, OneReader DEF ReadInv
<1> QED  BY <1>1, <1>3, <1>9, ReadersKeep DEF FeedInv

LEMMA FailKeeps ==
    ASSUME MarketInv, NEW r \in Readers, ReadFails(r)
    PROVE  MarketInv'
<1>1. /\ asked' = [asked EXCEPT ![r] = NoQuestion]
      /\ window' = [window EXCEPT ![r] = NoWindow]
      /\ UNCHANGED <<market, catalogue, edge, cached, chart>>
  BY DEF ReadFails
<1>2. UNCHANGED <<table, feed, built>>
  BY <1>1 DEF market, catalogue
<1>3. FeedInv /\ ReadInv /\ Showing(r)
  BY DEF MarketInv, ReadInv
<1>4. asked'[r] = NoQuestion /\ window'[r] = NoWindow
  BY <1>1, <1>3 DEF ReadInv
<1>5. Asking(r)' /\ Holding(r)'
  BY <1>4 DEF Asking, Holding
<1>6. Showing(r)'
  BY <1>1, <1>2, <1>3, <1>4 DEF Showing
<1>7. ReadInv'
  BY <1>1, <1>3, <1>5, <1>6, OneReader DEF ReadInv
<1> QED  BY <1>1, <1>3, <1>7, ReadersKeep DEF FeedInv

LEMMA RestKeeps ==
    ASSUME MarketInv, WindowExpires \/ UNCHANGED vars
    PROVE  MarketInv'
<1>1. UNCHANGED <<market, catalogue, edge, reading>> /\ cached' \in {cached, {}}
  BY DEF WindowExpires, vars, market, catalogue, reading
<1>2. ReadInv'
  BY <1>1 DEF MarketInv, ReadInv, Asking, Holding, Showing, market, catalogue, reading
<1> QED  BY <1>1, <1>2, ReadersKeep DEF MarketInv, FeedInv

LEMMA MarketStep == MarketInv /\ [Next]_vars => MarketInv'
<1> SUFFICES ASSUME MarketInv, [Next]_vars PROVE MarketInv'
  OBVIOUS
<1>1. CASE Build
  BY <1>1, BoundsKeeps, WindowKeeps, CreateKeeps, DiesKeeps DEF Build
<1>2. ASSUME NEW r \in Readers, Read(r)
      PROVE  MarketInv'
  BY <1>2, AskKeeps, TakeKeeps, PutKeeps, AnswerKeeps, FailKeeps DEF Read
<1> QED  BY <1>1, <1>2, LoadKeeps, EdgeKeeps, RestKeeps DEF Next

\* The market data keeps its keys, a feed its promises, and every window and chart is
\* one of the feed's, however files, builders, sessions, readers and the cache interleave.
THEOREM MarketInductive == Spec => []MarketInv
BY MarketInitially, MarketStep, PTL DEF Spec

----------------------------------------------------------------------------
(* What the runs check. *)

\* No answer shows a minute that the released bars do not reach, whatever files fill
\* gaps after the feed was built and whichever window the reader got
\* (feed/service.go:279-333).
THEOREM NoHindsight == Spec => []NothingPastTheEdge
<1>1. MarketInv => NothingPastTheEdge
  <2> SUFFICES ASSUME MarketInv, NEW r \in Readers, NEW shown \in chart[r].bars
               PROVE  \E x \in built : Index(x, built) <= edge
                                       /\ \A m \in shown.bar.of : m < x.at + x.tf
    BY DEF NothingPastTheEdge
  <2>1. TableInv /\ FeedInv /\ Showing(r)
    BY DEF MarketInv, ReadInv
  <2>2. chart[r] # NoChart
    BY DEF NoChart
  <2>3. feed # NoFeed /\ FeedOf(feed, built, table) /\ edge \in Int
    BY <2>1, <2>2 DEF Showing, FeedInv
  <2>4. PICK e \in 0 .. edge : Drawn(chart[r], e, feed, built, table)
    BY <2>1, <2>2 DEF Showing
  <2>5. PICK rows, tf, base : rows = chart[r].rows /\ tf = chart[r].tf /\ base = feed.base
    OBVIOUS
  <2>6. /\ tf \in Nat \ {0} /\ base \in Nat \ {0}
        /\ IsWindow(rows, feed, built, table)
        /\ shown \in ViewOver(Revealed(rows, e), tf, base)
    BY <2>3, <2>4, <2>5 DEF Drawn, FeedOf
  <2>7. Listing(rows, base) /\ built \subseteq rows
    BY <2>1, <2>5, <2>6, ListingOf DEF IsWindow
  <2>8. \E top \in built : \A z \in rows : z.at <= top.at
    BY <2>3, <2>6 DEF FeedOf, IsWindow
  <2>9. e \in Nat /\ e <= edge
    BY <2>3
  <2>10. PICK x \in built : Index(x, built) <= e /\ \A m \in shown.bar.of : m < x.at + x.tf
    BY <2>6, <2>7, <2>8, <2>9, ShownBeforeEdge
  <2>11. Index(x, built) \in Nat
    <3>1. Listing(built, base) /\ x.at <= x.at
      BY <2>7, PartOfListing, SMTT(40) DEF Listing, Sound, Bars, Minutes
    <3> QED  BY <3>1, IndexOrder
  <2> QED  BY <2>3, <2>9, <2>10, <2>11
<1> QED  BY <1>1, MarketInductive, PTL

\* No window anybody holds, from the table or the cache, is shorter than TotalBars
\* (feed/service.go:92, 133-149).
THEOREM PromisedBarsAreThere == Spec => []WindowCoversFeed
<1>1. ASSUME MarketInv, NEW rows, feed # NoFeed, IsWindow(rows, feed, built, table)
      PROVE  Cardinality(rows) >= feed.total
  <2>1. FeedOf(feed, built, table)
    BY <1>1 DEF MarketInv, FeedInv
  <2>2. Listing(rows, feed.base)
    BY <1>1, <2>1, ListingOf DEF MarketInv, IsWindow, FeedOf
  <2>3. IsFiniteSet(rows)
    BY <2>2, KeyedFinite DEF Listing, Sound, Bars
  <2>4. Cardinality(built) <= Cardinality(rows) /\ IsFiniteSet(built)
    BY <1>1, <2>3, FS_Subset DEF IsWindow
  <2> QED  BY <2>1, <2>3, <2>4, FS_CardinalityType DEF FeedOf
<1>2. MarketInv => WindowCoversFeed
  <2> SUFFICES ASSUME MarketInv PROVE WindowCoversFeed
    OBVIOUS
  <2>1. ASSUME NEW r \in Readers, window[r] # NoWindow
        PROVE  Cardinality(window[r].rows) >= feed.total
    BY <1>1, <2>1 DEF MarketInv, ReadInv, Holding, Asking
  <2>2. ASSUME cached # {} PROVE Cardinality(cached) >= feed.total
    BY <1>1, <2>2 DEF MarketInv, FeedInv
  <2> QED  BY <2>1, <2>2 DEF WindowCoversFeed
<1> QED  BY <1>2, MarketInductive, PTL

\* A bar drawn as closed sums up its whole bucket, for any viewing timeframe at or above
\* one minute and any gaps (feed/aggregate.go:38-90).
THEOREM ClosedBarsAreWhole == Spec => []ClosedIsWhole
<1>1. MarketInv => ClosedIsWhole
  <2> SUFFICES ASSUME MarketInv, NEW r \in Readers, NEW shown \in chart[r].bars, ~shown.forming,
                      NEW x \in chart[r].rows, Bucket(x, chart[r].tf) = shown.bar.at
               PROVE  x.of \subseteq shown.bar.of
    BY DEF ClosedIsWhole
  <2>1. TableInv /\ FeedInv /\ Showing(r)
    BY DEF MarketInv, ReadInv
  <2>2. chart[r] # NoChart
    BY DEF NoChart
  <2>3. feed # NoFeed /\ FeedOf(feed, built, table) /\ edge \in Int
    BY <2>1, <2>2 DEF Showing, FeedInv
  <2>4. PICK e \in 0 .. edge : Drawn(chart[r], e, feed, built, table)
    BY <2>1, <2>2 DEF Showing
  <2>5. PICK rows, tf, base : rows = chart[r].rows /\ tf = chart[r].tf /\ base = feed.base
    OBVIOUS
  <2>6. /\ tf \in Nat \ {0} /\ base \in Nat \ {0} /\ e \in Nat
        /\ IsWindow(rows, feed, built, table)
        /\ shown \in ViewOver(Revealed(rows, e), tf, base)
    BY <2>3, <2>4, <2>5 DEF Drawn, FeedOf
  <2>7. Listing(rows, base)
    BY <2>1, <2>5, <2>6, ListingOf DEF IsWindow
  <2>8. x \in rows /\ Bucket(x, tf) = shown.bar.at
    BY <2>5
  <2> QED  BY <2>6, <2>7, <2>8, ClosedSumsUp
<1> QED  BY <1>1, MarketInductive, PTL

\* What a trader has seen closed stays as it was, at its index, while the window does
\* (feed/service.go:315-333).
THEOREM ClosedBarsStay == Spec => ClosedIsKept
<1>1. ASSUME MarketInv, [Next]_vars, NEW r \in Readers,
             chart'[r].tf = chart[r].tf, chart'[r].rows = chart[r].rows
      PROVE  Closed(chart[r]) \subseteq Closed(chart'[r])
  <2>1. CASE chart'[r] = chart[r]
    BY <2>1
  <2>2. CASE Answer(r) /\ chart'[r] # chart[r]
    <3> SUFFICES ASSUME NEW shown \in chart[r].bars, ~shown.forming
                 PROVE  shown \in chart'[r].bars
      BY DEF Closed
    <3>1. TableInv /\ FeedInv /\ DOMAIN chart = Readers /\ Showing(r) /\ Asking(r) /\ Holding(r)
      BY <1>1 DEF MarketInv, ReadInv
    <3>2. chart[r] # NoChart
      BY DEF NoChart
    <3>3. window[r] # NoWindow
      BY <2>2 DEF Answer, NoWindow
    <3>4. asked[r] # NoQuestion
      BY <3>1, <3>3 DEF Holding
    <3>5. feed # NoFeed /\ FeedOf(feed, built, table) /\ edge \in Int
      BY <3>1, <3>2 DEF Showing, FeedInv
    <3>6. PICK e \in 0 .. edge : e <= asked[r].edge /\ Drawn(chart[r], e, feed, built, table)
      BY <3>1, <3>2, <3>4 DEF Showing
    <3>7. PICK rows, tf, base : rows = chart[r].rows /\ tf = chart[r].tf /\ base = feed.base
      OBVIOUS
    <3>8. /\ tf \in Nat \ {0} /\ base \in Nat \ {0} /\ e \in Nat
          /\ IsWindow(rows, feed, built, table)
          /\ shown \in ViewOver(Revealed(rows, e), tf, base)
      BY <3>5, <3>6, <3>7 DEF Drawn, FeedOf
    <3>9. Listing(rows, base)
      BY <3>1, <3>7, <3>8, ListingOf DEF IsWindow
    <3>10. PICK f : f = asked[r].edge
      OBVIOUS
    <3>11. f \in Nat /\ e <= f
      BY <3>1, <3>4, <3>5, <3>6, <3>10 DEF Asking
    <3>12. chart'[r] = [tf |-> asked[r].tf, rows |-> window[r].rows,
                        bars |-> View(Revealed(window[r].rows, f), asked[r].tf)]
      BY <2>2, <3>1, <3>10 DEF Answer
    <3>13. chart'[r].bars = ViewOver(Revealed(rows, f), tf, base)
      <4>1. asked[r].tf = tf /\ window[r].rows = rows
        BY <1>1, <3>7, <3>12
      <4>2. chart'[r].bars = View(Revealed(rows, f), tf)
        BY <3>12, <4>1
      <4> QED  BY <3>7, <4>2, ViewIs
    <3> QED  BY <3>8, <3>9, <3>11, <3>13, ClosedStays
  <2>3. Answer(r) \/ chart'[r] = chart[r]
    <3>1. ASSUME NEW q \in Readers, Answer(q), q # r PROVE chart'[r] = chart[r]
      BY <3>1 DEF Answer, MarketInv, ReadInv
    <3>2. ASSUME NEW q \in Readers, Read(q), ~Answer(q) PROVE chart' = chart
      BY <3>2 DEF Read, Ask, WindowHit, WindowMiss, WindowPut, ReadFails
    <3>3. ASSUME Load \/ Build \/ Open \/ Release \/ WindowExpires \/ UNCHANGED vars
          PROVE  chart' = chart
      BY <3>3 DEF Load, IngestMinutes, IngestDerived, IngestReturns, IngestDies, Build,
                  BuildBounds, BuildWindow, BuildCreate, BuildDies, Open, Release,
                  WindowExpires, vars, reading
    <3> QED  BY <1>1, <3>1, <3>2, <3>3 DEF Next
  <2> QED  BY <2>1, <2>2, <2>3
<1>2. MarketInv /\ [Next]_vars =>
        [\A r \in Readers :
            chart'[r].tf = chart[r].tf /\ chart'[r].rows = chart[r].rows
              => Closed(chart[r]) \subseteq Closed(chart'[r])]_vars
  BY <1>1
<1> QED  BY <1>2, MarketInductive, PTL DEF Spec, ClosedIsKept

\* Every derived bar of a file is there once its ingest returned, for any history of
\* failed and repeated runs before (cmd/loader/main.go:206-226).
THEOREM IngestLeavesBars == Spec => []IngestedIsDerived
<1>1. MarketInv => IngestedIsDerived
  <2> SUFFICES ASSUME MarketInv, NEW file \in ingested, NEW i \in DOMAIN Derived,
                      NEW x \in Aggregate({Minute(m) : m \in file}, Derived[i])
               PROVE  Taken(x)
    BY DEF IngestedIsDerived
  <2>1. Done(file, Len(Derived) + 1, table)
    BY DEF MarketInv, LoadInv
  <2>2. i < Len(Derived) + 1
    OBVIOUS
  <2> QED  BY <2>1, <2>2 DEF Done, Taken
<1> QED  BY <1>1, MarketInductive, PTL
=============================================================================
