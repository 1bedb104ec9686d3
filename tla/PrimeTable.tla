----------------------------- MODULE PrimeTable -----------------------------
(***************************************************************************)
(* prime_table.c: nearest_prime(), the row count of every hashmap.  Each   *)
(* table holds the largest prime up to the bound of its bucket; the last   *)
(* two are declared with 1024 entries and initialised with 1023, so their  *)
(* last entry is 0.                                                        *)
(***************************************************************************)
EXTENDS Integers, FiniteSets, FiniteSetsExt

CONSTANT Sizes    \* the row counts asked for: both sides of every boundary

ASSUME SizesAssumption == Sizes \subseteq Int

VARIABLE nearest  \* the last call: [n, p], p what it returned for n

IsPrime(n) ==
  /\ n > 1
  /\ LET root == CHOOSE r \in 1..11585 : r * r <= n /\ (r + 1) * (r + 1) > n
     IN \A d \in 2..root : n % d # 0

(* The largest prime that is at most n. *)
PrimeUpTo(n) ==
  n - CHOOSE g \in 0..300 : IsPrime(n - g) /\ \A h \in 0..g - 1 : ~IsPrime(n - h)

(* The four tables; 8, 64, 1024 and 131072 numbers share an entry. *)
prime_table0(i) == IF i = 0 THEN 3 ELSE PrimeUpTo(8 * i + 1)

prime_table1(i) == IF i = 0 THEN 1 ELSE PrimeUpTo(64 * i + 1)

prime_table2(i) == IF i = 1023 THEN 0 ELSE PrimeUpTo(1024 * (i + 1))

prime_table3(i) == IF i = 1023 THEN 0 ELSE PrimeUpTo(131072 * (i + 1))

Abs(n) == IF n < 0 THEN -n ELSE n

(* Mutant: the second table is entered with the shift of the first. *)
NearestPrimeWrongShift(n) ==
  IF Abs(n) < 8192 THEN prime_table0((Abs(n) \div 8) % 1024)
  ELSE prime_table1((Abs(n) \div 8) % 1024)

(* From 2^27 on the third table is entered with the shift of a fourth one   *)
(* that does not exist.                                                     *)
NearestPrime(n) ==
  LET a == Abs(n)
  IN CASE a < 8192 -> prime_table0((a \div 8) % 1024)
       [] a >= 8192 /\ a < 65536 -> prime_table1((a \div 64) % 1024)
       [] a >= 65536 /\ a < 1048576 -> prime_table2((a \div 1024) % 1024)
       [] a >= 1048576 /\ a < 134217728 -> prime_table3((a \div 131072) % 1024)
       [] a >= 134217728 /\ a < 1073741824 -> prime_table3((a \div 1048576) % 1024)
       [] OTHER -> 134086639

----------------------------------------------------------------------------
PrimeCalled(n) == [n |-> n, p |-> NearestPrime(n)]

PrimeInit == \E n \in Sizes : nearest = PrimeCalled(n)

(* Then the same size with its sign changed. *)
PrimeNext == nearest' = PrimeCalled(-nearest.n)

----------------------------------------------------------------------------
(* The sizes whose bucket is the missing last entry of a table. *)
NoEntry(n) == \/ 1047552 <= n /\ n < 1048576
              \/ 134086656 <= n /\ n < 134217728
              \/ 1072693248 <= n /\ n < 1073741824

(* A caller of hashmap_new() gets a prime number of rows that is its size   *)
(* up to a factor of two, so that no chain is expected to hold more than    *)
(* two of its keys; the exceptions are the three ranges above, where the    *)
(* answer is 0 and hash_fcn_new() divides by it, and the sizes from 2^27    *)
(* on, which get fewer rows than they ask for.                              *)
NearestPrimeSound ==
  LET n == Abs(nearest.n)
      p == nearest.p
  IN /\ p = 0 <=> NoEntry(n)
     /\ ~NoEntry(n) => IsPrime(p)
     /\ 2 <= n /\ n < 134217728 /\ ~NoEntry(n) => n <= 2 * p + 1 /\ p <= 2 * n
     /\ n >= 134217728 => p < n
=============================================================================
