---- MODULE MCMembers ----
EXTENDS MembersProperties, TLC
CONSTANTS a, b, c, w1, w2, w3
Alike == Permutations(Person) \union Permutations(Worker)
Roles == {"owner", "admin", "member"}
====
