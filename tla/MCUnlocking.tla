---- MODULE MCUnlocking ----
EXTENDS Unlocking
====
