---------------------------- MODULE MCAuthSession ----------------------------
EXTENDS AuthSession

CONSTANTS t1, t2

MCTokens == {t1, t2}

====
