---------------------------- MODULE MCHttpClient ----------------------------
EXTENDS HttpClient

CONSTANTS r1, r2, t1, t2, p1

MCReqs == {r1, r2}
MCTokens == {t1, t2}
MCPayloads == {p1}
MCStatuses == {200, 401, 500}
MCEnvCodes == {0, 200, 401, 404}

====
