--------------------------- MODULE MCRouteListPage ---------------------------
EXTENDS RouteListPage

MCIds == 1..2

====
