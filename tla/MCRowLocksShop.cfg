CONSTANTS
    Services <- Shop
    StoreOrdersOf <- OrderStoreOrders
    ItemsOf <- OrderItems
    StoreOrderOf <- ItemStoreOrder
    OrderOf <- StoreOrderOrder
    ProductOf <- ItemProduct
    StoreOf <- ProductStore
    CategoryOf <- ProductCategory
    SellerOf <- StoreOrderStore
    CustomerOf <- OrderCustomer
    CartOf <- Carts
    DefaultOf <- Default
    NewestOf <- Newest
SPECIFICATION Spec
INVARIANTS
    OrderServicesNeverDeadlock
